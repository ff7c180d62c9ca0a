----------------------------- MODULE FilesProofs -----------------------------
(***************************************************************************)
(* What the files of a site promise, for every model, outline and list.    *)
(*                                                                         *)
(* The arguments.  The products of a file are those of its layers, one     *)
(* after the other, and a flattened list has a place for each element of   *)
(* its lists (Flat); so what a product tells, what the registry enters and *)
(* what a filter keeps is said of one product at a time.  The scene and    *)
(* the objects of the city grow by one element per step of a fold, which   *)
(* keeps their invariant.  The faces of a prism pass an edge of the outline *)
(* once each way, those of the cap what the triangles of the outline pass.  *)
(*                                                                         *)
(* Folds of the library are functions on the subsets of a finite set; that  *)
(* they exist, and what they sum up to, is shown here by induction on the   *)
(* number of elements (InductionOnSet, SubsetInduction, SetRecursion);      *)
(* TerrainProofs uses these as well.                                        *)
(***************************************************************************)
EXTENDS Files, WellFoundedInduction, FiniteSetTheorems, FunctionTheorems, SequenceTheorems, TLAPS

-----------------------------------------------------------------------------
(* Finite sets, and the folds of the library.                              *)

\* A set of natural numbers that is not empty has a least one.
LEMMA LeastOne ==
  ASSUME NEW T, T \subseteq Nat, T # {}
  PROVE  \E x \in T : \A y \in T : y >= x
<1> DEFINE Less == {p \in Nat \X Nat : p[1] < p[2]}
<1>1. IsWellFoundedOn(Less, Nat)
  BY NatLessThanWellFounded DEF OpToRel
<1>2. PICK x \in T : \A y \in T : ~ (<<y, x>> \in Less)
  <2> HIDE DEF Less
  <2> QED
    BY <1>1, WFMin
<1>3. ASSUME NEW y \in T PROVE y >= x
  <2>1. x \in Nat /\ y \in Nat /\ ~ (<<y, x>> \in Less)
    BY <1>2
  <2>2. ~ (y < x)
    BY <2>1
  <2> QED
    BY <2>1, <2>2
<1> QED
  BY <1>3

\* Induction over a set of numbers, which the provers can be given.
LEMMA InductionOnSet ==
  ASSUME NEW A, 0 \in A, \A k \in Nat : k \in A => k + 1 \in A
  PROVE  \A k \in Nat : k \in A
<1> DEFINE T == Nat \ A
<1>1. SUFFICES ASSUME T # {} PROVE FALSE
  OBVIOUS
<1>2. PICK n \in T : \A y \in T : y >= n
  BY <1>1, LeastOne
<1>3. n # 0 /\ n - 1 \in Nat
  BY <1>2
<1>4. n - 1 \notin T
  BY <1>2, <1>3
<1> QED
  BY <1>2, <1>3, <1>4

\* A finite set of integers that is not empty has a least and a greatest one.
LEMMA FiniteBounds ==
  ASSUME NEW S, S \subseteq Int, S # {}, IsFiniteSet(S)
  PROVE  /\ \E x \in S : \A y \in S : x <= y
         /\ \E x \in S : \A y \in S : x >= y
<1> DEFINE Bounded(T) == (\E x \in T : \A y \in T : x <= y) /\ (\E x \in T : \A y \in T : x >= y)
           A == {k \in Nat : \A T \in SUBSET S : Cardinality(T) = k /\ T # {} => Bounded(T)}
<1>1. 0 \in A
  <2>1. \A T \in SUBSET S : Cardinality(T) = 0 => T = {}
    BY FS_Subset, FS_EmptySet
  <2> QED
    BY <2>1
<1>2. ASSUME NEW k \in Nat, k \in A PROVE k + 1 \in A
  <2> SUFFICES ASSUME NEW T \in SUBSET S, Cardinality(T) = k + 1, T # {} PROVE Bounded(T)
    OBVIOUS
  <2>1. PICK x \in T : TRUE
    OBVIOUS
  <2>2. T \ {x} \in SUBSET S /\ Cardinality(T \ {x}) = k
    <3>1. IsFiniteSet(T)
      BY FS_Subset
    <3>2. Cardinality(T \ {x}) = Cardinality(T) - 1
      BY <2>1, <3>1, FS_RemoveElement
    <3> QED
      BY <3>2
  <2>3. CASE T \ {x} = {}
    <3>1. T = {x} /\ x \in Int
      BY <2>1, <2>3
    <3> QED
      BY <3>1
  <2>4. CASE T \ {x} # {}
    <3>1. Bounded(T \ {x})
      BY <1>2, <2>2, <2>4
    <3>2. PICK a \in T \ {x} : \A y \in T \ {x} : a <= y
      BY <3>1
    <3>3. PICK b \in T \ {x} : \A y \in T \ {x} : b >= y
      BY <3>1
    <3>4. \E m \in T : \A y \in T : m <= y
      <4>1. CASE a <= x
        BY <3>2, <4>1
      <4>2. CASE x <= a
        <5>1. \A y \in T : x <= y
          BY <2>1, <3>2, <4>2
        <5> QED
          BY <2>1, <5>1
      <4>3. a \in Int /\ x \in Int
        BY <2>1, <3>2
      <4> QED
        BY <4>1, <4>2, <4>3
    <3>5. \E m \in T : \A y \in T : m >= y
      <4>1. CASE b >= x
        BY <3>3, <4>1
      <4>2. CASE x >= b
        <5>1. \A y \in T : x >= y
          BY <2>1, <3>3, <4>2
        <5> QED
          BY <2>1, <5>1
      <4>3. b \in Int /\ x \in Int
        BY <2>1, <3>3
      <4> QED
        BY <4>1, <4>2, <4>3
    <3> QED
      BY <3>4, <3>5
  <2> QED
    BY <2>3, <2>4
<1> HIDE DEF A
<1>3. Cardinality(S) \in A
  BY <1>1, <1>2, InductionOnSet, FS_CardinalityType
<1> QED
  BY <1>3 DEF A

LEMMA MaxIs ==
  ASSUME NEW S, S \subseteq Int, S # {}, IsFiniteSet(S)
  PROVE  Max(S) \in S /\ Max(S) \in Int /\ \A y \in S : Max(S) >= y
<1>1. \E x \in S : \A y \in S : x >= y
  BY FiniteBounds
<1> QED
  BY <1>1 DEF Max

\* pick takes an element of each subset, step stays in V, and iter takes the elements of a
\* subset one after the other, as the folds of the library do.
Picks(pick, S) == \A s \in SUBSET S : s # {} => pick[s] \in s

StaysIn(step, S, V) == \A x \in S, v \in V : step[x][v] \in V

Iterates(iter, base, pick, step, S) ==
  \A s \in SUBSET S : iter[s] = IF s = {} THEN base ELSE step[pick[s]][iter[s \ {pick[s]}]]

\* Such a function exists on a finite set.
LEMMA SetRecursion ==
  ASSUME NEW S, IsFiniteSet(S), NEW V, NEW base \in V, NEW pick, NEW step,
         Picks(pick, S), StaysIn(step, S, V)
  PROVE  \E iter \in [SUBSET S -> V] : Iterates(iter, base, pick, step, S)
<1> USE DEF Picks, StaysIn
<1> DEFINE Small(k) == {s \in SUBSET S : Cardinality(s) <= k}
           Rest(s) == s \ {pick[s]}
           Next1(f, s) == IF s = {} THEN base ELSE step[pick[s]][f[Rest(s)]]
           Good(k, f) == f \in [Small(k) -> V] /\ \A s \in Small(k) : f[s] = Next1(f, s)
           A == {k \in Nat : \E f : Good(k, f)}
<1>1. ASSUME NEW s \in SUBSET S
      PROVE  /\ IsFiniteSet(s) /\ Cardinality(s) \in Nat
             /\ Cardinality(s) = 0 <=> s = {}
             /\ Cardinality(s) <= Cardinality(S)
             /\ s # {} => Rest(s) \in SUBSET S /\ Cardinality(Rest(s)) = Cardinality(s) - 1 /\ pick[s] \in S
  <2>1. IsFiniteSet(s) /\ Cardinality(s) <= Cardinality(S)
    BY FS_Subset
  <2>2. Cardinality(s) \in Nat /\ (Cardinality(s) = 0 <=> s = {})
    BY <2>1, FS_EmptySet, FS_CardinalityType
  <2>3. s # {} => Cardinality(s \ {pick[s]}) = Cardinality(s) - 1
    BY <2>1, FS_RemoveElement
  <2> QED
    BY <2>1, <2>2, <2>3
<1>2. \A s \in SUBSET S : \A f : s # {} /\ f[Rest(s)] \in V => Next1(f, s) \in V
  BY <1>1
<1>3. \A k \in Nat : \A s \in Small(k) : s # {} => k # 0 /\ Rest(s) \in Small(k - 1) /\ Rest(s) \in Small(k)
  <2> SUFFICES ASSUME NEW k \in Nat, NEW s \in Small(k), s # {}
               PROVE  k # 0 /\ Rest(s) \in Small(k - 1) /\ Rest(s) \in Small(k)
    OBVIOUS
  <2>1. s \in SUBSET S /\ Cardinality(s) <= k
    OBVIOUS
  <2>2. /\ Cardinality(s) \in Nat /\ Cardinality(s) # 0
        /\ Rest(s) \in SUBSET S /\ Cardinality(Rest(s)) = Cardinality(s) - 1
    BY <1>1, <2>1
  <2> HIDE DEF Rest
  <2> QED
    BY <2>1, <2>2
<1>4. \A k \in Nat : \A s \in Small(k) : s \in Small(k + 1)
  <2> SUFFICES ASSUME NEW k \in Nat, NEW s \in SUBSET S, Cardinality(s) <= k PROVE Cardinality(s) <= k + 1
    OBVIOUS
  <2>1. Cardinality(s) \in Nat
    BY <1>1
  <2> QED
    BY <2>1
<1>5. \A s : s \in Small(Cardinality(S)) <=> s \in SUBSET S
  BY <1>1
<1>6. \A k, s : s \in Small(k) => s \in SUBSET S
  OBVIOUS
<1> HIDE DEF Small, Rest
<1>7. 0 \in A
  <2> DEFINE f == [s \in Small(0) |-> base]
  <2>1. \A s \in Small(0) : s = {}
    BY <1>3
  <2>2. Good(0, f)
    BY <2>1
  <2> QED
    BY <2>2
<1>8. ASSUME NEW k \in Nat, k \in A PROVE k + 1 \in A
  <2>1. PICK f : Good(k, f)
    BY <1>8
  <2> DEFINE g == [s \in Small(k + 1) |-> Next1(f, s)]
  <2>2. \A s \in Small(k + 1) : s # {} => Rest(s) \in Small(k) /\ Rest(s) \in Small(k + 1)
    BY <1>3, k + 1 \in Nat, k + 1 - 1 = k
  <2>3. \A s \in Small(k + 1) : g[s] = Next1(f, s)
    OBVIOUS
  <2>4. \A s \in Small(k) : s \in Small(k + 1) /\ g[s] = f[s]
    BY <1>4, <2>1, <2>3
  <2>5. \A s \in Small(k + 1) : g[s] \in V
    <3> SUFFICES ASSUME NEW s \in Small(k + 1) PROVE g[s] \in V
      OBVIOUS
    <3>1. CASE s = {}
      BY <2>3, <3>1
    <3>2. CASE s # {}
      <4>1. f[Rest(s)] \in V
        BY <2>1, <2>2, <3>2
      <4> QED
        BY <1>2, <1>6, <2>3, <3>2, <4>1
    <3> QED
      BY <3>1, <3>2
  <2>6. g \in [Small(k + 1) -> V]
    BY <2>5
  <2> HIDE DEF g
  <2>7. \A s \in Small(k + 1) : Next1(f, s) = Next1(g, s)
    <3> SUFFICES ASSUME NEW s \in Small(k + 1), s # {} PROVE f[Rest(s)] = g[Rest(s)]
      OBVIOUS
    <3> QED
      BY <2>2, <2>4
  <2>8. \A s \in Small(k + 1) : g[s] = Next1(g, s)
    BY <2>3, <2>7
  <2>9. Good(k + 1, g)
    BY <2>6, <2>8
  <2> QED
    BY <2>9
<1>9. \A k \in Nat : k \in A
  <2> HIDE DEF A
  <2> QED
    BY <1>7, <1>8, InductionOnSet
<1>10. Cardinality(S) \in A
  BY <1>9, FS_CardinalityType
<1>11. PICK f : Good(Cardinality(S), f)
  BY <1>10
<1>12. f \in [SUBSET S -> V] /\ \A s \in SUBSET S : f[s] = Next1(f, s)
  <2>1. Small(Cardinality(S)) = SUBSET S
    BY <1>5
  <2> QED
    BY <1>11, <2>1
<1> QED
  BY <1>12 DEF Rest, Iterates

\* Induction over the subsets of a finite set.
LEMMA SubsetInduction ==
  ASSUME NEW S, IsFiniteSet(S), NEW Good, {} \in Good,
         \A T \in SUBSET S : T # {} /\ (\A x \in T : T \ {x} \in Good) => T \in Good
  PROVE  \A T \in SUBSET S : T \in Good
<1> DEFINE A == {k \in Nat : \A T \in SUBSET S : Cardinality(T) = k => T \in Good}
<1>1. \A T \in SUBSET S : IsFiniteSet(T)
  BY FS_Subset
<1>2. 0 \in A
  BY <1>1, FS_EmptySet
<1>3. ASSUME NEW k \in Nat, k \in A PROVE k + 1 \in A
  <2> SUFFICES ASSUME NEW T \in SUBSET S, Cardinality(T) = k + 1 PROVE T \in Good
    OBVIOUS
  <2>1. IsFiniteSet(T)
    BY <1>1
  <2>2. T # {}
    BY <2>1, FS_EmptySet
  <2>3. ASSUME NEW x \in T PROVE T \ {x} \in Good
    <3>1. Cardinality(T \ {x}) = Cardinality(T) - 1
      BY <2>1, <2>3, FS_RemoveElement
    <3>2. Cardinality(T \ {x}) = k
      BY <3>1
    <3> QED
      BY <1>3, <3>2
  <2> QED
    BY <2>2, <2>3
<1> HIDE DEF A
<1>4. \A k \in Nat : k \in A
  BY <1>2, <1>3, InductionOnSet
<1> QED
  BY <1>1, <1>4, FS_CardinalityType DEF A

\* The image of a finite set is finite.
LEMMA FiniteImage ==
  ASSUME NEW S, IsFiniteSet(S), NEW f
  PROVE  IsFiniteSet({f[x] : x \in S})
<1> DEFINE T == {f[x] : x \in S}
           g == [x \in S |-> f[x]]
<1>1. g \in Surjection(S, T)
  BY DEF Surjection
<1> HIDE DEF T, g
<1>2. IsFiniteSet(T)
  BY <1>1, FS_Surjection
<1> QED
  BY <1>2 DEF T

\* The last element is taken first, as FoldLeft does.
LastOf(n) == [s \in SUBSET (1..n) |-> Max(s)]

\* FoldLeft takes the last of the first k places.
LEMMA LastIn ==
  ASSUME NEW n \in Nat
  PROVE  /\ IsFiniteSet(1..n)
         /\ Picks(LastOf(n), 1..n)
         /\ \A k \in 1..n : LastOf(n)[1..k] = k /\ (1..k) \ {k} = 1..(k - 1)
<1>1. IsFiniteSet(1..n)
  BY FS_Interval
<1>2. ASSUME NEW s \in SUBSET (1..n), s # {} PROVE LastOf(n)[s] = Max(s) /\ Max(s) \in s /\ \A y \in s : Max(s) >= y
  <2>1. IsFiniteSet(s)
    BY <1>1, FS_Subset
  <2>2. s \subseteq Int
    OBVIOUS
  <2> QED
    BY <1>2, <2>1, <2>2, MaxIs DEF LastOf
<1>3. ASSUME NEW k \in 1..n PROVE LastOf(n)[1..k] = k /\ (1..k) \ {k} = 1..(k - 1)
  <2>1. 1..k \in SUBSET (1..n) /\ k \in 1..k
    OBVIOUS
  <2>2. Max(1..k) \in 1..k /\ Max(1..k) >= k /\ LastOf(n)[1..k] = Max(1..k)
    BY <1>2, <2>1
  <2> QED
    BY <2>1, <2>2
<1> QED
  BY <1>1, <1>2, <1>3 DEF Picks

\* run is the fold after each element.
Runs(run, base, step, n) == run[0] = base /\ \A k \in 1..n : run[k] = step[k][run[k - 1]]

RunsTo(end, base, step, n, V) == \E run \in [0..n -> V] : Runs(run, base, step, n) /\ end = run[n]

\* So a fold has one value after each element.
LEMMA FoldRuns ==
  ASSUME NEW n \in Nat, NEW V, NEW base \in V, NEW step, StaysIn(step, 1..n, V),
         NEW iter, Iterates(iter, base, LastOf(n), step, 1..n)
  PROVE  RunsTo(iter[1..n], base, step, n, V)
<1> DEFINE run == [k \in 0..n |-> iter[1..k]]
<1>1. run[0] = base
  <2>1. 1..0 = {} /\ {} \in SUBSET (1..n)
    OBVIOUS
  <2>2. iter[{}] = base
    BY <2>1 DEF Iterates
  <2> QED
    BY <2>1, <2>2
<1>2. ASSUME NEW k \in 1..n PROVE run[k] = step[k][run[k - 1]]
  <2>1. 1..k \in SUBSET (1..n) /\ 1..k # {}
    <3>1. k \in 1..k
      OBVIOUS
    <3> QED
      BY <3>1
  <2>2. iter[1..k] = step[k][iter[1..(k - 1)]]
    <3>1. LastOf(n)[1..k] = k /\ (1..k) \ {k} = 1..(k - 1)
      BY LastIn
    <3> QED
      BY <2>1, <3>1 DEF Iterates
  <2>3. k \in 0..n /\ k - 1 \in 0..n
    OBVIOUS
  <2> QED
    BY <2>2, <2>3
<1>3. \A k \in 0..n : run[k] \in V
  <2> DEFINE A == {k \in Nat : k <= n => run[k] \in V}
  <2> HIDE DEF run
  <2>1. 0 \in A
    BY <1>1
  <2>2. ASSUME NEW k \in Nat, k \in A PROVE k + 1 \in A
    <3> SUFFICES ASSUME k + 1 <= n PROVE run[k + 1] \in V
      OBVIOUS
    <3>1. k + 1 \in 1..n /\ run[k] \in V /\ k + 1 - 1 = k
      BY <2>2
    <3>2. run[k + 1] = step[k + 1][run[k]]
      BY <1>2, <3>1
    <3> QED
      BY <3>1, <3>2 DEF StaysIn
  <2> HIDE DEF A
  <2>3. \A k \in Nat : k \in A
    BY <2>1, <2>2, InductionOnSet
  <2> QED
    BY <2>3 DEF A
<1>4. run \in [0..n -> V] /\ iter[1..n] = run[n]
  BY <1>3
<1> HIDE DEF run
<1> QED
  BY <1>1, <1>2, <1>4 DEF Runs, RunsTo

\* An edge of a face is its corner k and the next one.
Next3(k) == (k % 3) + 1
-----------------------------------------------------------------------------
(* Lists one after the other, and the sums of their lengths.                *)

\* at says how many elements the first lists have together.
Laid(at, ss) == /\ at \in [0..Len(ss) -> Nat] /\ at[0] = 0
                /\ \A k \in 1..Len(ss) : at[k] = at[k - 1] + Len(ss[k])

\* flat is the lists one after the other.
Flat(flat, at, ss) == /\ Laid(at, ss) /\ Len(flat) = at[Len(ss)]
                      /\ \A k \in 1..Len(ss) : \A i \in 1..Len(ss[k]) : flat[at[k - 1] + i] = ss[k][i]

\* The function by which FlattenSeq is defined exists.
LEMMA FlattenExists ==
  ASSUME NEW V, NEW ss \in Seq(Seq(V)), ss # <<>>
  PROVE  \E f \in [1..Len(ss) -> Seq(V)] : /\ FlattenSeq(ss) = f[Len(ss)]
                            /\ \A i \in 1..Len(ss) : f[i] = IF i = 1 THEN ss[i] ELSE f[i - 1] \o ss[i]
<1> DEFINE n == Len(ss)
           Step(f, i) == IF i = 1 THEN ss[i] ELSE f[i - 1] \o ss[i]
           Good(m, f) == f \in [1..m -> Seq(V)] /\ \A i \in 1..m : f[i] = Step(f, i)
           A == {m \in Nat : m <= n => \E f : Good(m, f)}
           flatten == CHOOSE f : f = [i \in 1..n |-> Step(f, i)]
<1>1. n \in Nat /\ n # 0 /\ \A i \in 1..n : ss[i] \in Seq(V)
  OBVIOUS
<1>2. FlattenSeq(ss) = flatten[n]
  BY <1>1 DEF FlattenSeq
<1> HIDE DEF n, flatten, Step, Good
<1>3. 0 \in A
  <2> DEFINE g == [i \in 1..0 |-> <<>>]
  <2>1. Good(0, g)
    BY DEF Good
  <2> QED
    BY <2>1
<1>4. ASSUME NEW m \in Nat, m \in A PROVE m + 1 \in A
  <2> SUFFICES ASSUME m + 1 <= n PROVE \E f : Good(m + 1, f)
    OBVIOUS
  <2>1. PICK f : Good(m, f)
    BY <1>1, <1>4
  <2> DEFINE g == [i \in 1..(m + 1) |-> IF i <= m THEN f[i] ELSE Step(f, i)]
  <2>2. Step(f, m + 1) \in Seq(V)
    <3>1. ss[m + 1] \in Seq(V)
      BY <1>1
    <3>2. CASE m = 0
      BY <3>1, <3>2 DEF Step
    <3>3. CASE m # 0
      <4>1. f[m] \in Seq(V)
        BY <2>1, <3>3 DEF Good
      <4>2. f[m] \o ss[m + 1] \in Seq(V)
        BY <3>1, <4>1, ConcatProperties
      <4> QED
        BY <4>2, <3>3 DEF Step
    <3> QED
      BY <3>2, <3>3
  <2>3. \A i \in 1..(m + 1) : g[i] \in Seq(V)
    <3> SUFFICES ASSUME NEW i \in 1..(m + 1) PROVE g[i] \in Seq(V)
      OBVIOUS
    <3>1. CASE i <= m
      BY <2>1, <3>1 DEF Good
    <3>2. CASE ~(i <= m)
      <4>1. i = m + 1
        BY <3>2
      <4> QED
        BY <2>2, <4>1
    <3> QED
      BY <3>1, <3>2
  <2>4. \A i \in 1..(m + 1) : g[i] = Step(g, i)
    <3> SUFFICES ASSUME NEW i \in 1..(m + 1) PROVE g[i] = Step(g, i)
      OBVIOUS
    <3>1. i # 1 => g[i - 1] = f[i - 1]
      OBVIOUS
    <3>2. CASE i <= m
      <4>1. g[i] = f[i] /\ f[i] = Step(f, i)
        BY <2>1, <3>2 DEF Good
      <4> QED
        BY <3>1, <4>1 DEF Step
    <3>3. CASE ~(i <= m)
      <4>1. i = m + 1 /\ g[i] = Step(f, i)
        BY <3>3
      <4> QED
        BY <3>1, <4>1 DEF Step
    <3> QED
      BY <3>2, <3>3
  <2>5. g \in [1..(m + 1) -> Seq(V)]
    BY <2>3
  <2> HIDE DEF g
  <2>6. Good(m + 1, g)
    BY <2>4, <2>5 DEF Good
  <2> QED
    BY <2>6
<1> HIDE DEF A
<1>5. n \in A
  BY <1>1, <1>3, <1>4, InductionOnSet
<1>6. PICK f : Good(n, f)
  BY <1>1, <1>5 DEF A
<1>7. f = [i \in 1..n |-> Step(f, i)]
  BY <1>6 DEF Good
<1>8. flatten = [i \in 1..n |-> Step(flatten, i)]
  BY <1>7, Zenon DEF flatten
<1>9. \A i \in 1..n : flatten[i] = Step(flatten, i)
  BY <1>8
<1>10. \A i \in 1..n : flatten[i] \in Seq(V)
  <2> DEFINE B == {m \in Nat : m + 1 <= n => flatten[m + 1] \in Seq(V)}
  <2>1. 0 \in B
    BY <1>1, <1>9 DEF Step
  <2>2. ASSUME NEW m \in Nat, m \in B PROVE m + 1 \in B
    <3> SUFFICES ASSUME m + 2 <= n PROVE flatten[m + 2] \in Seq(V)
      OBVIOUS
    <3>1. flatten[m + 1] \in Seq(V) /\ ss[m + 2] \in Seq(V) /\ m + 2 \in 1..n
      BY <1>1, <2>2
    <3>2. flatten[m + 2] = flatten[m + 1] \o ss[m + 2]
      <4> DEFINE p == m + 2
      <4>1. p # 1 /\ p - 1 = m + 1 /\ p = m + 2 /\ p \in 1..n
        BY <3>1
      <4> HIDE DEF p
      <4>2. flatten[p] = Step(flatten, p)
        BY <1>9, <4>1, Zenon
      <4>3. Step(flatten, p) = flatten[p - 1] \o ss[p]
        BY <4>1, Zenon DEF Step
      <4>4. flatten[p] = flatten[m + 1] \o ss[p]
        BY <4>1, <4>2, <4>3
      <4> QED
        BY <4>1, <4>4, Zenon
    <3> QED
      BY <3>1, <3>2, ConcatProperties
  <2> HIDE DEF B
  <2>3. \A m \in Nat : m \in B
    BY <2>1, <2>2, InductionOnSet
  <2>4. ASSUME NEW i \in 1..n PROVE flatten[i] \in Seq(V)
    <3>1. i - 1 \in Nat /\ i - 1 + 1 = i /\ i <= n
      BY <1>1
    <3>2. i - 1 \in B
      BY <2>3, <3>1
    <3> QED
      BY <3>1, <3>2 DEF B
  <2> QED
    BY <2>4
<1>11. flatten \in [1..n -> Seq(V)]
  BY <1>8, <1>10
<1> QED
  BY <1>2, <1>9, <1>11 DEF n, Step

\* A flattened list is its lists one after the other.
LEMMA FlatIs ==
  ASSUME NEW V, NEW ss \in Seq(Seq(V))
  PROVE  FlattenSeq(ss) \in Seq(V) /\ \E at : Flat(FlattenSeq(ss), at, ss)
<1>1. CASE ss = <<>>
  <2> DEFINE at == [k \in 0..0 |-> 0]
  <2>1. FlattenSeq(ss) = <<>> /\ Len(ss) = 0
    BY <1>1 DEF FlattenSeq
  <2>2. Flat(<<>>, at, ss)
    BY <2>1 DEF Flat, Laid
  <2> QED
    BY <2>1, <2>2
<1>2. CASE ss # <<>>
  <2> DEFINE n == Len(ss)
  <2>1. n \in Nat /\ n # 0 /\ \A i \in 1..n : ss[i] \in Seq(V) /\ Len(ss[i]) \in Nat
    BY <1>2
  <2>2. PICK f \in [1..n -> Seq(V)] : /\ FlattenSeq(ss) = f[n]
                         /\ \A i \in 1..n : f[i] = IF i = 1 THEN ss[i] ELSE f[i - 1] \o ss[i]
    BY <1>2, FlattenExists
  <2> HIDE DEF n
  <2> DEFINE at == [k \in 0..n |-> IF k = 0 THEN 0 ELSE Len(f[k])]
             Upto(m) == \A k \in 1..m : \A i \in 1..Len(ss[k]) : /\ at[k - 1] + i \in 1..at[m]
                                                                   /\ f[m][at[k - 1] + i] = ss[k][i]
             B == {m \in Nat : m + 1 <= n => Upto(m + 1)}
  <2>3. at \in [0..n -> Nat] /\ at[0] = 0
    <3>1. \A k \in 1..n : Len(f[k]) \in Nat
      BY <2>2
    <3> QED
      BY <3>1, <2>1
  <2>4. \A k \in 1..n : at[k] = Len(f[k])
    BY <2>1
  <2> HIDE DEF at, Upto, B
  <2>5. ASSUME NEW k \in 1..n PROVE at[k] = at[k - 1] + Len(ss[k])
    <3>1. CASE k = 1
      <4>1. f[1] = ss[1] /\ at[1] = Len(f[1]) /\ at[0] = 0 /\ Len(ss[1]) \in Nat
        BY <2>1, <2>2, <2>3, <2>4, <3>1
      <4> QED
        BY <3>1, <4>1
    <3>2. CASE k # 1
      <4>1. k - 1 \in 1..n /\ f[k - 1] \in Seq(V) /\ ss[k] \in Seq(V)
        BY <2>1, <2>2, <3>2
      <4>3. f[k] = f[k - 1] \o ss[k]
        BY <2>2, <3>2, Zenon
      <4>2. Len(f[k]) = Len(f[k - 1]) + Len(ss[k])
        BY <4>1, <4>3, ConcatProperties
      <4> QED
        BY <2>4, <4>1, <4>2
    <3> QED
      BY <3>1, <3>2
  <2>6. 0 \in B
    <3>1. 1 \in 1..n /\ f[1] = ss[1] /\ at[1] = Len(ss[1]) /\ at[0] = 0
      <4>1. 1 \in 1..n
        BY <2>1
      <4>2. f[1] = ss[1]
        BY <2>2, <4>1, Zenon
      <4> QED
        BY <2>3, <2>4, <4>1, <4>2, Zenon
    <3>2. \A i \in 1..Len(ss[1]) : at[0] + i \in 1..at[1] /\ f[1][at[0] + i] = ss[1][i]
      BY <2>1, <3>1
    <3>3. \A k \in 1..(0 + 1) : k = 1 /\ k - 1 = 0
      OBVIOUS
    <3>4. Upto(0 + 1)
      BY <3>2, <3>3 DEF Upto
    <3> QED
      BY <3>4 DEF B
  <2>7. ASSUME NEW m \in Nat, m \in B PROVE m + 1 \in B
    <3> SUFFICES ASSUME m + 2 <= n, NEW k \in 1..(m + 2), NEW i \in 1..Len(ss[k])
                 PROVE  at[k - 1] + i \in 1..at[m + 2] /\ f[m + 2][at[k - 1] + i] = ss[k][i]
      <4>1. m + 1 + 1 = m + 2 /\ m + 1 \in Nat
        OBVIOUS
      <4>2. m + 2 <= n => Upto(m + 2)
        BY Zenon DEF Upto
      <4> QED
        BY <4>1, <4>2, Zenon DEF B
    <3>5. Upto(m + 1)
      <4>1. m + 1 <= n
        BY <2>1
      <4> QED
        BY <2>7, <4>1 DEF B
    <3>1. /\ m + 1 \in 1..n /\ m + 2 \in 1..n /\ k \in 1..n /\ k - 1 \in 0..n
          /\ f[m + 1] \in Seq(V) /\ ss[m + 2] \in Seq(V)
          /\ f[m + 2] = f[m + 1] \o ss[m + 2]
          /\ at[m + 2] = at[m + 1] + Len(ss[m + 2])
          /\ at[m + 1] \in Nat /\ at[k - 1] \in Nat
      <4>1. m + 1 \in 1..n /\ m + 2 \in 1..n /\ k \in 1..n /\ k - 1 \in 0..n /\ m + 1 \in 0..n /\ m + 2 - 1 = m + 1
        BY <2>1
      <4>2. f[m + 1] \in Seq(V) /\ ss[m + 2] \in Seq(V) /\ at[m + 1] \in Nat /\ at[k - 1] \in Nat
        BY <4>1, <2>1, <2>2, <2>3
      <4>3. at[m + 2] = at[m + 1] + Len(ss[m + 2])
        BY <4>1, <2>5
      <4>4. m + 2 # 1
        OBVIOUS
      <4>5. f[m + 2] = f[m + 1] \o ss[m + 2]
        <5> DEFINE p == m + 2
        <5>1. p # 1 /\ p - 1 = m + 1 /\ p = m + 2 /\ p \in 1..n
          BY <4>1
        <5> HIDE DEF p
        <5>2. f[p] = f[p - 1] \o ss[p]
          BY <2>2, <5>1, Zenon
        <5>3. f[p] = f[m + 1] \o ss[p]
          BY <5>1, <5>2
        <5> QED
          BY <5>1, <5>3, Zenon
      <4> QED
        BY <4>1, <4>2, <4>3, <4>5
    <3>2. /\ Len(f[m + 1]) = at[m + 1] /\ Len(ss[m + 2]) \in Nat
          /\ \A j \in 1..(at[m + 1] + Len(ss[m + 2])) :
               f[m + 2][j] = IF j <= at[m + 1] THEN f[m + 1][j] ELSE ss[m + 2][j - at[m + 1]]
      <4>1. Len(f[m + 1]) = at[m + 1]
        BY <2>4, <3>1
      <4>2. Len(ss[m + 2]) \in Nat
        BY <3>1
      <4>3. \A j \in 1..(Len(f[m + 1]) + Len(ss[m + 2])) :
               (f[m + 1] \o ss[m + 2])[j] = IF j <= Len(f[m + 1]) THEN f[m + 1][j] ELSE ss[m + 2][j - Len(f[m + 1])]
        BY <3>1, ConcatProperties
      <4> QED
        BY <3>1, <4>1, <4>2, <4>3
    <3>3. CASE k <= m + 1
      <4>1. at[k - 1] + i \in 1..at[m + 1] /\ f[m + 1][at[k - 1] + i] = ss[k][i]
        <5>1. k \in 1..(m + 1)
          BY <3>3
        <5> QED
          BY <3>5, <5>1 DEF Upto
      <4>2. at[k - 1] + i \in 1..(at[m + 1] + Len(ss[m + 2])) /\ at[k - 1] + i <= at[m + 1]
        <5>1. at[m + 1] \in Nat /\ Len(ss[m + 2]) \in Nat /\ at[k - 1] + i \in 1..at[m + 1]
          BY <3>1, <3>2, <4>1, Zenon
        <5> QED
          BY <5>1
      <4> DEFINE j == at[k - 1] + i
      <4>3. j = at[k - 1] + i
        OBVIOUS
      <4> HIDE DEF j
      <4>4. j \in 1..at[m + 1] /\ f[m + 1][j] = ss[k][i] /\ j \in 1..(at[m + 1] + Len(ss[m + 2])) /\ j <= at[m + 1]
        BY <4>1, <4>2, <4>3, Zenon
      <4>5. f[m + 2][j] = f[m + 1][j]
        BY <3>2, <4>4, Zenon
      <4>6. j \in 1..at[m + 2]
        BY <3>1, <4>4, Zenon
      <4>7. j \in 1..at[m + 2] /\ f[m + 2][j] = ss[k][i]
        BY <4>4, <4>5, <4>6, Zenon
      <4> QED
        BY <4>3, <4>7
    <3>4. CASE k = m + 2
      <4>1. k - 1 = m + 1 /\ i \in Nat /\ i \in 1..Len(ss[m + 2])
        BY <3>4
      <4>2. at[m + 1] + i \in 1..(at[m + 1] + Len(ss[m + 2])) /\ ~(at[m + 1] + i <= at[m + 1])
            /\ (at[m + 1] + i) - at[m + 1] = i
        <5> DEFINE a == at[m + 1]
                   b == Len(ss[m + 2])
        <5>1. a \in Nat /\ b \in Nat /\ i \in 1..b
          BY <3>1, <3>2, <4>1, Zenon
        <5> HIDE DEF a, b
        <5>2. a + i \in 1..(a + b) /\ ~(a + i <= a) /\ (a + i) - a = i
          BY <5>1
        <5> QED
          BY <5>2, Zenon DEF a, b
      <4>3. f[m + 2][at[m + 1] + i] = ss[m + 2][i]
        <5> DEFINE j == at[m + 1] + i
        <5>1. j \in 1..(at[m + 1] + Len(ss[m + 2])) /\ ~(j <= at[m + 1]) /\ j - at[m + 1] = i
          BY <4>2, Zenon
        <5> HIDE DEF j
        <5>2. f[m + 2][j] = ss[m + 2][j - at[m + 1]]
          BY <3>2, <5>1, Zenon
        <5>3. f[m + 2][j] = ss[m + 2][i]
          BY <5>1, <5>2
        <5> QED
          BY <5>3 DEF j
      <4>4. at[m + 1] + i \in 1..at[m + 2] /\ at[k - 1] = at[m + 1] /\ ss[k] = ss[m + 2]
        BY <3>1, <3>4, <4>1, <4>2, Zenon
      <4> QED
        BY <4>3, <4>4, Zenon
    <3> QED
      BY <3>3, <3>4
  <2>8. n - 1 \in B
    <3>1. n - 1 \in Nat
      BY <2>1
    <3> QED
      BY <2>6, <2>7, <3>1, InductionOnSet
  <2>9. Upto(n)
    <3>1. n - 1 \in Nat /\ n - 1 + 1 = n
      BY <2>1
    <3> QED
      BY <2>1, <2>8, <3>1 DEF B
  <2>10. Flat(FlattenSeq(ss), at, ss)
    <3>1. Laid(at, ss)
      BY <2>3, <2>5 DEF Laid, n
    <3>2. Len(f[n]) = at[n]
      BY <2>1, <2>4
    <3> QED
      BY <3>1, <3>2, <2>2, <2>9 DEF Flat, n, Upto
  <2> QED
    BY <2>1, <2>2, <2>10
<1> QED
  BY <1>1, <1>2

\* Every place belongs to one of the lists, in their order.
Placed(flat, at, ss) ==
  /\ \A j, k \in 0..Len(ss) : at[j] \in Nat /\ (j <= k => at[j] <= at[k])
  /\ \A k \in 1..Len(ss) : \A i \in 1..Len(ss[k]) : at[k - 1] + i \in DOMAIN flat /\ at[k - 1] + i <= at[k]
  /\ \A p \in DOMAIN flat : \E k \in 1..Len(ss) : \E i \in 1..Len(ss[k]) : p = at[k - 1] + i

\* Flattened lists are placed so.
LEMMA FlatPlaces ==
  ASSUME NEW V, NEW ss \in Seq(Seq(V)), NEW flat \in Seq(V), NEW at, Flat(flat, at, ss)
  PROVE  Placed(flat, at, ss)
<1> DEFINE n == Len(ss)
<1>1. /\ n \in Nat /\ at \in [0..n -> Nat] /\ at[0] = 0 /\ Len(flat) = at[n] /\ DOMAIN flat = 1..at[n]
      /\ \A k \in 1..n : at[k] = at[k - 1] + Len(ss[k]) /\ Len(ss[k]) \in Nat
  BY DEF Flat, Laid
<1> HIDE DEF n
<1>2. \A j, k \in 0..n : j <= k => at[j] <= at[k]
  <2> SUFFICES ASSUME NEW j \in 0..n PROVE \A k \in 0..n : j <= k => at[j] <= at[k]
    OBVIOUS
  <2> DEFINE A == {d \in Nat : j + d <= n => at[j] <= at[j + d]}
  <2>1. 0 \in A
    BY <1>1
  <2>2. ASSUME NEW d \in Nat, d \in A PROVE d + 1 \in A
    <3> SUFFICES ASSUME j + d + 1 <= n PROVE at[j] <= at[j + d + 1]
      OBVIOUS
    <3>1. j + d + 1 \in 1..n /\ j + d \in 0..n /\ j + d + 1 - 1 = j + d
      BY <1>1
    <3>2. at[j] <= at[j + d]
      BY <2>2, <1>1
    <3>3. at[j + d + 1] = at[j + d] + Len(ss[j + d + 1]) /\ Len(ss[j + d + 1]) \in Nat
      BY <1>1, <3>1
    <3>4. at[j] \in Nat /\ at[j + d] \in Nat
      BY <1>1, <3>1
    <3> QED
      BY <3>2, <3>3, <3>4
  <2> HIDE DEF A
  <2>3. \A d \in Nat : d \in A
    BY <2>1, <2>2, InductionOnSet
  <2>4. ASSUME NEW k \in 0..n, j <= k PROVE at[j] <= at[k]
    <3>1. k - j \in Nat /\ j + (k - j) = k
      BY <1>1, <2>4
    <3>2. k - j \in A
      BY <2>3, <3>1
    <3> QED
      BY <1>1, <3>1, <3>2 DEF A
  <2> QED
    BY <2>4
<1>3. \A k \in 0..n : at[k] \in Nat
  BY <1>1
<1>4. ASSUME NEW k \in 1..n, NEW i \in 1..Len(ss[k]) PROVE at[k - 1] + i \in DOMAIN flat /\ at[k - 1] + i <= at[k]
  <2>1. k - 1 \in 0..n /\ k \in 0..n /\ n \in 0..n /\ k <= n
    BY <1>1
  <2>2. at[k] <= at[n] /\ at[k] \in Nat /\ at[k - 1] \in Nat /\ at[n] \in Nat
    BY <1>2, <1>3, <2>1
  <2>3. at[k] = at[k - 1] + Len(ss[k]) /\ Len(ss[k]) \in Nat
    BY <1>1
  <2>4. at[k - 1] + i <= at[k] /\ at[k - 1] + i \in 1..at[n]
    <3> DEFINE a == at[k - 1]
               b == at[k]
               c == at[n]
               l == Len(ss[k])
    <3>1. a \in Nat /\ b \in Nat /\ c \in Nat /\ b <= c
      BY <2>2
    <3>2. b = a + l /\ l \in Nat /\ i \in 1..l
      BY <2>3
    <3> HIDE DEF a, b, c, l
    <3>3. a + i <= b /\ a + i \in 1..c
      BY <3>1, <3>2
    <3> QED
      BY <3>3 DEF a, b, c
  <2> QED
    BY <1>1, <2>4
<1>5. ASSUME NEW p \in DOMAIN flat PROVE \E k \in 1..n : \E i \in 1..Len(ss[k]) : p = at[k - 1] + i
  <2> DEFINE B == {m \in Nat : m <= n /\ p <= at[m] => \E k \in 1..n : \E i \in 1..Len(ss[k]) : p = at[k - 1] + i}
  <2>1. 0 \in B
    BY <1>1
  <2>2. ASSUME NEW m \in Nat, m \in B PROVE m + 1 \in B
    <3> SUFFICES ASSUME m + 1 <= n, p <= at[m + 1]
                 PROVE  \E k \in 1..n : \E i \in 1..Len(ss[k]) : p = at[k - 1] + i
      OBVIOUS
    <3>1. m <= n /\ m + 1 \in 1..n /\ m + 1 - 1 = m /\ m \in 0..n
      BY <1>1
    <3>2. CASE p <= at[m]
      BY <2>2, <3>1, <3>2
    <3>3. CASE ~(p <= at[m])
      <4>1. at[m + 1] = at[m] + Len(ss[m + 1]) /\ Len(ss[m + 1]) \in Nat /\ at[m] \in Nat /\ p \in Nat
        BY <1>1, <3>1
      <4>2. p - at[m] \in 1..Len(ss[m + 1]) /\ p = at[m] + (p - at[m])
        BY <3>3, <4>1
      <4> QED
        BY <3>1, <4>2
    <3> QED
      BY <3>2, <3>3
  <2> HIDE DEF B
  <2>3. n \in B
    BY <1>1, <2>1, <2>2, InductionOnSet
  <2> QED
    BY <1>1, <2>3 DEF B
<1> QED
  BY <1>2, <1>3, <1>4, <1>5 DEF n, Placed

\* So it has the elements of all of them.
LEMMA FlatSet ==
  ASSUME NEW V, NEW ss \in Seq(Seq(V))
  PROVE  \A x : x \in ToSet(FlattenSeq(ss)) <=> \E k \in DOMAIN ss : x \in ToSet(ss[k])
<1> DEFINE flat == FlattenSeq(ss)
<1>1. flat \in Seq(V)
  BY FlatIs
<1>2. PICK at : Flat(flat, at, ss)
  BY FlatIs
<1> HIDE DEF flat
<1>3. /\ \A k \in 1..Len(ss) : \A i \in 1..Len(ss[k]) : at[k - 1] + i \in DOMAIN flat /\ at[k - 1] + i <= at[k]
      /\ \A p \in DOMAIN flat : \E k \in 1..Len(ss) : \E i \in 1..Len(ss[k]) : p = at[k - 1] + i
  <2>1. Placed(flat, at, ss)
    BY <1>1, <1>2, FlatPlaces
  <2> QED
    BY <2>1, Zenon DEF Placed
<1>4. \A k \in 1..Len(ss) : \A i \in 1..Len(ss[k]) : flat[at[k - 1] + i] = ss[k][i]
  BY <1>2 DEF Flat
<1>5. DOMAIN ss = 1..Len(ss) /\ \A k \in DOMAIN ss : DOMAIN ss[k] = 1..Len(ss[k])
  OBVIOUS
<1>6. ASSUME NEW x \in ToSet(flat) PROVE \E k \in DOMAIN ss : x \in ToSet(ss[k])
  <2>1. PICK p \in DOMAIN flat : x = flat[p]
    BY <1>6 DEF ToSet
  <2>2. PICK k \in 1..Len(ss) : \E i \in 1..Len(ss[k]) : p = at[k - 1] + i
    BY <1>3
  <2>4. PICK i \in 1..Len(ss[k]) : p = at[k - 1] + i
    BY <2>2
  <2>3. x = ss[k][i] /\ k \in DOMAIN ss /\ i \in DOMAIN ss[k]
    BY <1>4, <1>5, <2>1, <2>4
  <2> QED
    BY <2>3 DEF ToSet
<1>7. ASSUME NEW k \in DOMAIN ss, NEW x \in ToSet(ss[k]) PROVE x \in ToSet(flat)
  <2>1. PICK i \in DOMAIN ss[k] : x = ss[k][i]
    BY <1>7 DEF ToSet
  <2>2. at[k - 1] + i \in DOMAIN flat /\ flat[at[k - 1] + i] = x
    BY <1>3, <1>4, <1>5, <2>1
  <2> QED
    BY <2>2 DEF ToSet
<1> QED
  BY <1>6, <1>7 DEF flat

\* Lists of the same lengths are together of the same length.
LEMMA FlatLengths ==
  ASSUME NEW V, NEW ss \in Seq(Seq(V)), NEW tt \in Seq(Seq(V)), Len(ss) = Len(tt),
         \A k \in 1..Len(ss) : Len(ss[k]) = Len(tt[k])
  PROVE  Len(FlattenSeq(ss)) = Len(FlattenSeq(tt))
<1> DEFINE n == Len(ss)
<1>1. PICK a : Flat(FlattenSeq(ss), a, ss)
  BY FlatIs
<1>2. PICK b : Flat(FlattenSeq(tt), b, tt)
  BY FlatIs
<1>3. /\ n \in Nat /\ a[0] = 0 /\ b[0] = 0
      /\ Len(FlattenSeq(ss)) = a[n] /\ Len(FlattenSeq(tt)) = b[n]
      /\ \A k \in 1..n : a[k] = a[k - 1] + Len(ss[k]) /\ b[k] = b[k - 1] + Len(ss[k])
  BY <1>1, <1>2 DEF Flat, Laid
<1> HIDE DEF n
<1> DEFINE A == {k \in Nat : k <= n => a[k] = b[k]}
<1>4. 0 \in A
  BY <1>3
<1>5. ASSUME NEW k \in Nat, k \in A PROVE k + 1 \in A
  <2> SUFFICES ASSUME k + 1 <= n PROVE a[k + 1] = b[k + 1]
    OBVIOUS
  <2>1. k + 1 \in 1..n /\ k + 1 - 1 = k /\ a[k] = b[k]
    BY <1>3, <1>5
  <2> QED
    BY <1>3, <2>1
<1> HIDE DEF A
<1>6. n \in A
  BY <1>3, <1>4, <1>5, InductionOnSet
<1> QED
  BY <1>3, <1>6 DEF A

\* The sums of the first elements.
Sums(at, s) == /\ at \in [0..Len(s) -> Nat] /\ at[0] = 0
               /\ \A k \in 1..Len(s) : at[k] = at[k - 1] + s[k]

\* No lists are nothing.
LEMMA NothingIsFlat == FlattenSeq(<<>>) = <<>>
BY DEF FlattenSeq
-----------------------------------------------------------------------------
(* Prisms: rings of vertices, the faces over, under and around them.        *)

\* What never falls from one to the next never falls.
LEMMA NeverFalls ==
  ASSUME NEW n \in Nat, NEW at \in [0..n -> Nat], \A k \in 1..n : at[k - 1] <= at[k]
  PROVE  \A j, k \in 0..n : j <= k => at[j] <= at[k]
<1> SUFFICES ASSUME NEW j \in 0..n PROVE \A k \in 0..n : j <= k => at[j] <= at[k]
  OBVIOUS
<1> DEFINE A == {d \in Nat : j + d <= n => at[j] <= at[j + d]}
<1>1. 0 \in A
  OBVIOUS
<1>2. ASSUME NEW d \in Nat, d \in A PROVE d + 1 \in A
  <2> SUFFICES ASSUME j + d + 1 <= n PROVE at[j] <= at[j + d + 1]
    OBVIOUS
  <2>1. j + d + 1 \in 1..n /\ j + d \in 0..n /\ j + d + 1 - 1 = j + d /\ j + d + 1 \in 0..n
    OBVIOUS
  <2>2. at[j] <= at[j + d]
    BY <1>2
  <2>3. at[j + d] <= at[j + d + 1]
    BY <2>1
  <2>4. at[j] \in Nat /\ at[j + d] \in Nat /\ at[j + d + 1] \in Nat
    BY <2>1
  <2> QED
    BY <2>2, <2>3, <2>4
<1> HIDE DEF A
<1>3. \A d \in Nat : d \in A
  BY <1>1, <1>2, InductionOnSet
<1>4. ASSUME NEW k \in 0..n, j <= k PROVE at[j] <= at[k]
  <2>1. k - j \in Nat /\ j + (k - j) = k
    BY <1>4
  <2>2. k - j \in A
    BY <1>3, <2>1
  <2> QED
    BY <2>1, <2>2 DEF A
<1> QED
  BY <1>4

\* A face runs from a to b.
Leads(f, a, b) == \E k \in 1..3 : f[k] = a /\ f[Next3(k)] = b

\* Its corners are three.
HasCorners(f) == f[1] # f[2] /\ f[2] # f[3] /\ f[3] # f[1]

\* No two faces run the same way.
OneWay(F) == \A f, g \in F : \A a, b : Leads(f, a, b) /\ Leads(g, a, b) => f = g

\* What runs one way runs back.
BothWays(F) == \A f \in F : \A a, b : Leads(f, a, b) => \E g \in F : Leads(g, b, a)

\* A face has three edges.
LEMMA LeadsIs ==
  ASSUME NEW f, NEW a, NEW b
  PROVE  Leads(f, a, b) <=> \/ f[1] = a /\ f[2] = b
                            \/ f[2] = a /\ f[3] = b
                            \/ f[3] = a /\ f[1] = b
<1>1. Next3(1) = 2 /\ Next3(2) = 3 /\ Next3(3) = 1 /\ 1 \in 1..3 /\ 2 \in 1..3 /\ 3 \in 1..3
  BY DEF Next3
<1>2. \A k \in 1..3 : k = 1 \/ k = 2 \/ k = 3
  OBVIOUS
<1> QED
  BY <1>1, <1>2 DEF Leads

\* Two faces have the corners a and b.
TwoFaces(F, a, b) ==
  \E f, g \in F : f # g /\ \A h \in F : {a, b} \subseteq {h[1], h[2], h[3]} <=> h = f \/ h = g

\* What comes after a place of a ring.
After(i, length) == IF i = length - 1 THEN 0 ELSE i + 1

\* It is the next one, or the first after the last.
LEMMA AfterIs ==
  ASSUME NEW length \in Nat, length >= 1, NEW i \in 0..(length - 1)
  PROVE  (i + 1) % length = After(i, length)
<1>1. CASE i = length - 1
  <2>1. length % length = 0
    BY SMTT(30)
  <2> QED
    BY <1>1, <2>1 DEF After
<1>2. CASE i # length - 1
  <2> DEFINE j == i + 1
  <2>1. j \in Nat /\ j < length
    BY <1>2
  <2> HIDE DEF j
  <2>2. j % length = j
    BY <2>1, SMTT(30)
  <2> QED
    BY <1>2, <2>2 DEF After, j
<1> QED
  BY <1>1, <1>2

\* Every vertex has one next to it, and is next to one.
Circuit(next, n) ==
  /\ n \in Nat /\ next \in [0..(n - 1) -> 0..(n - 1)]
  /\ \A v, w \in 0..(n - 1) : next[v] = next[w] => v = w
  /\ \A v \in 0..(n - 1) : \E w \in 0..(n - 1) : next[w] = v
  /\ \A v \in 0..(n - 1) : next[v] # v /\ next[next[v]] # v

\* The vertices of the rings, one after the other.
LEMMA RingsAre ==
  ASSUME NEW rings \in Seq(Nat), NEW at, Sums(at, rings)
  PROVE  LET m == Len(rings)
         IN  /\ \A v \in 0..(at[m] - 1) : \E r \in 1..m : at[r - 1] <= v /\ v < at[r]
             /\ \A q, r \in 1..m : \A v : v \in Int /\ at[q - 1] <= v /\ v < at[q] /\ at[r - 1] <= v /\ v < at[r] => q = r
             /\ \A r \in 1..m : 0 <= at[r - 1] /\ at[r] <= at[m]
<1> DEFINE m == Len(rings)
<1>1. m \in Nat /\ at \in [0..m -> Nat] /\ at[0] = 0 /\ \A k \in 1..m : at[k] = at[k - 1] + rings[k] /\ rings[k] \in Nat
  BY DEF Sums
<1> HIDE DEF m
<1>2. \A k \in 0..m : at[k] \in Nat
  BY <1>1
<1>3. \A j, k \in 0..m : j <= k => at[j] <= at[k]
  <2>1. \A k \in 1..m : at[k - 1] <= at[k]
    <3> SUFFICES ASSUME NEW k \in 1..m PROVE at[k - 1] <= at[k]
      OBVIOUS
    <3>1. k - 1 \in 0..m
      BY <1>1
    <3> QED
      BY <1>1, <1>2, <3>1
  <2> QED
    BY <1>1, <2>1, NeverFalls
<1>4. ASSUME NEW v \in 0..(at[m] - 1) PROVE \E r \in 1..m : at[r - 1] <= v /\ v < at[r]
  <2> DEFINE A == {k \in Nat : k <= m /\ v < at[k] => \E r \in 1..m : at[r - 1] <= v /\ v < at[r]}
  <2>1. 0 \in A
    BY <1>1
  <2>2. ASSUME NEW k \in Nat, k \in A PROVE k + 1 \in A
    <3> SUFFICES ASSUME k + 1 <= m, v < at[k + 1] PROVE \E r \in 1..m : at[r - 1] <= v /\ v < at[r]
      OBVIOUS
    <3>1. k <= m /\ k + 1 \in 1..m /\ k + 1 - 1 = k /\ k \in 0..m
      BY <1>1
    <3>2. CASE v < at[k]
      BY <2>2, <3>1, <3>2
    <3>3. CASE ~(v < at[k])
      <4>1. at[k] <= v
        BY <1>2, <3>1, <3>3
      <4> QED
        BY <3>1, <4>1
    <3> QED
      BY <3>2, <3>3
  <2> HIDE DEF A
  <2>3. m \in A
    BY <1>1, <2>1, <2>2, InductionOnSet
  <2>4. v < at[m]
    BY <1>1, <1>2
  <2> QED
    BY <1>1, <2>3, <2>4 DEF A
<1>5. ASSUME NEW q \in 1..m, NEW r \in 1..m, NEW v, v \in Int, at[q - 1] <= v, v < at[q], at[r - 1] <= v, v < at[r], q < r
      PROVE  FALSE
  <2>1. q \in 0..m /\ r - 1 \in 0..m /\ q <= r - 1
    BY <1>1, <1>5
  <2>2. at[q] <= at[r - 1] /\ at[q] \in Nat /\ at[r - 1] \in Nat
    BY <1>2, <1>3, <2>1
  <2> QED
    BY <1>5, <2>2
<1>6. ASSUME NEW q \in 1..m, NEW r \in 1..m, NEW v, v \in Int, at[q - 1] <= v, v < at[q], at[r - 1] <= v, v < at[r]
      PROVE  q = r
  <2>1. q < r \/ r < q \/ q = r
    BY <1>1
  <2> QED
    BY <1>5, <1>6, <2>1
<1>7. ASSUME NEW r \in 1..m PROVE 0 <= at[r - 1] /\ at[r] <= at[m]
  <2>1. r \in 0..m /\ r - 1 \in 0..m /\ m \in 0..m /\ r <= m
    BY <1>1
  <2> QED
    BY <1>2, <1>3, <2>1
<1> QED
  BY <1>4, <1>6, <1>7 DEF m

\* What runs around the rings.
RingsNext(rings, at, n, next) ==
  /\ \A r \in 1..Len(rings) : \A v \in 0..(n - 1) :
       at[r - 1] <= v /\ v < at[r] => next[v] = at[r - 1] + After(v - at[r - 1], rings[r])

\* From each vertex the outline and its holes go on to the next one.
LEMMA RingsTurn ==
  ASSUME NEW rings \in Seq(Nat), \A r \in DOMAIN rings : rings[r] >= 3, NEW at, Sums(at, rings)
  PROVE  \E next : Circuit(next, at[Len(rings)]) /\ RingsNext(rings, at, at[Len(rings)], next)
<1> DEFINE m == Len(rings)
           n == at[m]
<1>1. /\ m \in Nat /\ at \in [0..m -> Nat] /\ at[0] = 0 /\ DOMAIN rings = 1..m
      /\ \A k \in 1..m : at[k] = at[k - 1] + rings[k] /\ rings[k] \in Nat /\ rings[k] >= 3
  BY DEF Sums
<1>2. /\ \A v \in 0..(n - 1) : \E r \in 1..m : at[r - 1] <= v /\ v < at[r]
      /\ \A q, r \in 1..m : \A v : v \in Int /\ at[q - 1] <= v /\ v < at[q] /\ at[r - 1] <= v /\ v < at[r] => q = r
      /\ \A r \in 1..m : 0 <= at[r - 1] /\ at[r] <= at[m]
  BY RingsAre
<1> DEFINE R(v) == CHOOSE r \in 1..m : at[r - 1] <= v /\ v < at[r]
           To(v) == at[R(v) - 1] + After(v - at[R(v) - 1], rings[R(v)])
           next == [v \in 0..(n - 1) |-> To(v)]
<1> HIDE DEF m
<1>3. n \in Nat /\ \A k \in 1..m : at[k - 1] \in Nat /\ at[k] \in Nat
  <2>1. m \in 0..m /\ \A k \in 1..m : k - 1 \in 0..m /\ k \in 0..m
    BY <1>1
  <2> QED
    BY <1>1, <2>1
<1> HIDE DEF n
<1>4. \A v \in 0..(n - 1) : R(v) \in 1..m /\ at[R(v) - 1] <= v /\ v < at[R(v)]
  BY <1>2 DEF n
<1> HIDE DEF R
<1>5. \A r \in 1..m : \A v \in 0..(n - 1) : at[r - 1] <= v /\ v < at[r] => r = R(v)
  <2> SUFFICES ASSUME NEW r \in 1..m, NEW v \in 0..(n - 1), at[r - 1] <= v, v < at[r] PROVE r = R(v)
    OBVIOUS
  <2>1. v \in Int /\ R(v) \in 1..m /\ at[R(v) - 1] <= v /\ v < at[R(v)]
    BY <1>3, <1>4
  <2> QED
    BY <1>2, <2>1
<1>6. ASSUME NEW v \in 0..(n - 1)
      PROVE  LET a == at[R(v) - 1]
                 l == rings[R(v)]
             IN  /\ To(v) \in 0..(n - 1) /\ R(To(v)) = R(v) /\ a \in Nat /\ l \in Nat /\ l >= 3
                 /\ a <= v /\ v < a + l /\ a + l <= n
                 /\ To(v) = IF v = a + l - 1 THEN a ELSE v + 1
  <2> DEFINE r == R(v)
             a == at[r - 1]
             l == rings[r]
             w == To(v)
  <2>1. r \in 1..m /\ a <= v /\ v < at[r] /\ a \in Nat /\ l \in Nat /\ l >= 3 /\ at[r] = a + l /\ at[r] <= n
    BY <1>1, <1>2, <1>3, <1>4 DEF n
  <2>2. w = a + After(v - a, l) /\ v \in Int
    BY <1>3
  <2> HIDE DEF w
  <2>3. w = IF v = a + l - 1 THEN a ELSE v + 1
    <3> HIDE DEF a, l, r
    <3> QED
      BY <2>1, <2>2 DEF After
  <2>4. w \in 0..(n - 1) /\ a <= w /\ w < at[r]
    <3> HIDE DEF a, l, r
    <3> QED
      BY <2>1, <2>3, <1>3
  <2>5. r = R(w)
    BY <2>1, <2>4, <1>5
  <2>6. a + l <= n /\ v < a + l
    BY <2>1
  <2> QED
    BY <2>1, <2>3, <2>4, <2>5, <2>6 DEF w
<1> HIDE DEF To
<1>7. next \in [0..(n - 1) -> 0..(n - 1)] /\ \A v \in 0..(n - 1) : next[v] = To(v)
  BY <1>6
<1>8. ASSUME NEW v \in 0..(n - 1), NEW w \in 0..(n - 1), next[v] = next[w] PROVE v = w
  <2>1. R(v) = R(w)
    BY <1>6, <1>7, <1>8
  <2> DEFINE a == at[R(v) - 1]
             l == rings[R(v)]
  <2>2. /\ a \in Nat /\ l \in Nat /\ l >= 3 /\ a <= v /\ v < a + l /\ a <= w /\ w < a + l
        /\ To(v) = IF v = a + l - 1 THEN a ELSE v + 1
        /\ To(w) = IF w = a + l - 1 THEN a ELSE w + 1
    <3>1. /\ a \in Nat /\ l \in Nat /\ l >= 3 /\ a <= v /\ v < a + l
          /\ To(v) = IF v = a + l - 1 THEN a ELSE v + 1
      BY <1>6
    <3>2. a <= w /\ w < a + l /\ To(w) = IF w = a + l - 1 THEN a ELSE w + 1
      BY <1>6, <2>1
    <3> QED
      BY <3>1, <3>2
  <2>3. To(v) = To(w)
    BY <1>7, <1>8
  <2> HIDE DEF a, l
  <2> QED
    BY <2>2, <2>3
<1>9. ASSUME NEW v \in 0..(n - 1) PROVE \E w \in 0..(n - 1) : next[w] = v
  <2> DEFINE a == at[R(v) - 1]
             l == rings[R(v)]
             w == IF v = a THEN a + l - 1 ELSE v - 1
  <2>1. a \in Nat /\ l \in Nat /\ l >= 3 /\ a <= v /\ v < a + l /\ a + l <= n /\ R(v) \in 1..m /\ at[R(v)] = a + l
    BY <1>1, <1>4, <1>6
  <2>2. w \in 0..(n - 1) /\ a <= w /\ w < a + l
    <3> HIDE DEF a, l
    <3> QED
      BY <2>1, <1>3
  <2> HIDE DEF w
  <2>3. R(w) = R(v)
    BY <1>5, <2>1, <2>2
  <2>4. To(w) = IF w = a + l - 1 THEN a ELSE w + 1
    BY <1>6, <2>2, <2>3
  <2>5. To(w) = v
    BY <2>1, <2>4 DEF w
  <2> QED
    BY <1>7, <2>2, <2>5
<1>10. ASSUME NEW v \in 0..(n - 1) PROVE next[v] # v /\ next[next[v]] # v
  <2> DEFINE a == at[R(v) - 1]
             l == rings[R(v)]
             w == To(v)
  <2>1. /\ a \in Nat /\ l \in Nat /\ l >= 3 /\ a <= v /\ v < a + l /\ R(w) = R(v) /\ w \in 0..(n - 1)
        /\ w = IF v = a + l - 1 THEN a ELSE v + 1
    BY <1>6
  <2> HIDE DEF w
  <2>2. To(w) = IF w = a + l - 1 THEN a ELSE w + 1
    BY <1>6, <2>1
  <2>3. w # v /\ To(w) # v
    <3> HIDE DEF a, l
    <3> DEFINE u == To(w)
    <3>1. u = IF w = a + l - 1 THEN a ELSE w + 1
      BY <2>2
    <3> HIDE DEF u
    <3>2. a \in Nat /\ l \in Nat /\ l >= 3 /\ a <= v /\ v < a + l /\ w = IF v = a + l - 1 THEN a ELSE v + 1
      BY <2>1
    <3>3. w # v /\ u # v
      <4>1. CASE v = a + l - 1
        BY <3>1, <3>2, <4>1
      <4>2. CASE v # a + l - 1
        BY <3>1, <3>2, <4>2
      <4> QED
        BY <4>1, <4>2
    <3> QED
      BY <3>3 DEF u
  <2> QED
    BY <1>7, <2>1, <2>3 DEF w
<1>11. RingsNext(rings, at, n, next)
  <2>1. ASSUME NEW r \in 1..m, NEW v \in 0..(n - 1), at[r - 1] <= v, v < at[r]
        PROVE  next[v] = at[r - 1] + After(v - at[r - 1], rings[r])
    <3>1. r = R(v)
      BY <1>5, <2>1
    <3> QED
      BY <1>7, <3>1 DEF To
  <2> HIDE DEF next
  <2> QED
    BY <2>1 DEF RingsNext, m
<1>12. Circuit(next, n)
  <2> HIDE DEF next
  <2> QED
    BY <1>3, <1>7, <1>8, <1>9, <1>10 DEF Circuit
<1> HIDE DEF next
<1> QED
  BY <1>11, <1>12 DEF n, m

\* The faces of a prism, below, above and in its walls.
LowFace(t) == <<t[1], t[3], t[2]>>

HighFace(t, n) == <<t[1] + n, t[2] + n, t[3] + n>>

NearFace(next, n, v) == <<v, next[v], next[v] + n>>

FarFace(next, n, v) == <<v, next[v] + n, v + n>>

Prism(T, next, n) ==
  {LowFace(t) : t \in T} \cup {HighFace(t, n) : t \in T}
    \cup {NearFace(next, n, v) : v \in 0..(n - 1)} \cup {FarFace(next, n, v) : v \in 0..(n - 1)}

\* Triangles between the vertices.
Triples(n) == (0..(n - 1)) \X (0..(n - 1)) \X (0..(n - 1))

\* A prism runs along the edges of its triangles, the other way round below, and
\* around its walls.
LEMMA FacesRun ==
  ASSUME NEW n \in Nat, NEW next \in [0..(n - 1) -> 0..(n - 1)]
  PROVE  /\ \A t \in Triples(n) : \A a, b : Leads(t, a, b) =>
              /\ a \in 0..(n - 1) /\ b \in 0..(n - 1)
              /\ Leads(LowFace(t), b, a) /\ Leads(HighFace(t, n), a + n, b + n)
         /\ \A v \in 0..(n - 1) :
              /\ Leads(NearFace(next, n, v), v, next[v]) /\ Leads(NearFace(next, n, v), next[v], next[v] + n)
              /\ Leads(NearFace(next, n, v), next[v] + n, v)
              /\ Leads(FarFace(next, n, v), v, next[v] + n) /\ Leads(FarFace(next, n, v), next[v] + n, v + n)
              /\ Leads(FarFace(next, n, v), v + n, v)
<1>1. ASSUME NEW t \in Triples(n), NEW a, NEW b, Leads(t, a, b)
      PROVE  /\ a \in 0..(n - 1) /\ b \in 0..(n - 1)
             /\ Leads(LowFace(t), b, a) /\ Leads(HighFace(t, n), a + n, b + n)
  <2>1. \/ t[1] = a /\ t[2] = b
        \/ t[2] = a /\ t[3] = b
        \/ t[3] = a /\ t[1] = b
    BY <1>1, LeadsIs
  <2>2. t[1] \in 0..(n - 1) /\ t[2] \in 0..(n - 1) /\ t[3] \in 0..(n - 1)
    BY DEF Triples
  <2>3. LowFace(t)[1] = t[1] /\ LowFace(t)[2] = t[3] /\ LowFace(t)[3] = t[2]
    BY DEF LowFace
  <2>4. HighFace(t, n)[1] = t[1] + n /\ HighFace(t, n)[2] = t[2] + n /\ HighFace(t, n)[3] = t[3] + n
    BY DEF HighFace
  <2> QED
    BY <2>1, <2>2, <2>3, <2>4, LeadsIs
<1>2. ASSUME NEW v \in 0..(n - 1)
      PROVE  /\ Leads(NearFace(next, n, v), v, next[v]) /\ Leads(NearFace(next, n, v), next[v], next[v] + n)
             /\ Leads(NearFace(next, n, v), next[v] + n, v)
             /\ Leads(FarFace(next, n, v), v, next[v] + n) /\ Leads(FarFace(next, n, v), next[v] + n, v + n)
             /\ Leads(FarFace(next, n, v), v + n, v)
  <2>1. NearFace(next, n, v)[1] = v /\ NearFace(next, n, v)[2] = next[v] /\ NearFace(next, n, v)[3] = next[v] + n
    BY DEF NearFace
  <2>2. FarFace(next, n, v)[1] = v /\ FarFace(next, n, v)[2] = next[v] + n /\ FarFace(next, n, v)[3] = v + n
    BY DEF FarFace
  <2> QED
    BY <2>1, <2>2, LeadsIs
<1> QED
  BY <1>1, <1>2

\* The faces of a prism and the edge from a to b.
RunsLow(f, T, n, a, b) == a \in 0..(n - 1) /\ b \in 0..(n - 1) /\ \E t \in T : f = LowFace(t) /\ Leads(t, b, a)

RunsHigh(f, T, n, a, b) ==
  /\ a \in Nat /\ b \in Nat /\ a - n \in 0..(n - 1) /\ b - n \in 0..(n - 1)
  /\ \E t \in T : f = HighFace(t, n) /\ Leads(t, a - n, b - n)

RunsNear(f, next, n, a, b) ==
  \E v \in 0..(n - 1) : /\ f = NearFace(next, n, v)
                        /\ \/ a = v /\ b = next[v]
                           \/ a = next[v] /\ b = next[v] + n
                           \/ a = next[v] + n /\ b = v

RunsFar(f, next, n, a, b) ==
  \E v \in 0..(n - 1) : /\ f = FarFace(next, n, v)
                        /\ \/ a = v /\ b = next[v] + n
                           \/ a = next[v] + n /\ b = v + n
                           \/ a = v + n /\ b = v

\* These are all the ways it runs.
LEMMA PrismRuns ==
  ASSUME NEW n \in Nat, NEW next \in [0..(n - 1) -> 0..(n - 1)], NEW T \in SUBSET Triples(n),
         NEW f \in Prism(T, next, n), NEW a, NEW b, Leads(f, a, b)
  PROVE  \/ RunsLow(f, T, n, a, b) \/ RunsHigh(f, T, n, a, b)
         \/ RunsNear(f, next, n, a, b) \/ RunsFar(f, next, n, a, b)
<1>1. \/ f[1] = a /\ f[2] = b
      \/ f[2] = a /\ f[3] = b
      \/ f[3] = a /\ f[1] = b
  BY LeadsIs
<1>2. ASSUME NEW t \in T, f = LowFace(t) PROVE RunsLow(f, T, n, a, b)
  <2>1. f[1] = t[1] /\ f[2] = t[3] /\ f[3] = t[2]
    BY <1>2 DEF LowFace
  <2>2. t[1] \in 0..(n - 1) /\ t[2] \in 0..(n - 1) /\ t[3] \in 0..(n - 1)
    BY DEF Triples
  <2>3. Leads(t, b, a)
    BY <1>1, <2>1, LeadsIs
  <2> QED
    BY <1>1, <1>2, <2>1, <2>2, <2>3 DEF RunsLow
<1>3. ASSUME NEW t \in T, f = HighFace(t, n) PROVE RunsHigh(f, T, n, a, b)
  <2>1. f[1] = t[1] + n /\ f[2] = t[2] + n /\ f[3] = t[3] + n
    BY <1>3 DEF HighFace
  <2>2. t[1] \in 0..(n - 1) /\ t[2] \in 0..(n - 1) /\ t[3] \in 0..(n - 1)
    BY DEF Triples
  <2>3. f[1] - n = t[1] /\ f[2] - n = t[2] /\ f[3] - n = t[3] /\ f[1] \in Nat /\ f[2] \in Nat /\ f[3] \in Nat
    <3>1. \A x \in 0..(n - 1) : x + n \in Nat /\ (x + n) - n = x
      OBVIOUS
    <3> QED
      BY <2>1, <2>2, <3>1
  <2>4. Leads(t, a - n, b - n)
    BY <1>1, <2>3, LeadsIs
  <2>5. a \in Nat /\ b \in Nat /\ a - n \in 0..(n - 1) /\ b - n \in 0..(n - 1)
    BY <1>1, <2>2, <2>3
  <2> QED
    BY <1>3, <2>4, <2>5 DEF RunsHigh
<1>4. ASSUME NEW v \in 0..(n - 1), f = NearFace(next, n, v) PROVE RunsNear(f, next, n, a, b)
  <2>1. f[1] = v /\ f[2] = next[v] /\ f[3] = next[v] + n
    BY <1>4 DEF NearFace
  <2> QED
    BY <1>1, <1>4, <2>1 DEF RunsNear
<1>5. ASSUME NEW v \in 0..(n - 1), f = FarFace(next, n, v) PROVE RunsFar(f, next, n, a, b)
  <2>1. f[1] = v /\ f[2] = next[v] + n /\ f[3] = v + n
    BY <1>5 DEF FarFace
  <2> QED
    BY <1>1, <1>5, <2>1 DEF RunsFar
<1> QED
  BY <1>2, <1>3, <1>4, <1>5 DEF Prism

\* Faces of a prism are told apart by their corners.
LEMMA FacesDiffer ==
  ASSUME NEW n \in Nat, NEW next, Circuit(next, n)
  PROVE  /\ \A s, t \in Triples(n) : (LowFace(s) = LowFace(t) => s = t) /\ (HighFace(s, n) = HighFace(t, n) => s = t)
         /\ \A t \in Triples(n) : \A v \in 0..(n - 1) : LowFace(t) # NearFace(next, n, v) /\ HighFace(t, n) # FarFace(next, n, v)
         /\ \A v, w \in 0..(n - 1) : NearFace(next, n, v) # FarFace(next, n, w)
         /\ \A t \in Triples(n) : HasCorners(t) => HasCorners(LowFace(t)) /\ HasCorners(HighFace(t, n))
         /\ \A v \in 0..(n - 1) : HasCorners(NearFace(next, n, v)) /\ HasCorners(FarFace(next, n, v))
<1>1. \A x, y, z, p, q, r : <<x, y, z>> = <<p, q, r>> => x = p /\ y = q /\ z = r
  OBVIOUS
<1>2. \A v \in 0..(n - 1) : next[v] \in 0..(n - 1) /\ next[v] # v
  BY DEF Circuit
<1>3. \A t \in Triples(n) : t[1] \in 0..(n - 1) /\ t[2] \in 0..(n - 1) /\ t[3] \in 0..(n - 1) /\ t = <<t[1], t[2], t[3]>>
  BY DEF Triples
<1>4. ASSUME NEW s \in Triples(n), NEW t \in Triples(n), LowFace(s) = LowFace(t) PROVE s = t
  <2>1. s[1] = t[1] /\ s[3] = t[3] /\ s[2] = t[2]
    BY <1>1, <1>4 DEF LowFace
  <2> QED
    BY <1>3, <2>1
<1>5. ASSUME NEW s \in Triples(n), NEW t \in Triples(n), HighFace(s, n) = HighFace(t, n) PROVE s = t
  <2>1. s[1] + n = t[1] + n /\ s[2] + n = t[2] + n /\ s[3] + n = t[3] + n
    BY <1>1, <1>5 DEF HighFace
  <2>2. s[1] = t[1] /\ s[2] = t[2] /\ s[3] = t[3]
    BY <1>3, <2>1
  <2> QED
    BY <1>3, <2>2
<1>6. ASSUME NEW t \in Triples(n), NEW v \in 0..(n - 1)
      PROVE  LowFace(t) # NearFace(next, n, v) /\ HighFace(t, n) # FarFace(next, n, v)
  <2>1. t[2] # next[v] + n /\ t[1] + n # v
    BY <1>2, <1>3
  <2> QED
    BY <1>1, <2>1 DEF LowFace, NearFace, HighFace, FarFace
<1>7. ASSUME NEW v \in 0..(n - 1), NEW w \in 0..(n - 1) PROVE NearFace(next, n, v) # FarFace(next, n, w)
  <2>1. next[v] # next[w] + n
    BY <1>2
  <2> QED
    BY <1>1, <2>1 DEF NearFace, FarFace
<1>8. ASSUME NEW t \in Triples(n), HasCorners(t) PROVE HasCorners(LowFace(t)) /\ HasCorners(HighFace(t, n))
  <2>1. t[1] # t[2] /\ t[2] # t[3] /\ t[3] # t[1]
    BY <1>8 DEF HasCorners
  <2>2. t[1] + n # t[2] + n /\ t[2] + n # t[3] + n /\ t[3] + n # t[1] + n
    BY <1>3, <2>1
  <2>3. LowFace(t)[1] = t[1] /\ LowFace(t)[2] = t[3] /\ LowFace(t)[3] = t[2]
    BY DEF LowFace
  <2>4. HighFace(t, n)[1] = t[1] + n /\ HighFace(t, n)[2] = t[2] + n /\ HighFace(t, n)[3] = t[3] + n
    BY DEF HighFace
  <2> QED
    BY <2>1, <2>2, <2>3, <2>4 DEF HasCorners
<1>9. ASSUME NEW v \in 0..(n - 1) PROVE HasCorners(NearFace(next, n, v)) /\ HasCorners(FarFace(next, n, v))
  <2>1. NearFace(next, n, v)[1] = v /\ NearFace(next, n, v)[2] = next[v] /\ NearFace(next, n, v)[3] = next[v] + n
    BY DEF NearFace
  <2>2. FarFace(next, n, v)[1] = v /\ FarFace(next, n, v)[2] = next[v] + n /\ FarFace(next, n, v)[3] = v + n
    BY DEF FarFace
  <2>3. v # next[v] /\ next[v] # next[v] + n /\ next[v] + n # v /\ next[v] + n # v + n /\ v + n # v
    BY <1>2
  <2> QED
    BY <2>1, <2>2, <2>3 DEF HasCorners
<1> QED
  BY <1>4, <1>5, <1>6, <1>7, <1>8, <1>9

\* Triangles fill what the edges v to next[v] surround: on the left of each when it is
\* taken counter-clockwise, and on the right when not.
Fills(T, next, n, ccw) ==
  /\ T \in SUBSET Triples(n) /\ \A t \in T : HasCorners(t)
  /\ OneWay(T)
  /\ \A v \in 0..(n - 1) :
       IF ccw THEN (\E t \in T : Leads(t, v, next[v])) /\ \A t \in T : ~Leads(t, next[v], v)
              ELSE (\E t \in T : Leads(t, next[v], v)) /\ \A t \in T : ~Leads(t, v, next[v])
  /\ \A t \in T : \A a, b \in 0..(n - 1) :
       Leads(t, a, b) => next[a] = b \/ next[b] = a \/ \E s \in T : Leads(s, b, a)

\* No two faces of a prism run the same way when its outline is counter-clockwise.
LEMMA PrismRunsOneWay ==
  ASSUME NEW n \in Nat, NEW next, Circuit(next, n), NEW T, Fills(T, next, n, TRUE)
  PROVE  OneWay(Prism(T, next, n))
<1> DEFINE F == Prism(T, next, n)
           V == 0..(n - 1)
<1>1. T \in SUBSET Triples(n) /\ next \in [V -> V]
  BY DEF Fills, Circuit
<1>2. \A v, w \in V : next[v] = next[w] => v = w
  BY DEF Circuit
<1>3. \A v \in V : next[v] # v /\ next[v] \in V /\ v \in Nat /\ v < n
  BY DEF Circuit
<1>4. \A s, t \in T : \A a, b : Leads(s, a, b) /\ Leads(t, a, b) => s = t
  BY DEF Fills, OneWay
<1>5. \A v \in V : \A t \in T : ~Leads(t, next[v], v)
  BY DEF Fills
<1> SUFFICES ASSUME NEW f \in F, NEW g \in F, NEW a, NEW b, Leads(f, a, b), Leads(g, a, b)
             PROVE  f = g
  BY DEF OneWay
<1> DEFINE InLow(h) == RunsLow(h, T, n, a, b)
           InHigh(h) == RunsHigh(h, T, n, a, b)
           InNear(h) == RunsNear(h, next, n, a, b)
           InFar(h) == RunsFar(h, next, n, a, b)
<1>6. (InLow(f) \/ InHigh(f) \/ InNear(f) \/ InFar(f)) /\ (InLow(g) \/ InHigh(g) \/ InNear(g) \/ InFar(g))
  <2> HIDE DEF InLow, InHigh, InNear, InFar
  <2>1. InLow(f) \/ InHigh(f) \/ InNear(f) \/ InFar(f)
    BY <1>1, PrismRuns DEF InLow, InHigh, InNear, InFar
  <2>2. InLow(g) \/ InHigh(g) \/ InNear(g) \/ InFar(g)
    BY <1>1, PrismRuns DEF InLow, InHigh, InNear, InFar
  <2> QED
    BY <2>1, <2>2
<1> HIDE DEF F
<1>7. \A h, k : InLow(h) /\ InLow(k) => h = k
  BY <1>4 DEF RunsLow
<1>8. \A h, k : InHigh(h) /\ InHigh(k) => h = k
  BY <1>4 DEF RunsHigh
<1>9. \A h, k : InNear(h) /\ InNear(k) => h = k
  BY <1>2, <1>3 DEF RunsNear
<1>10. \A h, k : InFar(h) /\ InFar(k) => h = k
  BY <1>2, <1>3 DEF RunsFar
<1>11. \A h, k : ~(InLow(h) /\ InHigh(k)) /\ ~(InLow(h) /\ InFar(k)) /\ ~(InHigh(h) /\ InNear(k))
  BY <1>3 DEF RunsLow, RunsHigh, RunsNear, RunsFar
<1>12. \A h, k : ~(InLow(h) /\ InNear(k))
  <2> SUFFICES ASSUME NEW h, NEW k, InLow(h), InNear(k) PROVE FALSE
    OBVIOUS
  <2>1. a \in V /\ b \in V /\ \E t \in T : Leads(t, b, a)
    BY DEF RunsLow
  <2>2. a \in V /\ b = next[a]
    BY <1>3, <2>1 DEF RunsNear
  <2> QED
    BY <1>5, <2>1, <2>2
<1>13. \A h, k : ~(InHigh(h) /\ InFar(k))
  <2> SUFFICES ASSUME NEW h, NEW k, InHigh(h), InFar(k) PROVE FALSE
    OBVIOUS
  <2>1. a \in Nat /\ b \in Nat /\ a - n \in V /\ b - n \in V /\ \E t \in T : Leads(t, a - n, b - n)
    BY DEF RunsHigh
  <2>2. PICK v \in V : \/ a = v /\ b = next[v] + n
                       \/ a = next[v] + n /\ b = v + n
                       \/ a = v + n /\ b = v
    BY DEF RunsFar
  <2>3. a = next[v] + n /\ b = v + n
    BY <1>3, <2>1, <2>2
  <2>4. a - n = next[v] /\ b - n = v
    BY <1>3, <2>3
  <2> QED
    BY <1>5, <2>1, <2>4
<1>14. \A h, k : ~(InNear(h) /\ InFar(k))
  BY <1>2, <1>3 DEF RunsNear, RunsFar
<1> HIDE DEF InLow, InHigh, InNear, InFar
<1> QED
  BY <1>6, <1>7, <1>8, <1>9, <1>10, <1>11, <1>12, <1>13, <1>14

\* Whatever a face of it runs along another runs back.
LEMMA PrismRunsBothWays ==
  ASSUME NEW n \in Nat, NEW next, Circuit(next, n), NEW T, Fills(T, next, n, TRUE)
  PROVE  BothWays(Prism(T, next, n))
<1> DEFINE F == Prism(T, next, n)
           V == 0..(n - 1)
<1>1. T \in SUBSET Triples(n) /\ next \in [V -> V]
  BY DEF Fills, Circuit
<1>2. \A v \in V : next[v] \in V /\ v \in Nat /\ \E w \in V : next[w] = v
  BY DEF Circuit
<1>3. \A v \in V : (\E t \in T : Leads(t, v, next[v])) /\ \A t \in T : ~Leads(t, next[v], v)
  BY DEF Fills
<1>4. \A t \in T : \A a, b \in V : Leads(t, a, b) => next[a] = b \/ next[b] = a \/ \E s \in T : Leads(s, b, a)
  BY DEF Fills
<1>5. /\ \A t \in T : LowFace(t) \in F /\ HighFace(t, n) \in F
      /\ \A v \in V : NearFace(next, n, v) \in F /\ FarFace(next, n, v) \in F
  BY DEF Prism
<1>6. \A t \in T : \A a, b : Leads(t, a, b) =>
        a \in V /\ b \in V /\ Leads(LowFace(t), b, a) /\ Leads(HighFace(t, n), a + n, b + n)
  BY <1>1, FacesRun
<1>7. \A v \in V :
        /\ Leads(NearFace(next, n, v), v, next[v]) /\ Leads(NearFace(next, n, v), next[v], next[v] + n)
        /\ Leads(NearFace(next, n, v), next[v] + n, v)
        /\ Leads(FarFace(next, n, v), v, next[v] + n) /\ Leads(FarFace(next, n, v), next[v] + n, v + n)
        /\ Leads(FarFace(next, n, v), v + n, v)
  BY <1>1, FacesRun
<1> SUFFICES ASSUME NEW f \in F, NEW a, NEW b, Leads(f, a, b)
             PROVE  \E g \in F : Leads(g, b, a)
  BY DEF BothWays
<1>8. \/ RunsLow(f, T, n, a, b) \/ RunsHigh(f, T, n, a, b)
      \/ RunsNear(f, next, n, a, b) \/ RunsFar(f, next, n, a, b)
  BY <1>1, PrismRuns
<1> HIDE DEF F
<1>9. ASSUME RunsLow(f, T, n, a, b) PROVE \E g \in F : Leads(g, b, a)
  <2>1. a \in V /\ b \in V /\ \E t \in T : Leads(t, b, a)
    BY <1>9 DEF RunsLow
  <2>2. PICK t \in T : Leads(t, b, a)
    BY <2>1
  <2>3. next[b] = a \/ \E s \in T : Leads(s, a, b)
    BY <1>3, <1>4, <2>1, <2>2
  <2> QED
    BY <1>5, <1>6, <1>7, <2>1, <2>3
<1>10. ASSUME RunsHigh(f, T, n, a, b) PROVE \E g \in F : Leads(g, b, a)
  <2> DEFINE p == a - n
             q == b - n
  <2>1. a \in Nat /\ b \in Nat /\ p \in V /\ q \in V /\ \E t \in T : Leads(t, p, q)
    BY <1>10 DEF RunsHigh
  <2>2. a = p + n /\ b = q + n
    BY <2>1
  <2> HIDE DEF p, q
  <2>3. PICK t \in T : Leads(t, p, q)
    BY <2>1
  <2>4. next[p] = q \/ \E s \in T : Leads(s, q, p)
    BY <1>3, <1>4, <2>1, <2>3
  <2> QED
    BY <1>5, <1>6, <1>7, <2>1, <2>2, <2>4
<1>11. ASSUME RunsNear(f, next, n, a, b) PROVE \E g \in F : Leads(g, b, a)
  <2>1. PICK v \in V : \/ a = v /\ b = next[v]
                       \/ a = next[v] /\ b = next[v] + n
                       \/ a = next[v] + n /\ b = v
    BY <1>11 DEF RunsNear
  <2>2. PICK t \in T : Leads(t, v, next[v])
    BY <1>3
  <2>3. Leads(LowFace(t), next[v], v) /\ LowFace(t) \in F
    BY <1>5, <1>6, <2>2
  <2> QED
    BY <1>2, <1>5, <1>7, <2>1, <2>3
<1>12. ASSUME RunsFar(f, next, n, a, b) PROVE \E g \in F : Leads(g, b, a)
  <2>1. PICK v \in V : \/ a = v /\ b = next[v] + n
                       \/ a = next[v] + n /\ b = v + n
                       \/ a = v + n /\ b = v
    BY <1>12 DEF RunsFar
  <2>2. PICK t \in T : Leads(t, v, next[v])
    BY <1>3
  <2>3. Leads(HighFace(t, n), v + n, next[v] + n) /\ HighFace(t, n) \in F
    BY <1>5, <1>6, <2>2
  <2>4. PICK w \in V : next[w] = v
    BY <1>2
  <2>5. Leads(NearFace(next, n, w), v, v + n) /\ NearFace(next, n, w) \in F
    BY <1>5, <1>7, <2>4
  <2> QED
    BY <1>5, <1>7, <2>1, <2>3, <2>5
<1> QED
  BY <1>8, <1>9, <1>10, <1>11, <1>12

\* A face has the edge between a and b.
Beside(f, a, b) == Leads(f, a, b) \/ Leads(f, b, a)

\* Two faces have an edge when they are all that lie beside it.
LEMMA TwoFacesAre ==
  ASSUME NEW F, NEW a, NEW b, a # b, NEW x \in F, NEW y \in F, x # y, Beside(x, a, b), Beside(y, a, b),
         \A h \in F : Beside(h, a, b) => h = x \/ h = y
  PROVE  TwoFaces(F, a, b) /\ TwoFaces(F, b, a)
<1>1. \A h : {a, b} \subseteq {h[1], h[2], h[3]} <=> Beside(h, a, b)
  <2> SUFFICES ASSUME NEW h PROVE {a, b} \subseteq {h[1], h[2], h[3]} <=> Beside(h, a, b)
    OBVIOUS
  <2>1. Leads(h, a, b) <=> \/ h[1] = a /\ h[2] = b
                           \/ h[2] = a /\ h[3] = b
                           \/ h[3] = a /\ h[1] = b
    BY LeadsIs
  <2>2. Leads(h, b, a) <=> \/ h[1] = b /\ h[2] = a
                           \/ h[2] = b /\ h[3] = a
                           \/ h[3] = b /\ h[1] = a
    BY LeadsIs
  <2> QED
    BY <2>1, <2>2 DEF Beside
<1>2. \A h \in F : {a, b} \subseteq {h[1], h[2], h[3]} <=> h = x \/ h = y
  BY <1>1
<1>3. {a, b} = {b, a}
  OBVIOUS
<1> QED
  BY <1>2, <1>3 DEF TwoFaces

\* A face with three corners runs no edge both ways.
LEMMA RunsOnce ==
  ASSUME NEW f, HasCorners(f), NEW a, NEW b, Leads(f, a, b)
  PROVE  a # b /\ ~Leads(f, b, a)
<1>1. \/ f[1] = a /\ f[2] = b
      \/ f[2] = a /\ f[3] = b
      \/ f[3] = a /\ f[1] = b
  BY LeadsIs
<1>2. Leads(f, b, a) <=> \/ f[1] = b /\ f[2] = a
                         \/ f[2] = b /\ f[3] = a
                         \/ f[3] = b /\ f[1] = a
  BY LeadsIs
<1> QED
  BY <1>1, <1>2 DEF HasCorners

\* The walls and the triangles share the edges of a prism two by two.
LEMMA PrismShares ==
  ASSUME NEW n \in Nat, NEW next, Circuit(next, n), NEW T, NEW ccw \in BOOLEAN, Fills(T, next, n, ccw)
  PROVE  LET F == Prism(T, next, n)
         IN  /\ \A v \in 0..(n - 1) : /\ TwoFaces(F, v, next[v]) /\ TwoFaces(F, next[v], v)
                                      /\ TwoFaces(F, v + n, next[v] + n) /\ TwoFaces(F, next[v] + n, v + n)
                                      /\ TwoFaces(F, next[v], next[v] + n) /\ TwoFaces(F, next[v] + n, next[v])
                                      /\ TwoFaces(F, v, next[v] + n) /\ TwoFaces(F, next[v] + n, v)
             /\ \A s, t \in T : \A a, b \in 0..(n - 1) :
                  Leads(s, a, b) /\ Leads(t, b, a) /\ next[a] # b /\ next[b] # a
                    => TwoFaces(F, a, b) /\ TwoFaces(F, a + n, b + n)
<1> DEFINE F == Prism(T, next, n)
           V == 0..(n - 1)
<1>1. T \in SUBSET Triples(n) /\ next \in [V -> V] /\ \A t \in T : HasCorners(t)
  BY DEF Fills, Circuit
<1>2. \A v, w \in V : next[v] = next[w] => v = w
  BY DEF Circuit
<1>3. \A v \in V : next[v] # v /\ next[next[v]] # v /\ next[v] \in V /\ v \in Nat /\ v < n
  BY DEF Circuit
<1>4. \A s, t \in T : \A a, b : Leads(s, a, b) /\ Leads(t, a, b) => s = t
  BY DEF Fills, OneWay
<1>5. /\ \A t \in T : LowFace(t) \in F /\ HighFace(t, n) \in F
      /\ \A v \in V : NearFace(next, n, v) \in F /\ FarFace(next, n, v) \in F
  BY DEF Prism
<1>6. \A t \in T : \A a, b : Leads(t, a, b) =>
        a \in V /\ b \in V /\ Leads(LowFace(t), b, a) /\ Leads(HighFace(t, n), a + n, b + n)
  BY <1>1, FacesRun
<1>7. \A v \in V :
        /\ Leads(NearFace(next, n, v), v, next[v]) /\ Leads(NearFace(next, n, v), next[v], next[v] + n)
        /\ Leads(NearFace(next, n, v), next[v] + n, v)
        /\ Leads(FarFace(next, n, v), v, next[v] + n) /\ Leads(FarFace(next, n, v), next[v] + n, v + n)
        /\ Leads(FarFace(next, n, v), v + n, v)
  BY <1>1, FacesRun
<1>8. /\ \A s, t \in T : (LowFace(s) = LowFace(t) => s = t) /\ (HighFace(s, n) = HighFace(t, n) => s = t)
      /\ \A t \in T : \A v \in V : LowFace(t) # NearFace(next, n, v) /\ HighFace(t, n) # FarFace(next, n, v)
      /\ \A v, w \in V : NearFace(next, n, v) # FarFace(next, n, w)
  BY <1>1, FacesDiffer
<1>9. ASSUME NEW h \in F, NEW a, NEW b, Beside(h, a, b)
      PROVE  \/ RunsLow(h, T, n, a, b) \/ RunsHigh(h, T, n, a, b)
             \/ RunsNear(h, next, n, a, b) \/ RunsFar(h, next, n, a, b)
             \/ RunsLow(h, T, n, b, a) \/ RunsHigh(h, T, n, b, a)
             \/ RunsNear(h, next, n, b, a) \/ RunsFar(h, next, n, b, a)
  <2>1. CASE Leads(h, a, b)
    BY <1>1, <2>1, PrismRuns
  <2>2. CASE Leads(h, b, a)
    BY <1>1, <2>2, PrismRuns
  <2> QED
    BY <1>9, <2>1, <2>2 DEF Beside
<1>10. \A v \in V : \E t \in T : Beside(t, v, next[v]) /\ \A s \in T : Beside(s, v, next[v]) => s = t
  <2> SUFFICES ASSUME NEW v \in V
               PROVE  \E t \in T : Beside(t, v, next[v]) /\ \A s \in T : Beside(s, v, next[v]) => s = t
    OBVIOUS
  <2>1. \/ (\E t \in T : Leads(t, v, next[v])) /\ \A t \in T : ~Leads(t, next[v], v)
        \/ (\E t \in T : Leads(t, next[v], v)) /\ \A t \in T : ~Leads(t, v, next[v])
    BY DEF Fills
  <2> QED
    BY <1>4, <2>1 DEF Beside
<1> HIDE DEF F
<1>11. ASSUME NEW v \in V PROVE TwoFaces(F, v, next[v]) /\ TwoFaces(F, next[v], v)
  <2>1. PICK t \in T : Beside(t, v, next[v]) /\ \A s \in T : Beside(s, v, next[v]) => s = t
    BY <1>10
  <2>2. Beside(LowFace(t), v, next[v]) /\ Beside(NearFace(next, n, v), v, next[v])
    BY <1>6, <1>7, <2>1 DEF Beside
  <2>3. ASSUME NEW h \in F, Beside(h, v, next[v]) PROVE h = LowFace(t) \/ h = NearFace(next, n, v)
    <3> DEFINE a == v
               b == next[v]
    <3>1. a \in V /\ b \in V /\ b = next[a] /\ next[b] # a /\ a < n /\ b < n
      BY <1>3
    <3> HIDE DEF a, b
    <3>2. ~RunsHigh(h, T, n, a, b) /\ ~RunsHigh(h, T, n, b, a)
      BY <3>1 DEF RunsHigh
    <3>3. ~RunsFar(h, next, n, a, b) /\ ~RunsFar(h, next, n, b, a)
      BY <1>3, <3>1 DEF RunsFar
    <3>4. RunsNear(h, next, n, a, b) \/ RunsNear(h, next, n, b, a) => h = NearFace(next, n, a)
      BY <1>3, <3>1 DEF RunsNear
    <3>5. RunsLow(h, T, n, a, b) \/ RunsLow(h, T, n, b, a) => h = LowFace(t)
      BY <2>1 DEF RunsLow, Beside, a, b
    <3> QED
      BY <1>9, <2>3, <3>2, <3>3, <3>4, <3>5 DEF a, b
  <2> QED
    BY <1>3, <1>5, <1>8, <2>2, <2>3, TwoFacesAre
<1>12. ASSUME NEW v \in V PROVE TwoFaces(F, v + n, next[v] + n) /\ TwoFaces(F, next[v] + n, v + n)
  <2>1. PICK t \in T : Beside(t, v, next[v]) /\ \A s \in T : Beside(s, v, next[v]) => s = t
    BY <1>10
  <2>2. Beside(HighFace(t, n), v + n, next[v] + n) /\ Beside(FarFace(next, n, v), v + n, next[v] + n)
    BY <1>6, <1>7, <2>1 DEF Beside
  <2>3. ASSUME NEW h \in F, Beside(h, v + n, next[v] + n) PROVE h = HighFace(t, n) \/ h = FarFace(next, n, v)
    <3> DEFINE a == v + n
               b == next[v] + n
    <3>1. a - n = v /\ b - n = next[v] /\ a \in Nat /\ b \in Nat /\ a >= n /\ b >= n
      BY <1>3
    <3> HIDE DEF a, b
    <3>2. ~RunsLow(h, T, n, a, b) /\ ~RunsLow(h, T, n, b, a)
      BY <3>1 DEF RunsLow
    <3>3. ~RunsNear(h, next, n, a, b) /\ ~RunsNear(h, next, n, b, a)
      BY <1>3, <3>1 DEF RunsNear
    <3>4. RunsFar(h, next, n, a, b) \/ RunsFar(h, next, n, b, a) => h = FarFace(next, n, v)
      <4>1. \A w \in V : a = w + n => w = v
        BY <1>3, <3>1
      <4>2. \A w \in V : b = w + n => w = next[v]
        BY <1>3, <3>1
      <4>3. \A w \in V : a # w /\ b # w
        BY <1>3, <3>1
      <4>4. next[v] \in V /\ next[next[v]] # v /\ \A w \in V : next[w] \in V
        BY <1>3
      <4> QED
        BY <4>1, <4>2, <4>3, <4>4 DEF RunsFar
    <3>5. RunsHigh(h, T, n, a, b) \/ RunsHigh(h, T, n, b, a) => h = HighFace(t, n)
      BY <2>1, <3>1 DEF RunsHigh, Beside
    <3> QED
      BY <1>9, <2>3, <3>2, <3>3, <3>4, <3>5 DEF a, b
  <2>4. v + n # next[v] + n
    BY <1>3
  <2> QED
    BY <1>5, <1>8, <2>2, <2>3, <2>4, TwoFacesAre
<1>13. ASSUME NEW v \in V PROVE TwoFaces(F, next[v], next[v] + n) /\ TwoFaces(F, next[v] + n, next[v])
  <2> DEFINE a == next[v]
             b == next[v] + n
  <2>1. a \in V /\ a < n /\ b = a + n /\ a # b
    BY <1>3
  <2>2. Beside(NearFace(next, n, v), a, b) /\ Beside(FarFace(next, n, a), a, b)
    BY <1>7, <2>1 DEF Beside
  <2>3. ASSUME NEW h \in F, Beside(h, a, b) PROVE h = NearFace(next, n, v) \/ h = FarFace(next, n, a)
    <3>1. \A w \in V : next[w] = a => w = v
      BY <1>2
    <3> HIDE DEF a, b
    <3>2. ~RunsLow(h, T, n, a, b) /\ ~RunsLow(h, T, n, b, a) /\ ~RunsHigh(h, T, n, a, b) /\ ~RunsHigh(h, T, n, b, a)
      BY <2>1 DEF RunsLow, RunsHigh
    <3>3. RunsNear(h, next, n, a, b) \/ RunsNear(h, next, n, b, a) => h = NearFace(next, n, v)
      BY <1>3, <2>1, <3>1 DEF RunsNear
    <3>4. RunsFar(h, next, n, a, b) \/ RunsFar(h, next, n, b, a) => h = FarFace(next, n, a)
      BY <1>3, <2>1 DEF RunsFar
    <3> QED
      BY <1>9, <2>3, <3>2, <3>3, <3>4
  <2> QED
    BY <1>5, <1>8, <2>1, <2>2, <2>3, TwoFacesAre
<1>14. ASSUME NEW v \in V PROVE TwoFaces(F, v, next[v] + n) /\ TwoFaces(F, next[v] + n, v)
  <2> DEFINE a == v
             b == next[v] + n
             c == next[v]
  <2>1. a \in V /\ a < n /\ c \in V /\ b = c + n /\ a # b /\ c # a /\ c < n
    BY <1>3
  <2>2. Beside(NearFace(next, n, v), a, b) /\ Beside(FarFace(next, n, v), a, b)
    BY <1>7 DEF Beside
  <2>3. ASSUME NEW h \in F, Beside(h, a, b) PROVE h = NearFace(next, n, v) \/ h = FarFace(next, n, v)
    <3>1. \A w \in V : next[w] = c => w = v
      BY <1>2
    <3>2. a = v /\ b # a /\ next[a] = c
      BY <2>1
    <3> HIDE DEF a, b, c
    <3>3. ~RunsLow(h, T, n, a, b) /\ ~RunsLow(h, T, n, b, a) /\ ~RunsHigh(h, T, n, a, b) /\ ~RunsHigh(h, T, n, b, a)
      BY <2>1 DEF RunsLow, RunsHigh
    <3>4. RunsNear(h, next, n, a, b) \/ RunsNear(h, next, n, b, a) => h = NearFace(next, n, v)
      BY <1>3, <2>1, <3>1, <3>2 DEF RunsNear
    <3>5. RunsFar(h, next, n, a, b) \/ RunsFar(h, next, n, b, a) => h = FarFace(next, n, v)
      BY <1>3, <2>1, <3>1, <3>2 DEF RunsFar
    <3> QED
      BY <1>9, <2>3, <3>3, <3>4, <3>5
  <2> QED
    BY <1>5, <1>8, <2>1, <2>2, <2>3, TwoFacesAre
<1>15. ASSUME NEW s \in T, NEW t \in T, NEW a \in V, NEW b \in V, Leads(s, a, b), Leads(t, b, a), next[a] # b, next[b] # a
       PROVE  TwoFaces(F, a, b) /\ TwoFaces(F, a + n, b + n)
  <2>1. s # t /\ a # b
    BY <1>1, <1>15, RunsOnce
  <2>2. \A u \in T : Beside(u, a, b) => u = s \/ u = t
    BY <1>4, <1>15 DEF Beside
  <2>3. TwoFaces(F, a, b)
    <3>1. Beside(LowFace(s), a, b) /\ Beside(LowFace(t), a, b) /\ LowFace(s) # LowFace(t)
      BY <1>6, <1>8, <1>15, <2>1 DEF Beside
    <3>2. ASSUME NEW h \in F, Beside(h, a, b) PROVE h = LowFace(s) \/ h = LowFace(t)
      <4>1. a < n /\ b < n /\ a \in Nat /\ b \in Nat
        BY <1>3
      <4>2. ~RunsHigh(h, T, n, a, b) /\ ~RunsHigh(h, T, n, b, a)
        BY <4>1 DEF RunsHigh
      <4>3. ~RunsFar(h, next, n, a, b) /\ ~RunsFar(h, next, n, b, a)
        BY <1>3, <4>1 DEF RunsFar
      <4>4. ~RunsNear(h, next, n, a, b) /\ ~RunsNear(h, next, n, b, a)
        BY <1>3, <1>15, <4>1 DEF RunsNear
      <4>5. RunsLow(h, T, n, a, b) \/ RunsLow(h, T, n, b, a) => h = LowFace(s) \/ h = LowFace(t)
        BY <2>2 DEF RunsLow, Beside
      <4> QED
        BY <1>9, <3>2, <4>2, <4>3, <4>4, <4>5
    <3> QED
      BY <1>5, <2>1, <3>1, <3>2, TwoFacesAre
  <2>4. TwoFaces(F, a + n, b + n)
    <3> DEFINE p == a + n
               q == b + n
    <3>1. Beside(HighFace(s, n), p, q) /\ Beside(HighFace(t, n), p, q) /\ HighFace(s, n) # HighFace(t, n)
      BY <1>6, <1>8, <1>15, <2>1 DEF Beside
    <3>2. p - n = a /\ q - n = b /\ p \in Nat /\ q \in Nat /\ p >= n /\ q >= n /\ p # q
      BY <1>3, <2>1
    <3> HIDE DEF p, q
    <3>3. ASSUME NEW h \in F, Beside(h, p, q) PROVE h = HighFace(s, n) \/ h = HighFace(t, n)
      <4>1. ~RunsLow(h, T, n, p, q) /\ ~RunsLow(h, T, n, q, p)
        BY <3>2 DEF RunsLow
      <4>2. ~RunsNear(h, next, n, p, q) /\ ~RunsNear(h, next, n, q, p)
        BY <1>3, <3>2 DEF RunsNear
      <4>3. ~RunsFar(h, next, n, p, q) /\ ~RunsFar(h, next, n, q, p)
        <5>1. \A w \in V : (p = w + n => w = a) /\ (q = w + n => w = b) /\ p # w /\ q # w
          BY <1>3, <3>2
        <5>2. \A w \in V : next[w] \in V
          BY <1>3
        <5> QED
          BY <1>15, <5>1, <5>2 DEF RunsFar
      <4>4. RunsHigh(h, T, n, p, q) \/ RunsHigh(h, T, n, q, p) => h = HighFace(s, n) \/ h = HighFace(t, n)
        BY <2>2, <3>2 DEF RunsHigh, Beside
      <4> QED
        BY <1>9, <3>3, <4>1, <4>2, <4>3, <4>4
    <3>4. TwoFaces(F, p, q)
      BY <1>5, <3>1, <3>2, <3>3, TwoFacesAre
    <3> QED
      BY <3>4 DEF p, q
  <2> QED
    BY <2>3, <2>4
<1> QED
  BY <1>11, <1>12, <1>13, <1>14, <1>15 DEF F

\* A prism is a finite set of faces of three corners each.
LEMMA PrismHasFaces ==
  ASSUME NEW n \in Nat, NEW next, Circuit(next, n), NEW T \in SUBSET Triples(n), \A t \in T : HasCorners(t)
  PROVE  IsFiniteSet(Prism(T, next, n)) /\ \A f \in Prism(T, next, n) : HasCorners(f)
<1> DEFINE F == Prism(T, next, n)
           V == 0..(n - 1)
           W == 0..(2 * n - 1)
<1>1. \A v \in V : next[v] \in V
  BY DEF Circuit
<1>2. \A v \in V : v \in W /\ v + n \in W
  OBVIOUS
<1>3. ASSUME NEW f \in F PROVE f \in W \X W \X W
  <2>1. \A t \in T : t[1] \in V /\ t[2] \in V /\ t[3] \in V
    BY DEF Triples
  <2> HIDE DEF W, V
  <2>2. \A t \in T : LowFace(t) \in W \X W \X W /\ HighFace(t, n) \in W \X W \X W
    BY <1>2, <2>1 DEF LowFace, HighFace
  <2>3. \A v \in V : NearFace(next, n, v) \in W \X W \X W /\ FarFace(next, n, v) \in W \X W \X W
    BY <1>1, <1>2 DEF NearFace, FarFace
  <2>4. (\E t \in T : f = LowFace(t) \/ f = HighFace(t, n)) \/ \E v \in V : f = NearFace(next, n, v) \/ f = FarFace(next, n, v)
    BY DEF Prism, V
  <2> QED
    BY <2>2, <2>3, <2>4
<1>4. IsFiniteSet(W \X W \X W)
  <2>1. \A a, b \in Int : IsFiniteSet(a..b)
    BY FS_Interval
  <2>2. 0 \in Int /\ 2 * n - 1 \in Int
    OBVIOUS
  <2>3. IsFiniteSet(W)
    BY <2>1, <2>2
  <2> HIDE DEF W
  <2>4. IsFiniteSet(W \X (W \X W))
    <3>1. IsFiniteSet(W \X W)
      BY <2>3, FS_Product
    <3> QED
      BY <2>3, <3>1, FS_Product
  <2> DEFINE g == [p \in W \X (W \X W) |-> <<p[1], p[2][1], p[2][2]>>]
  <2>5. g \in Surjection(W \X (W \X W), W \X W \X W)
    <3>1. g \in [W \X (W \X W) -> W \X W \X W]
      OBVIOUS
    <3>2. ASSUME NEW q \in W \X W \X W PROVE \E p \in W \X (W \X W) : g[p] = q
      <4>1. <<q[1], <<q[2], q[3]>>>> \in W \X (W \X W) /\ g[<<q[1], <<q[2], q[3]>>>>] = q
        OBVIOUS
      <4> QED
        BY <4>1
    <3> HIDE DEF g
    <3> QED
      BY <3>1, <3>2 DEF Surjection
  <2> HIDE DEF g
  <2> QED
    BY <2>4, <2>5, FS_Surjection
<1>5. IsFiniteSet(F)
  <2> HIDE DEF W, F
  <2>1. F \subseteq W \X W \X W
    BY <1>3
  <2> QED
    BY <1>4, <2>1, FS_Subset
<1>6. \A f \in F : HasCorners(f)
  BY FacesDiffer DEF Prism
<1> QED
  BY <1>5, <1>6

\* As many as there are i.
LEMMA OneEach ==
  ASSUME NEW m \in Nat, NEW F, NEW f \in [0..(m - 1) -> F],
         \A x \in F : \E i \in 0..(m - 1) : x = f[i],
         \A i, j \in 0..(m - 1) : f[i] = f[j] => i = j
  PROVE  IsFiniteSet(F) /\ Cardinality(F) = m
<1> DEFINE I == 0..(m - 1)
<1>1. IsFiniteSet(I) /\ Cardinality(I) = m
  <2>1. \A a, b \in Int : IsFiniteSet(a..b) /\ Cardinality(a..b) = IF a > b THEN 0 ELSE b - a + 1
    BY FS_Interval
  <2>2. 0 \in Int /\ m - 1 \in Int
    OBVIOUS
  <2>3. IsFiniteSet(I) /\ Cardinality(I) = IF 0 > m - 1 THEN 0 ELSE m - 1 - 0 + 1
    BY <2>1, <2>2
  <2> HIDE DEF I
  <2> QED
    BY <2>3
<1>2. f \in Surjection(I, F) /\ f \in Injection(I, F)
  BY DEF Surjection, Injection, IsInjective
<1> HIDE DEF I
<1>3. IsFiniteSet(F) /\ Cardinality(F) = Cardinality(I)
  BY <1>1, <1>2, FS_Surjection
<1> QED
  BY <1>1, <1>3

\* A mesh whose vertices are numbered from d on.
From(F, d) == {[k \in 1..3 |-> f[k] + d] : f \in F}

\* It runs as it did.
LEMMA FromIs ==
  ASSUME NEW N \in Nat, NEW F \in SUBSET Triples(N), NEW d \in Nat, IsFiniteSet(F),
         \A f \in F : HasCorners(f), OneWay(F), BothWays(F)
  PROVE  /\ IsFiniteSet(From(F, d)) /\ \A f \in From(F, d) : HasCorners(f)
         /\ OneWay(From(F, d)) /\ BothWays(From(F, d))
         /\ \A f \in From(F, d) : \A a, b : Leads(f, a, b) => a \in d..(d + N - 1)
<1> DEFINE s == [f \in F |-> [k \in 1..3 |-> f[k] + d]]
           G == From(F, d)
<1>1. \A f \in F : f[1] \in 0..(N - 1) /\ f[2] \in 0..(N - 1) /\ f[3] \in 0..(N - 1) /\ f = <<f[1], f[2], f[3]>>
  BY DEF Triples
<1>2. \A f \in F : s[f][1] = f[1] + d /\ s[f][2] = f[2] + d /\ s[f][3] = f[3] + d
  OBVIOUS
<1>3. G = {s[f] : f \in F} /\ s \in [F -> G]
  BY DEF From
<1> HIDE DEF s, G
<1>4. IsFiniteSet(G)
  <2>1. s \in Surjection(F, G)
    BY <1>3 DEF Surjection
  <2> QED
    BY <2>1, FS_Surjection
<1>5. ASSUME NEW f \in F PROVE HasCorners(s[f])
  <2>1. f[1] # f[2] /\ f[2] # f[3] /\ f[3] # f[1]
    BY DEF HasCorners
  <2> QED
    BY <1>1, <1>2, <2>1 DEF HasCorners
<1>6. ASSUME NEW f \in F, NEW a, NEW b, Leads(s[f], a, b)
      PROVE  \E p, q \in 0..(N - 1) : Leads(f, p, q) /\ a = p + d /\ b = q + d
  <2>1. \/ s[f][1] = a /\ s[f][2] = b
        \/ s[f][2] = a /\ s[f][3] = b
        \/ s[f][3] = a /\ s[f][1] = b
    BY <1>6, LeadsIs
  <2>2. Leads(f, f[1], f[2]) /\ Leads(f, f[2], f[3]) /\ Leads(f, f[3], f[1])
    BY LeadsIs
  <2> QED
    BY <1>1, <1>2, <2>1, <2>2
<1>7. ASSUME NEW f \in F, NEW p, NEW q, Leads(f, p, q)
      PROVE  Leads(s[f], p + d, q + d)
  <2>1. \/ f[1] = p /\ f[2] = q
        \/ f[2] = p /\ f[3] = q
        \/ f[3] = p /\ f[1] = q
    BY <1>7, LeadsIs
  <2> QED
    BY <1>2, <2>1, LeadsIs
<1>8. OneWay(G)
  <2> SUFFICES ASSUME NEW f \in F, NEW g \in F, NEW a, NEW b, Leads(s[f], a, b), Leads(s[g], a, b) PROVE f = g
    BY <1>3 DEF OneWay
  <2>1. PICK p \in 0..(N - 1), q \in 0..(N - 1) : Leads(f, p, q) /\ a = p + d /\ b = q + d
    BY <1>6
  <2>2. PICK u \in 0..(N - 1), v \in 0..(N - 1) : Leads(g, u, v) /\ a = u + d /\ b = v + d
    BY <1>6
  <2>3. p = u /\ q = v
    BY <2>1, <2>2
  <2> QED
    BY <2>1, <2>2, <2>3 DEF OneWay
<1>9. BothWays(G)
  <2> SUFFICES ASSUME NEW f \in F, NEW a, NEW b, Leads(s[f], a, b) PROVE \E g \in F : Leads(s[g], b, a)
    BY <1>3 DEF BothWays
  <2>1. PICK p \in 0..(N - 1), q \in 0..(N - 1) : Leads(f, p, q) /\ a = p + d /\ b = q + d
    BY <1>6
  <2>2. PICK g \in F : Leads(g, q, p)
    BY <2>1 DEF BothWays
  <2> QED
    BY <1>7, <2>1, <2>2
<1>10. ASSUME NEW f \in F, NEW a, NEW b, Leads(s[f], a, b) PROVE a \in d..(d + N - 1)
  BY <1>6, <1>10
<1> QED
  BY <1>3, <1>4, <1>5, <1>8, <1>9, <1>10 DEF G
-----------------------------------------------------------------------------
(* The files of a site.                                                    *)

\* The models of the files have the operators of the library under names of their own.
LEMMA OutputsMax == \A S : Exports!Max(S) = Max(S) /\ Assembly!Max(S) = Max(S)
BY DEF Exports!Max, Assembly!Max, Max

\* The least of a set is the same for the files.
LEMMA OutputsMin == \A S : Exports!Min(S) = Min(S) /\ Assembly!Min(S) = Min(S)
BY DEF Exports!Min, Assembly!Min, Min

\* So is the number of its elements,
LEMMA OutputsCount == \A S : Exports!Cardinality(S) = Cardinality(S) /\ Assembly!Cardinality(S) = Cardinality(S)
BY DEF Exports!Cardinality, Assembly!Cardinality, Cardinality

\* what a sequence has,
LEMMA OutputsSet == \A s : Exports!ToSet(s) = ToSet(s) /\ Assembly!ToSet(s) = ToSet(s)
BY DEF Exports!ToSet, Assembly!ToSet, ToSet

\* and what flattened lists are.
LEMMA OutputsFlat == \A ss : Exports!FlattenSeq(ss) = FlattenSeq(ss) /\ Assembly!FlattenSeq(ss) = FlattenSeq(ss)
BY DEF Exports!FlattenSeq, Assembly!FlattenSeq, FlattenSeq

\* Total adds them up.
LEMMA TotalIs ==
  ASSUME NEW s \in Seq(Nat)
  PROVE  \E at : Sums(at, s) /\ Exports!Total(s) = at[Len(s)]
<1> DEFINE n == Len(s)
           S == 1..n
           V == Nat
           Op(v, k) == v + s[k]
           step == [k \in S |-> [v \in V |-> Op(v, k)]]
           Folds(f) == f = [T \in SUBSET S |-> IF T = {} THEN 0 ELSE Op(f[T \ {Max(T)}], Max(T))]
           f == CHOOSE f : Folds(f)
<1>1. n \in Nat /\ DOMAIN s = S /\ \A k \in S : s[k] \in Nat
  OBVIOUS
<1>2. 0 \in V
  OBVIOUS
<1>3. \A k \in S, v \in V : Op(v, k) \in V
  BY <1>1
<1>4. \A k \in S, v \in V : step[k][v] = Op(v, k)
  OBVIOUS
<1> HIDE DEF V, Op, n
<1>5. StaysIn(step, S, V)
  BY <1>3, <1>4 DEF StaysIn
<1>6. Picks(LastOf(n), S) /\ IsFiniteSet(S) /\ \A T \in SUBSET S : LastOf(n)[T] = Max(T)
  BY <1>1, LastIn DEF LastOf
<1> HIDE DEF step
<1>7. \E g : Folds(g)
  <2>1. PICK g \in [SUBSET S -> V] : Iterates(g, 0, LastOf(n), step, S)
    BY <1>2, <1>5, <1>6, SetRecursion
  <2>2. ASSUME NEW T \in SUBSET S
        PROVE  g[T] = IF T = {} THEN 0 ELSE Op(g[T \ {Max(T)}], Max(T))
    <3>1. T # {} => Max(T) \in S /\ g[T \ {Max(T)}] \in V
      BY <1>6, <2>1 DEF Picks
    <3>2. g[T] = IF T = {} THEN 0 ELSE step[Max(T)][g[T \ {Max(T)}]]
      BY <1>6, <2>1 DEF Iterates
    <3> QED
      BY <1>4, <3>1, <3>2
  <2> QED
    BY <2>1, <2>2
<1>8. Folds(f)
  BY <1>7
<1>9. Exports!Total(s) = f[S]
  BY <1>1, OutputsMax DEF Exports!Total, Exports!FoldLeft, Exports!MapThenFoldSet, Op
<1> HIDE DEF f
<1>10. \A T \in SUBSET S : f[T] = IF T = {} THEN 0 ELSE Op(f[T \ {Max(T)}], Max(T))
  <2> DEFINE g == [T \in SUBSET S |-> IF T = {} THEN 0 ELSE Op(f[T \ {Max(T)}], Max(T))]
  <2>1. f = g
    BY <1>8
  <2>2. \A T \in SUBSET S : g[T] = IF T = {} THEN 0 ELSE Op(f[T \ {Max(T)}], Max(T))
    OBVIOUS
  <2> HIDE DEF g
  <2> QED
    BY <2>1, <2>2
<1> DEFINE Good == {T \in SUBSET S : f[T] \in V}
<1>11. {} \in Good
  BY <1>2, <1>10
<1>12. ASSUME NEW T \in SUBSET S, T # {}, \A x \in T : T \ {x} \in Good PROVE T \in Good
  <2>1. Max(T) \in T /\ Max(T) \in S
    BY <1>6, <1>12 DEF Picks
  <2>2. f[T \ {Max(T)}] \in V
    BY <1>12, <2>1
  <2>3. f[T] = Op(f[T \ {Max(T)}], Max(T))
    BY <1>10, <1>12
  <2> QED
    BY <1>3, <2>1, <2>2, <2>3
<1> HIDE DEF Good
<1>13. \A T \in SUBSET S : T \in Good
  <2>1. IsFiniteSet(S)
    BY <1>6
  <2> HIDE DEF S
  <2> QED
    BY <1>11, <1>12, <2>1, SubsetInduction
<1>14. Iterates(f, 0, LastOf(n), step, S)
  <2> SUFFICES ASSUME NEW T \in SUBSET S
               PROVE  f[T] = IF T = {} THEN 0 ELSE step[LastOf(n)[T]][f[T \ {LastOf(n)[T]}]]
    BY DEF Iterates
  <2>1. T # {} => Max(T) \in S /\ f[T \ {Max(T)}] \in V
    BY <1>6, <1>13 DEF Picks, Good
  <2>2. T # {} => step[Max(T)][f[T \ {Max(T)}]] = Op(f[T \ {Max(T)}], Max(T))
    BY <1>4, <2>1
  <2>3. LastOf(n)[T] = Max(T) /\ f[T] = IF T = {} THEN 0 ELSE Op(f[T \ {Max(T)}], Max(T))
    BY <1>6, <1>10
  <2> QED
    BY <2>2, <2>3
<1>15. RunsTo(f[S], 0, step, n, V)
  BY <1>1, <1>2, <1>5, <1>14, FoldRuns
<1>16. PICK at \in [0..n -> V] : Runs(at, 0, step, n) /\ f[S] = at[n]
  BY <1>15 DEF RunsTo
<1>17. \A k \in S : at[k] = at[k - 1] + s[k]
  <2> SUFFICES ASSUME NEW k \in S PROVE at[k] = at[k - 1] + s[k]
    OBVIOUS
  <2>1. k - 1 \in 0..n
    BY <1>1
  <2>2. at[k] = step[k][at[k - 1]] /\ at[k - 1] \in V
    BY <1>16, <2>1 DEF Runs
  <2> QED
    BY <1>4, <2>2 DEF Op
<1>18. Sums(at, s)
  BY <1>16, <1>17 DEF Sums, Runs, n, V
<1> QED
  BY <1>9, <1>16, <1>18 DEF n
-----------------------------------------------------------------------------
(* The lists of an export (Exports).                                        *)

Coverages == [source : STRING, priority : Int]

\* _collect_sources takes the coverages one after the other.
SourcesRun(run, coverages) ==
  /\ run \in [0..Len(coverages) -> Seq(Coverages)] /\ run[0] = <<>>
  /\ \A k \in 1..Len(coverages) : run[k] = IF \E s \in Exports!ToSet(run[k - 1]) : s.source = coverages[k].source THEN run[k - 1] ELSE Append(run[k - 1], coverages[k])

\* So there is a list after each of them.
LEMMA SourcesAre ==
  ASSUME NEW coverages \in Seq(Coverages)
  PROVE  \E run : SourcesRun(run, coverages) /\ Exports!ReliefSources(coverages) = run[Len(coverages)]
<1> DEFINE n == Len(coverages)
           S == 1..n
           D == DOMAIN coverages
           V == Seq(Coverages)
           Op(v, k) == IF \E s \in Exports!ToSet(v) : s.source = coverages[k].source THEN v ELSE Append(v, coverages[k])
           step == [k \in S |-> [v \in V |-> Op(v, k)]]
           Folds(f) == f = [T \in SUBSET D |-> IF T = {} THEN <<>> ELSE Op(f[T \ {Exports!Max(T)}], Exports!Max(T))]
           f == CHOOSE f : Folds(f)
<1>1. n \in Nat /\ D = S /\ \A k \in S : coverages[k] \in Coverages
  OBVIOUS
<1>2. <<>> \in V
  OBVIOUS
<1>3. \A k \in S, v \in V : Op(v, k) \in V
  BY <1>1
<1>4. \A k \in S, v \in V : step[k][v] = Op(v, k)
  OBVIOUS
<1> HIDE DEF V, Op, n, D
<1>5. StaysIn(step, S, V)
  BY <1>3, <1>4 DEF StaysIn
<1>6. Picks(LastOf(n), S) /\ IsFiniteSet(S) /\ \A T \in SUBSET S : LastOf(n)[T] = Exports!Max(T)
  BY <1>1, OutputsMax, LastIn DEF LastOf
<1> HIDE DEF step
<1>7. \E g : Folds(g)
  <2>1. PICK g \in [SUBSET S -> V] : Iterates(g, <<>>, LastOf(n), step, S)
    BY <1>2, <1>5, <1>6, SetRecursion
  <2>2. ASSUME NEW T \in SUBSET S
        PROVE  g[T] = IF T = {} THEN <<>> ELSE Op(g[T \ {Exports!Max(T)}], Exports!Max(T))
    <3>1. T # {} => Exports!Max(T) \in S /\ g[T \ {Exports!Max(T)}] \in V
      BY <1>6, <2>1 DEF Picks
    <3>2. g[T] = IF T = {} THEN <<>> ELSE step[Exports!Max(T)][g[T \ {Exports!Max(T)}]]
      BY <1>6, <2>1 DEF Iterates
    <3> QED
      BY <1>4, <3>1, <3>2
  <2> QED
    BY <1>1, <2>1, <2>2
<1>8. Folds(f)
  BY <1>7
<1>9. Exports!ReliefSources(coverages) = f[D]
  BY DEF Exports!ReliefSources, Exports!FoldLeft, Exports!MapThenFoldSet, Op, D
<1> HIDE DEF f
<1>10. \A T \in SUBSET S : f[T] = IF T = {} THEN <<>> ELSE Op(f[T \ {Exports!Max(T)}], Exports!Max(T))
  <2> DEFINE g == [T \in SUBSET S |-> IF T = {} THEN <<>> ELSE Op(f[T \ {Exports!Max(T)}], Exports!Max(T))]
  <2>1. f = g
    BY <1>1, <1>8
  <2>2. \A T \in SUBSET S : g[T] = IF T = {} THEN <<>> ELSE Op(f[T \ {Exports!Max(T)}], Exports!Max(T))
    OBVIOUS
  <2> HIDE DEF g
  <2> QED
    BY <2>1, <2>2
<1> DEFINE Good == {T \in SUBSET S : f[T] \in V}
<1>11. {} \in Good
  BY <1>2, <1>10
<1>12. ASSUME NEW T \in SUBSET S, T # {}, \A x \in T : T \ {x} \in Good PROVE T \in Good
  <2>1. Exports!Max(T) \in T /\ Exports!Max(T) \in S
    BY <1>6, <1>12 DEF Picks
  <2>2. f[T \ {Exports!Max(T)}] \in V
    BY <1>12, <2>1
  <2>3. f[T] = Op(f[T \ {Exports!Max(T)}], Exports!Max(T))
    BY <1>10, <1>12
  <2> QED
    BY <1>3, <2>1, <2>2, <2>3
<1> HIDE DEF Good
<1>13. \A T \in SUBSET S : T \in Good
  <2>1. IsFiniteSet(S)
    BY <1>6
  <2> HIDE DEF S
  <2> QED
    BY <1>11, <1>12, <2>1, SubsetInduction
<1>14. Iterates(f, <<>>, LastOf(n), step, S)
  <2> SUFFICES ASSUME NEW T \in SUBSET S
               PROVE  f[T] = IF T = {} THEN <<>> ELSE step[LastOf(n)[T]][f[T \ {LastOf(n)[T]}]]
    BY DEF Iterates
  <2>1. T # {} => Exports!Max(T) \in S /\ f[T \ {Exports!Max(T)}] \in V
    BY <1>6, <1>13 DEF Picks, Good
  <2>2. T # {} => step[Exports!Max(T)][f[T \ {Exports!Max(T)}]] = Op(f[T \ {Exports!Max(T)}], Exports!Max(T))
    BY <1>4, <2>1
  <2>3. LastOf(n)[T] = Exports!Max(T) /\ f[T] = IF T = {} THEN <<>> ELSE Op(f[T \ {Exports!Max(T)}], Exports!Max(T))
    BY <1>6, <1>10
  <2> QED
    BY <2>2, <2>3
<1>15. RunsTo(f[S], <<>>, step, n, V)
  BY <1>1, <1>2, <1>5, <1>14, FoldRuns
<1>16. PICK run \in [0..n -> V] : Runs(run, <<>>, step, n) /\ f[S] = run[n]
  BY <1>15 DEF RunsTo
<1>17. \A k \in S : run[k] = Op(run[k - 1], k)
  <2> SUFFICES ASSUME NEW k \in S PROVE run[k] = Op(run[k - 1], k)
    OBVIOUS
  <2>1. k - 1 \in 0..n
    BY <1>1
  <2>2. run[k] = step[k][run[k - 1]] /\ run[k - 1] \in V
    BY <1>16, <2>1 DEF Runs
  <2> QED
    BY <1>4, <2>2
<1>18. run[0] = <<>>
  BY <1>16 DEF Runs
<1>19. run \in [0..Len(coverages) -> Seq(Coverages)] /\ Exports!ReliefSources(coverages) = run[Len(coverages)]
  BY <1>1, <1>9, <1>16 DEF n, V
<1>20. \A k \in 1..Len(coverages) : run[k] = IF \E s \in Exports!ToSet(run[k - 1]) : s.source = coverages[k].source THEN run[k - 1] ELSE Append(run[k - 1], coverages[k])
  BY <1>17, Zenon DEF n, Op
<1>21. SourcesRun(run, coverages)
  BY <1>18, <1>19, <1>20 DEF SourcesRun
<1> QED
  BY <1>19, <1>21

\* What is told apart by f is as many as before.
LEMMA OneToOne ==
  ASSUME NEW P, IsFiniteSet(P), NEW f, \A x, y \in P : f[x] = f[y] => x = y
  PROVE  LET T == {f[x] : x \in P}
         IN  IsFiniteSet(T) /\ Cardinality(T) = Cardinality(P)
<1> DEFINE T == {f[x] : x \in P}
           g == [x \in P |-> f[x]]
<1>1. g \in [P -> T] /\ \A x, y \in P : g[x] = g[y] => x = y
  OBVIOUS
<1>2. \A t \in T : \E x \in P : g[x] = t
  OBVIOUS
<1> HIDE DEF g, T
<1>3. ExistsBijection(P, T)
  BY <1>1, <1>2 DEF ExistsBijection, Bijection, Injection, Surjection, IsInjective
<1>4. IsFiniteSet(T) /\ Cardinality(T) = Cardinality(P)
  BY <1>3, FS_Bijection
<1> QED
  BY <1>4 DEF T

\* Each source is named once, by its best coverage.
LEMMA SourcesAreOnce ==
  ASSUME NEW coverages \in Seq(Coverages),
         \A i, j \in DOMAIN coverages : i < j => coverages[j].priority <= coverages[i].priority
  PROVE  LET sources == Exports!ReliefSources(coverages)
         IN  /\ {s.source : s \in ToSet(sources)} = {c.source : c \in ToSet(coverages)}
             /\ \A i, j \in DOMAIN sources : i < j => sources[i].source # sources[j].source
             /\ \A s \in ToSet(sources), c \in ToSet(coverages) : c.source = s.source => c.priority <= s.priority
<1> DEFINE n == Len(coverages)
           V == Seq(Coverages)
<1>1. PICK run : SourcesRun(run, coverages) /\ Exports!ReliefSources(coverages) = run[n]
  BY SourcesAre
<1>11. /\ run \in [0..n -> V] /\ run[0] = <<>>
       /\ \A k \in 1..n : run[k] = IF \E s \in Exports!ToSet(run[k - 1]) : s.source = coverages[k].source
                                    THEN run[k - 1] ELSE Append(run[k - 1], coverages[k])
  BY <1>1 DEF SourcesRun
<1> DEFINE Lasts(k) == /\ \A i \in DOMAIN run[k] : \E j \in 1..k : run[k][i] = coverages[j]
                       /\ \A j \in 1..k : \E i \in DOMAIN run[k] : run[k][i].source = coverages[j].source
                       /\ \A i, j \in DOMAIN run[k] : i < j => run[k][i].source # run[k][j].source
                       /\ \A i \in DOMAIN run[k], j \in 1..k :
                            coverages[j].source = run[k][i].source => coverages[j].priority <= run[k][i].priority
           A == {k \in Nat : k <= n => Lasts(k)}
<1>2. n \in Nat /\ DOMAIN coverages = 1..n /\ \A k \in 1..n : coverages[k] \in Coverages
  OBVIOUS
<1> HIDE DEF n, Lasts
<1>3. 0 \in A
  BY <1>11 DEF Lasts
<1>4. ASSUME NEW k \in Nat, k \in A PROVE k + 1 \in A
  <2> SUFFICES ASSUME k + 1 <= n PROVE Lasts(k + 1)
    OBVIOUS
  <2> DEFINE c == coverages[k + 1]
             old == run[k]
  <2>1. k + 1 \in 1..n /\ k + 1 - 1 = k /\ k \in 0..n /\ Lasts(k)
    BY <1>2, <1>4
  <2>2. old \in Seq(Coverages) /\ c \in Coverages
    BY <1>11, <1>2, <2>1
  <2>3. run[k + 1] = IF \E s \in ToSet(old) : s.source = c.source THEN old ELSE Append(old, c)
    BY <1>11, <2>1, OutputsSet
  <2>4. \A j \in 1..k : j \in DOMAIN coverages /\ c.priority <= coverages[j].priority
    <3>1. \A j \in 1..k : j \in 1..n /\ j < k + 1
      BY <1>2, <2>1
    <3> QED
      BY <1>2, <2>1, <3>1
  <2>5. /\ \A i \in DOMAIN old : \E j \in 1..k : old[i] = coverages[j]
        /\ \A j \in 1..k : \E i \in DOMAIN old : old[i].source = coverages[j].source
        /\ \A i, j \in DOMAIN old : i < j => old[i].source # old[j].source
        /\ \A i \in DOMAIN old, j \in 1..k :
             coverages[j].source = old[i].source => coverages[j].priority <= old[i].priority
    BY <2>1 DEF Lasts
  <2>6. \A j \in 1..(k + 1) : j \in 1..k \/ j = k + 1
    OBVIOUS
  <2>7. 1..k \subseteq 1..(k + 1)
    OBVIOUS
  <2> HIDE DEF c, old
  <2>8. CASE \E s \in ToSet(old) : s.source = c.source
    <3>1. PICK m \in DOMAIN old : old[m].source = c.source
      BY <2>8 DEF ToSet
    <3>2. run[k + 1] = old
      BY <2>3, <2>8
    <3>3. \A i \in DOMAIN old : c.source = old[i].source => c.priority <= old[i].priority
      BY <2>4, <2>5
    <3>4. \A i \in DOMAIN old : \E j \in 1..(k + 1) : old[i] = coverages[j]
      BY <2>5, <2>7
    <3>5. \A j \in 1..(k + 1) : \E i \in DOMAIN old : old[i].source = coverages[j].source
      BY <2>5, <2>6, <3>1 DEF c
    <3>6. \A i \in DOMAIN old, j \in 1..(k + 1) :
             coverages[j].source = old[i].source => coverages[j].priority <= old[i].priority
      BY <2>5, <2>6, <3>3 DEF c
    <3> QED
      BY <2>5, <3>2, <3>4, <3>5, <3>6 DEF Lasts
  <2>9. CASE ~\E s \in ToSet(old) : s.source = c.source
    <3> DEFINE new == Append(old, c)
               m == Len(old) + 1
    <3>1. run[k + 1] = new
      BY <2>3, <2>9
    <3>2. /\ DOMAIN new = 1..m /\ m \in Nat /\ new[m] = c /\ DOMAIN old = 1..(m - 1)
          /\ \A i \in 1..(m - 1) : new[i] = old[i]
      BY <2>2
    <3>3. \A i \in 1..m : i = m \/ i \in 1..(m - 1)
      BY <3>2
    <3> HIDE DEF new, m
    <3>4. \A i \in DOMAIN old : old[i].source # c.source
      BY <2>9 DEF ToSet
    <3>5. \A j \in 1..k : coverages[j].source # c.source
      BY <2>5, <3>4
    <3>6. \A i \in 1..m : \E j \in 1..(k + 1) : new[i] = coverages[j]
      <4>1. c = coverages[k + 1] /\ k + 1 \in 1..(k + 1)
        BY DEF c
      <4> SUFFICES ASSUME NEW i \in 1..m PROVE \E j \in 1..(k + 1) : new[i] = coverages[j]
        OBVIOUS
      <4>2. CASE i = m
        BY <3>2, <4>1, <4>2
      <4>3. CASE i \in 1..(m - 1)
        <5>1. i \in DOMAIN old /\ new[i] = old[i]
          BY <3>2, <4>3
        <5> QED
          BY <2>5, <2>7, <5>1
      <4> QED
        BY <3>3, <4>2, <4>3
    <3>7. \A j \in 1..(k + 1) : \E i \in 1..m : new[i].source = coverages[j].source
      <4>1. m \in 1..m /\ 1..(m - 1) \subseteq 1..m /\ m > 0
        BY <2>2, <3>2 DEF m
      <4> SUFFICES ASSUME NEW j \in 1..(k + 1) PROVE \E i \in 1..m : new[i].source = coverages[j].source
        OBVIOUS
      <4>2. CASE j = k + 1
        BY <3>2, <4>1, <4>2 DEF c
      <4>3. CASE j \in 1..k
        <5>1. PICK i \in DOMAIN old : old[i].source = coverages[j].source
          BY <2>5, <4>3
        <5>2. i \in 1..m /\ new[i] = old[i]
          BY <3>2, <4>1, <5>1
        <5> QED
          BY <5>1, <5>2
      <4> QED
        BY <2>6, <4>2, <4>3
    <3>8. \A i, j \in 1..m : i < j => new[i].source # new[j].source
      <4> SUFFICES ASSUME NEW i \in 1..m, NEW j \in 1..m, i < j PROVE new[i].source # new[j].source
        OBVIOUS
      <4>1. i \in 1..(m - 1) /\ new[i] = old[i]
        BY <3>2
      <4>2. CASE j = m
        BY <3>2, <3>4, <4>1, <4>2
      <4>3. CASE j \in 1..(m - 1)
        <5>1. new[j] = old[j] /\ i \in DOMAIN old /\ j \in DOMAIN old
          BY <3>2, <4>1, <4>3
        <5> QED
          BY <2>5, <4>1, <5>1
      <4> QED
        BY <3>3, <4>2, <4>3
    <3>9. \A i \in 1..m, j \in 1..(k + 1) :
             coverages[j].source = new[i].source => coverages[j].priority <= new[i].priority
      <4> SUFFICES ASSUME NEW i \in 1..m, NEW j \in 1..(k + 1), coverages[j].source = new[i].source
                   PROVE  coverages[j].priority <= new[i].priority
        OBVIOUS
      <4>1. CASE i = m /\ j = k + 1
        <5>1. new[i] = c /\ coverages[j] = c /\ c.priority \in Int
          BY <2>2, <3>2, <4>1 DEF c, Coverages
        <5> QED
          BY <5>1
      <4>2. CASE i = m /\ j \in 1..k
        BY <3>2, <3>5, <4>2
      <4>3. CASE i \in 1..(m - 1) /\ j = k + 1
        BY <3>2, <3>4, <4>3 DEF c
      <4>4. CASE i \in 1..(m - 1) /\ j \in 1..k
        BY <2>5, <3>2, <4>4
      <4> QED
        BY <2>6, <3>3, <4>1, <4>2, <4>3, <4>4
    <3>10. DOMAIN run[k + 1] = 1..m
      BY <3>1, <3>2
    <3>11. \A i, j \in DOMAIN run[k + 1] : i < j => run[k + 1][i].source # run[k + 1][j].source
      BY <3>1, <3>10, <3>8, Zenon
    <3>12. \A i \in DOMAIN run[k + 1] : \E j \in 1..(k + 1) : run[k + 1][i] = coverages[j]
      BY <3>1, <3>10, <3>6, Zenon
    <3>13. \A j \in 1..(k + 1) : \E i \in DOMAIN run[k + 1] : run[k + 1][i].source = coverages[j].source
      BY <3>1, <3>10, <3>7, Zenon
    <3>14. \A i \in DOMAIN run[k + 1], j \in 1..(k + 1) :
              coverages[j].source = run[k + 1][i].source => coverages[j].priority <= run[k + 1][i].priority
      BY <3>1, <3>10, <3>9, Zenon
    <3> QED
      BY <3>11, <3>12, <3>13, <3>14, Zenon DEF Lasts
  <2> QED
    BY <2>8, <2>9
<1> HIDE DEF A
<1>5. n \in A
  BY <1>2, <1>3, <1>4, InductionOnSet
<1>6. Lasts(n)
  BY <1>2, <1>5 DEF A
<1> DEFINE sources == run[n]
<1>7. /\ \A i \in DOMAIN sources : \E j \in 1..n : sources[i] = coverages[j]
      /\ \A j \in 1..n : \E i \in DOMAIN sources : sources[i].source = coverages[j].source
      /\ \A i, j \in DOMAIN sources : i < j => sources[i].source # sources[j].source
      /\ \A i \in DOMAIN sources, j \in 1..n :
           coverages[j].source = sources[i].source => coverages[j].priority <= sources[i].priority
  BY <1>6 DEF Lasts
<1> HIDE DEF sources
<1>8. {s.source : s \in ToSet(sources)} = {c.source : c \in ToSet(coverages)}
  <2>1. ASSUME NEW s \in ToSet(sources) PROVE s.source \in {c.source : c \in ToSet(coverages)}
    <3>1. PICK i \in DOMAIN sources : s = sources[i]
      BY <2>1 DEF ToSet
    <3>2. PICK j \in 1..n : sources[i] = coverages[j]
      BY <1>7
    <3>3. coverages[j] \in ToSet(coverages)
      BY <1>2 DEF ToSet
    <3> QED
      BY <3>1, <3>2, <3>3
  <2>2. ASSUME NEW c \in ToSet(coverages) PROVE c.source \in {s.source : s \in ToSet(sources)}
    <3>1. PICK j \in 1..n : c = coverages[j]
      BY <1>2, <2>2 DEF ToSet
    <3>2. PICK i \in DOMAIN sources : sources[i].source = c.source
      BY <1>7, <3>1
    <3>3. sources[i] \in ToSet(sources)
      BY DEF ToSet
    <3> QED
      BY <3>2, <3>3
  <2> QED
    BY <2>1, <2>2
<1>9. \A s \in ToSet(sources), c \in ToSet(coverages) : c.source = s.source => c.priority <= s.priority
  <2> SUFFICES ASSUME NEW s \in ToSet(sources), NEW c \in ToSet(coverages), c.source = s.source
               PROVE  c.priority <= s.priority
    OBVIOUS
  <2>1. PICK i \in DOMAIN sources : s = sources[i]
    BY DEF ToSet
  <2>2. PICK j \in 1..n : c = coverages[j]
    BY <1>2 DEF ToSet
  <2> QED
    BY <1>7, <2>1, <2>2
<1>10. Exports!ReliefSources(coverages) = sources
  BY <1>1 DEF sources
<1> QED
  BY <1>7, <1>8, <1>9, <1>10

\* Of lists with one element or none, those with one are counted.
LEMMA OnesAreCounted ==
  ASSUME NEW V, NEW ss \in Seq(Seq(V)), \A k \in 1..Len(ss) : Len(ss[k]) \in {0, 1}
  PROVE  Len(FlattenSeq(ss)) = Cardinality({k \in 1..Len(ss) : Len(ss[k]) = 1})
<1> DEFINE n == Len(ss)
           One(m) == {k \in 1..m : Len(ss[k]) = 1}
<1>1. PICK at : Flat(FlattenSeq(ss), at, ss)
  BY FlatIs
<1>2. /\ n \in Nat /\ at[0] = 0 /\ Len(FlattenSeq(ss)) = at[n]
      /\ \A k \in 1..n : at[k] = at[k - 1] + Len(ss[k]) /\ Len(ss[k]) \in {0, 1}
  BY <1>1 DEF Flat, Laid
<1> HIDE DEF n
<1> DEFINE A == {m \in Nat : m <= n => at[m] = Cardinality(One(m))}
<1>3. 0 \in A
  <2>1. One(0) = {}
    OBVIOUS
  <2> QED
    BY <1>2, <2>1, FS_EmptySet
<1>4. ASSUME NEW m \in Nat, m \in A PROVE m + 1 \in A
  <2> SUFFICES ASSUME m + 1 <= n PROVE at[m + 1] = Cardinality(One(m + 1))
    OBVIOUS
  <2>1. m + 1 \in 1..n /\ m + 1 - 1 = m /\ at[m] = Cardinality(One(m))
    BY <1>2, <1>4
  <2>2. IsFiniteSet(One(m)) /\ Cardinality(One(m)) \in Nat
    <3>1. IsFiniteSet(1..m)
      BY FS_Interval
    <3> QED
      BY <3>1, FS_Subset, FS_CardinalityType
  <2>5. at[m + 1] = at[m] + Len(ss[m + 1]) /\ Len(ss[m + 1]) \in {0, 1}
    BY <1>2, <2>1
  <2>6. \A i \in 1..(m + 1) : i \in 1..m \/ i = m + 1
    OBVIOUS
  <2>7. 1..m \subseteq 1..(m + 1) /\ m + 1 \in 1..(m + 1) /\ m + 1 \notin 1..m
    OBVIOUS
  <2>3. CASE Len(ss[m + 1]) = 1
    <3>1. One(m + 1) = One(m) \cup {m + 1} /\ m + 1 \notin One(m)
      BY <2>3, <2>6, <2>7
    <3>2. Cardinality(One(m + 1)) = Cardinality(One(m)) + 1
      BY <2>2, <3>1, FS_AddElement
    <3> HIDE DEF One
    <3> QED
      BY <2>1, <2>3, <2>5, <3>2
  <2>4. CASE Len(ss[m + 1]) = 0
    <3>1. One(m + 1) = One(m)
      <4>1. Len(ss[m + 1]) # 1
        BY <2>4
      <4>2. \A i : i \in One(m + 1) <=> i \in One(m)
        BY <2>6, <2>7, <4>1
      <4> HIDE DEF One
      <4>3. One(m + 1) \subseteq One(m) /\ One(m) \subseteq One(m + 1)
        BY <4>2
      <4> QED
        BY <4>3
    <3> HIDE DEF One
    <3> QED
      BY <2>1, <2>2, <2>4, <2>5, <3>1
  <2> QED
    BY <2>3, <2>4, <2>5
<1> HIDE DEF A
<1>5. n \in A
  BY <1>2, <1>3, <1>4, InductionOnSet
<1> QED
  BY <1>2, <1>5 DEF A, n

\* What only one of the lists has is found as often as that list is long.
LEMMA OfOneList ==
  ASSUME NEW V, NEW ss \in Seq(Seq(V)), NEW x, NEW m \in 1..Len(ss),
         \A i \in 1..Len(ss[m]) : ss[m][i] = x,
         \A k \in 1..Len(ss) : k # m => \A i \in 1..Len(ss[k]) : ss[k][i] # x
  PROVE  LET flat == FlattenSeq(ss) IN Cardinality({p \in DOMAIN flat : flat[p] = x}) = Len(ss[m])
<1> DEFINE flat == FlattenSeq(ss)
<1>1. flat \in Seq(V)
  BY FlatIs
<1>2. PICK at : Flat(flat, at, ss)
  BY FlatIs
<1> HIDE DEF flat
<1>3. /\ \A k \in 1..Len(ss) : \A i \in 1..Len(ss[k]) : at[k - 1] + i \in DOMAIN flat /\ at[k - 1] + i <= at[k]
      /\ \A p \in DOMAIN flat : \E k \in 1..Len(ss) : \E i \in 1..Len(ss[k]) : p = at[k - 1] + i
  <2>1. Placed(flat, at, ss)
    BY <1>1, <1>2, FlatPlaces
  <2> QED
    BY <2>1 DEF Placed
<1>8. \A k \in 0..Len(ss) : at[k] \in Nat
  BY <1>2 DEF Flat, Laid
<1>4. \A k \in 1..Len(ss) : \A i \in 1..Len(ss[k]) : flat[at[k - 1] + i] = ss[k][i]
  BY <1>2 DEF Flat
<1>5. at[m] = at[m - 1] + Len(ss[m]) /\ Len(ss[m]) \in Nat /\ at[m - 1] \in Nat
  <2>1. m - 1 \in 0..Len(ss)
    OBVIOUS
  <2> QED
    BY <1>2, <1>8, <2>1 DEF Flat, Laid
<1>6. {p \in DOMAIN flat : flat[p] = x} = (at[m - 1] + 1)..at[m]
  <2>1. ASSUME NEW p \in DOMAIN flat, flat[p] = x PROVE p \in (at[m - 1] + 1)..at[m]
    <3>1. PICK k \in 1..Len(ss) : \E i \in 1..Len(ss[k]) : p = at[k - 1] + i
      BY <1>3
    <3>2. PICK i \in 1..Len(ss[k]) : p = at[k - 1] + i
      BY <3>1
    <3>3. ss[k][i] = x
      BY <1>4, <2>1, <3>2
    <3>4. k = m
      BY <3>3
    <3>5. p = at[m - 1] + i /\ i \in 1..Len(ss[m])
      BY <3>2, <3>4
    <3> DEFINE a == at[m - 1]
               b == at[m]
               l == Len(ss[m])
    <3>6. a \in Nat /\ l \in Nat /\ b = a + l /\ i \in 1..l /\ p = a + i
      BY <1>5, <3>5
    <3> HIDE DEF a, b, l
    <3>7. p \in (a + 1)..b
      BY <3>6
    <3> QED
      BY <3>7 DEF a, b
  <2>2. ASSUME NEW p \in (at[m - 1] + 1)..at[m] PROVE p \in DOMAIN flat /\ flat[p] = x
    <3>1. p - at[m - 1] \in 1..Len(ss[m]) /\ at[m - 1] + (p - at[m - 1]) = p
      BY <1>5
    <3>2. at[m - 1] + (p - at[m - 1]) \in DOMAIN flat
      BY <1>3, <3>1
    <3>3. flat[at[m - 1] + (p - at[m - 1])] = ss[m][p - at[m - 1]]
      BY <1>4, <3>1
    <3>4. ss[m][p - at[m - 1]] = x
      BY <3>1
    <3> QED
      BY <3>1, <3>2, <3>3, <3>4
  <2> QED
    BY <2>1, <2>2
<1>7. Cardinality((at[m - 1] + 1)..at[m]) = Len(ss[m])
  <2> DEFINE a == at[m - 1]
             b == at[m]
             l == Len(ss[m])
  <2>1. a \in Nat /\ l \in Nat /\ b = a + l
    BY <1>5
  <2> HIDE DEF a, b, l
  <2>2. a + 1 \in Int /\ b \in Int
    BY <2>1
  <2>3. Cardinality((a + 1)..b) = IF a + 1 > b THEN 0 ELSE b - (a + 1) + 1
    BY <2>2, FS_Interval
  <2>4. Cardinality((a + 1)..b) = l
    <3>1. CASE l = 0
      BY <2>1, <2>3, <3>1
    <3>2. CASE l # 0
      BY <2>1, <2>3, <3>2
    <3> QED
      BY <3>1, <3>2
  <2> QED
    BY <2>4 DEF a, b, l
<1> QED
  BY <1>6, <1>7 DEF flat

\* Every key becomes a file or is told missing.
LEMMA NoKeyIsLost ==
  ASSUME NEW keys \in Seq(STRING), NEW stored, NEW name,
         \A i, j \in DOMAIN keys : name[keys[i]] = name[keys[j]] => i = j
  PROVE  LET out == Exports!ExportToFolder(keys, stored, name)
         IN  Cardinality(out.files) + Len(out.missing) = Len(keys)
<1> DEFINE n == Len(keys)
           out == Exports!ExportToFolder(keys, stored, name)
           ss == [i \in DOMAIN keys |-> IF keys[i] \in stored THEN <<>> ELSE <<keys[i]>>]
           P == {j \in DOMAIN keys : keys[j] \in stored}
           Q == {j \in 1..n : Len(ss[j]) = 1}
           f == [i \in P |-> name[keys[i]]]
<1>1. n \in Nat /\ DOMAIN keys = 1..n /\ \A i \in 1..n : keys[i] \in STRING
  OBVIOUS
<1>2. ss \in Seq(Seq(STRING)) /\ Len(ss) = n /\ \A i \in 1..n : Len(ss[i]) = IF keys[i] \in stored THEN 0 ELSE 1
  <2>1. \A i \in DOMAIN keys : (IF keys[i] \in stored THEN <<>> ELSE <<keys[i]>>) \in Seq(STRING)
    <3> SUFFICES ASSUME NEW i \in DOMAIN keys
                 PROVE  (IF keys[i] \in stored THEN <<>> ELSE <<keys[i]>>) \in Seq(STRING)
      OBVIOUS
    <3> DEFINE k == keys[i]
    <3>1. k \in STRING
      BY <1>1
    <3> HIDE DEF k
    <3>2. <<>> \in Seq(STRING) /\ <<k>> \in Seq(STRING)
      BY <3>1
    <3> QED
      BY <3>2 DEF k
  <2>2. ss \in [1..n -> Seq(STRING)]
    BY <1>1, <2>1
  <2> QED
    BY <1>1, <2>2
<1>3. out.files = {name[keys[i]] : i \in P} /\ out.missing = FlattenSeq(ss)
  BY OutputsFlat DEF Exports!ExportToFolder
<1> HIDE DEF ss, out, n
<1>4. Len(out.missing) = Cardinality(Q)
  <2>1. \A i \in 1..Len(ss) : Len(ss[i]) \in {0, 1}
    BY <1>2
  <2> QED
    BY <1>2, <1>3, <2>1, OnesAreCounted
<1>5. P \cup Q = 1..n /\ P \cap Q = {}
  <2>1. \A i \in 1..n : (i \in P <=> keys[i] \in stored) /\ (i \in Q <=> ~(keys[i] \in stored))
    <3>1. \A i \in 1..n : i \in P <=> keys[i] \in stored
      BY <1>1
    <3>2. \A i \in 1..n : i \in Q <=> Len(ss[i]) = 1
      OBVIOUS
    <3>3. \A i \in 1..n : Len(ss[i]) = 1 <=> ~(keys[i] \in stored)
      <4>1. \A i \in 1..n : Len(ss[i]) = IF keys[i] \in stored THEN 0 ELSE 1
        BY <1>2
      <4>2. ASSUME NEW i \in 1..n PROVE Len(ss[i]) = 1 <=> ~(keys[i] \in stored)
        <5>1. Len(ss[i]) = IF keys[i] \in stored THEN 0 ELSE 1
          BY <4>1
        <5> DEFINE l == Len(ss[i])
                   Is == keys[i] \in stored
        <5> HIDE DEF l, Is
        <5>2. l = IF Is THEN 0 ELSE 1
          BY <5>1 DEF l, Is
        <5>3. l = 1 <=> ~Is
          BY <5>2
        <5>4. CASE keys[i] \in stored
          BY <5>4, <5>3 DEF l, Is
        <5>5. CASE ~(keys[i] \in stored)
          BY <5>5, <5>3 DEF l, Is
        <5> QED
          BY <5>4, <5>5
      <4> QED
        BY <4>2
    <3> QED
      BY <3>1, <3>2, <3>3
  <2>2. P \subseteq 1..n /\ Q \subseteq 1..n
    BY <1>1
  <2> HIDE DEF P, Q
  <2> QED
    BY <2>1, <2>2
<1>6. IsFiniteSet(1..n) /\ Cardinality(1..n) = n
  BY <1>1, FS_Interval
<1>7. IsFiniteSet(P) /\ IsFiniteSet(Q)
  BY <1>5, <1>6, FS_Subset
<1>8. Cardinality(1..n) = Cardinality(P) + Cardinality(Q)
  <2>1. Cardinality(P \cup Q) = Cardinality(P) + Cardinality(Q) - Cardinality(P \cap Q)
    BY <1>7, FS_Union
  <2>2. Cardinality(P \cap Q) = 0 /\ Cardinality(P) \in Nat /\ Cardinality(Q) \in Nat
    BY <1>5, <1>7, FS_EmptySet, FS_CardinalityType
  <2>3. Cardinality(P \cup Q) = Cardinality(P) + Cardinality(Q)
    BY <2>1, <2>2
  <2> QED
    BY <1>5, <2>3, Zenon
<1>9. Cardinality(out.files) = Cardinality(P)
  <2>1. out.files = {f[i] : i \in P}
    BY <1>3
  <2>2. \A x, y \in P : f[x] = f[y] => x = y
    OBVIOUS
  <2> HIDE DEF f, P
  <2> QED
    BY <1>7, <2>1, <2>2, OneToOne
<1> QED
  BY <1>4, <1>6, <1>8, <1>9 DEF out, n

\* A source is named once by its best coverage, and every key has a link or is told to be missing.
LEMMA ListsAreAlwaysComplete ==
  ASSUME NEW coverages \in Seq(Coverages),
         \A i, j \in DOMAIN coverages : i < j => coverages[j].priority <= coverages[i].priority,
         NEW keys \in Seq(STRING), NEW stored, NEW name,
         \A i, j \in DOMAIN keys : name[keys[i]] = name[keys[j]] => i = j
  PROVE  Exports!ListsAreComplete(coverages, keys, stored, name)
<1>1. LET sources == Exports!ReliefSources(coverages)
      IN  /\ {s.source : s \in ToSet(sources)} = {c.source : c \in ToSet(coverages)}
          /\ \A i, j \in DOMAIN sources : i < j => sources[i].source # sources[j].source
          /\ \A s \in ToSet(sources), c \in ToSet(coverages) : c.source = s.source => c.priority <= s.priority
  BY SourcesAreOnce
<1>2. LET out == Exports!ExportToFolder(keys, stored, name)
      IN  Cardinality(out.files) + Len(out.missing) = Len(keys)
  BY NoKeyIsLost
<1>3. \A s : Exports!ToSet(s) = ToSet(s)
  BY OutputsSet
<1>4. \A S : Exports!Cardinality(S) = Cardinality(S)
  BY OutputsCount
<1> QED
  BY <1>1, <1>2, <1>3, <1>4 DEF Exports!ListsAreComplete
-----------------------------------------------------------------------------
(* Lines and surfaces (LandXML, DXF).                                       *)

SiteLines == [id : Int, axis : BOOLEAN, length : Int, rings : Seq(Nat)]

\* A row of a file: what is drawn, and its number.
FileLabels == {"buildings", "roads", "road", "track"}

FileRows == FileLabels \X Int

\* A sum is a number.
LEMMA TotalType == ASSUME NEW s \in Seq(Nat) PROVE Exports!Total(s) \in Nat
<1>1. PICK at : Sums(at, s) /\ Exports!Total(s) = at[Len(s)]
  BY TotalIs
<1>2. Len(s) \in 0..Len(s)
  OBVIOUS
<1> QED
  BY <1>1, <1>2 DEF Sums

\* A feature has an outline for each of its rings.
LEMMA OutlinesAre ==
  ASSUME NEW f, f.id \in Int, NEW rings \in Seq(Nat), NEW layer \in FileLabels
  PROVE  LET out == Exports!PolygonOutlines(f, rings, layer)
         IN  /\ out \in Seq(FileRows) /\ Len(out) = Exports!Total(rings)
             /\ \A i \in 1..Len(out) : out[i] = <<layer, f.id>>
<1> DEFINE n == Exports!Total(rings)
           out == Exports!PolygonOutlines(f, rings, layer)
           x == <<layer, f.id>>
<1>1. n \in Nat
  BY TotalType
<1>2. out = [i \in 1..n |-> x]
  BY DEF Exports!PolygonOutlines
<1>3. x \in FileRows
  BY DEF FileRows
<1> HIDE DEF n, out, x
<1>4. out \in Seq(FileRows) /\ Len(out) = n /\ \A i \in 1..n : out[i] = x
  BY <1>1, <1>2, <1>3
<1> QED
  BY <1>4 DEF n, out, x

\* Nothing is made of nothing.
LEMMA NothingIsMade == ASSUME NEW f PROVE [i \in DOMAIN <<>> |-> f[i]] = <<>>
OBVIOUS

\* Roads alone.
LEMMA DxfOfRoads ==
  ASSUME NEW roads \in Seq(SiteLines)
  PROVE  LET ss == [i \in DOMAIN roads |-> Exports!PolygonOutlines(roads[i], roads[i].rings, "roads")]
         IN  /\ Exports!BuildDxf(<<>>, roads, <<>>, <<>>) = FlattenSeq(ss)
             /\ ss \in Seq(Seq(FileRows)) /\ Len(ss) = Len(roads)
<1> DEFINE ss == [i \in DOMAIN roads |-> Exports!PolygonOutlines(roads[i], roads[i].rings, "roads")]
           n == Len(roads)
<1>1. n \in Nat /\ DOMAIN roads = 1..n /\ \A i \in 1..n : roads[i].id \in Int /\ roads[i].rings \in Seq(Nat)
  <2>1. \A l \in SiteLines : l.id \in Int /\ l.rings \in Seq(Nat)
    BY DEF SiteLines
  <2>2. n \in Nat /\ DOMAIN roads = 1..n /\ \A i \in 1..n : roads[i] \in SiteLines
    OBVIOUS
  <2> QED
    BY <2>1, <2>2
<1>2. ss \in Seq(Seq(FileRows)) /\ Len(ss) = n
  <2>1. \A i \in 1..n : Exports!PolygonOutlines(roads[i], roads[i].rings, "roads") \in Seq(FileRows)
    <3>1. "roads" \in FileLabels
      BY DEF FileLabels
    <3> QED
      BY <1>1, <3>1, OutlinesAre
  <2>2. ss \in [1..n -> Seq(FileRows)]
    BY <1>1, <2>1
  <2> QED
    BY <1>1, <2>2
<1>3. FlattenSeq(ss) \in Seq(FileRows)
  BY <1>2, FlatIs
<1>4. Exports!BuildDxf(<<>>, roads, <<>>, <<>>) = <<>> \o FlattenSeq(ss) \o <<>> \o <<>>
  <2> DEFINE a == [i \in DOMAIN <<>> |-> Exports!PolygonOutlines(<<>>[i], <<Len(<<>>[i].rings)>>, "buildings")]
             b == [i \in DOMAIN <<>> |-> Exports!PolygonOutlines(<<>>[i], <<>>[i].rings, "water")]
  <2>1. a = <<>> /\ b = <<>>
    OBVIOUS
  <2>2. Exports!FlattenSeq(a) = <<>> /\ Exports!FlattenSeq(b) = <<>>
    BY <2>1, OutputsFlat, NothingIsFlat
  <2>3. Exports!BuildDxf(<<>>, roads, <<>>, <<>>)
          = Exports!FlattenSeq(a) \o Exports!FlattenSeq(ss) \o Exports!FlattenSeq(b) \o Exports!FlattenSeq(b)
    BY DEF Exports!BuildDxf
  <2> HIDE DEF a, b, ss
  <2> QED
    BY <2>2, <2>3, OutputsFlat
<1> HIDE DEF ss, n
<1> DEFINE flat == FlattenSeq(ss)
<1>5. <<>> \o flat \o <<>> \o <<>> = flat
  <2>1. flat \in Seq(FileRows)
    BY <1>3
  <2> HIDE DEF flat
  <2>2. <<>> \o flat = flat /\ flat \o <<>> = flat
    BY <2>1, ConcatEmptySeq
  <2> QED
    BY <2>2
<1> QED
  BY <1>2, <1>4, <1>5 DEF ss, n

\* The alignments are of the lines that have one.
LEMMA AlignmentsAre ==
  ASSUME NEW lines \in Seq(SiteLines), NEW prefix \in FileLabels
  PROVE  LET out == Exports!Alignments(lines, prefix)
         IN  /\ out \in Seq(FileRows)
             /\ \A x : x \in ToSet(out) <=>
                  \E i \in DOMAIN lines : Exports!HasAlignment(lines[i]) /\ x = <<prefix, lines[i].id>>
<1> DEFINE n == Len(lines)
           ss == [i \in DOMAIN lines |-> IF Exports!HasAlignment(lines[i]) THEN <<<<prefix, lines[i].id>>>> ELSE <<>>]
           out == Exports!Alignments(lines, prefix)
<1>1. n \in Nat /\ DOMAIN lines = 1..n /\ \A i \in 1..n : <<prefix, lines[i].id>> \in FileRows
  <2>1. \A l \in SiteLines : l.id \in Int
    BY DEF SiteLines
  <2>2. n \in Nat /\ DOMAIN lines = 1..n /\ \A i \in 1..n : lines[i] \in SiteLines
    OBVIOUS
  <2>3. \A i \in 1..n : lines[i].id \in Int
    BY <2>1, <2>2
  <2> QED
    BY <2>2, <2>3 DEF FileRows
<1>2. out = FlattenSeq(ss)
  BY OutputsFlat DEF Exports!Alignments
<1>3. ss \in Seq(Seq(FileRows)) /\ DOMAIN ss = 1..n
  <2>1. ASSUME NEW i \in 1..n PROVE ss[i] \in Seq(FileRows)
    <3> DEFINE x == <<prefix, lines[i].id>>
    <3>1. x \in FileRows
      BY <1>1
    <3>2. ss[i] = IF Exports!HasAlignment(lines[i]) THEN <<x>> ELSE <<>>
      BY <1>1
    <3> HIDE DEF x, ss
    <3>3. <<x>> \in Seq(FileRows) /\ <<>> \in Seq(FileRows)
      BY <3>1
    <3> QED
      BY <3>2, <3>3
  <2>2. ss = [i \in 1..n |-> ss[i]]
    BY <1>1
  <2> HIDE DEF ss
  <2>3. ss \in [1..n -> Seq(FileRows)]
    BY <2>1, <2>2
  <2> QED
    BY <1>1, <2>3
<1>4. \A i \in 1..n : \A x : x \in ToSet(ss[i]) <=> Exports!HasAlignment(lines[i]) /\ x = <<prefix, lines[i].id>>
  <2> SUFFICES ASSUME NEW i \in 1..n, NEW x
               PROVE  x \in ToSet(ss[i]) <=> Exports!HasAlignment(lines[i]) /\ x = <<prefix, lines[i].id>>
    OBVIOUS
  <2> DEFINE y == <<prefix, lines[i].id>>
  <2>1. ss[i] = IF Exports!HasAlignment(lines[i]) THEN <<y>> ELSE <<>>
    BY <1>1
  <2> HIDE DEF y, ss
  <2>2. ToSet(<<y>>) = {y} /\ ToSet(<<>>) = {}
    BY DEF ToSet
  <2>3. x \in ToSet(ss[i]) <=> Exports!HasAlignment(lines[i]) /\ x = y
    BY <2>1, <2>2
  <2> QED
    BY <2>3 DEF y
<1> HIDE DEF ss, n, out
<1>5. \A x : x \in ToSet(out) <=> \E k \in DOMAIN ss : x \in ToSet(ss[k])
  BY <1>2, <1>3, FlatSet
<1>6. out \in Seq(FileRows)
  BY <1>2, <1>3, FlatIs
<1> QED
  BY <1>1, <1>3, <1>4, <1>5, <1>6 DEF out

\* The triangles of a surface, as LandXML counts their points.
LEMMA SurfaceIsKept ==
  ASSUME NEW v \in Nat, NEW triangles, IsFiniteSet(triangles),
         triangles \subseteq (0..(v - 1)) \X (0..(v - 1)) \X (0..(v - 1))
  PROVE  LET faces == Exports!SurfaceFaces(triangles)
         IN  /\ Cardinality(faces) = Cardinality(triangles)
             /\ UNION {{f[k] : k \in 1..3} : f \in faces} \subseteq 1..v
<1> DEFINE faces == Exports!SurfaceFaces(triangles)
           g == [t \in triangles |-> [k \in 1..3 |-> t[k] + 1]]
<1>1. \A t \in triangles : /\ t = <<t[1], t[2], t[3]>>
                           /\ \A k \in 1..3 : t[k] \in 0..(v - 1)
  OBVIOUS
<1>2. faces = {g[t] : t \in triangles}
  BY DEF Exports!SurfaceFaces
<1>3. \A t \in triangles : \A k \in 1..3 : g[t][k] = t[k] + 1
  OBVIOUS
<1> HIDE DEF faces, g
<1>4. ASSUME NEW t \in triangles, NEW u \in triangles, g[t] = g[u] PROVE t = u
  <2>1. 1 \in 1..3 /\ 2 \in 1..3 /\ 3 \in 1..3
    OBVIOUS
  <2>2. t[1] + 1 = u[1] + 1 /\ t[2] + 1 = u[2] + 1 /\ t[3] + 1 = u[3] + 1
    BY <1>3, <1>4, <2>1
  <2>3. t[1] \in Int /\ t[2] \in Int /\ t[3] \in Int /\ u[1] \in Int /\ u[2] \in Int /\ u[3] \in Int
    BY <1>1, <2>1
  <2>4. t[1] = u[1] /\ t[2] = u[2] /\ t[3] = u[3]
    BY <2>2, <2>3
  <2>5. t = <<t[1], t[2], t[3]>> /\ u = <<u[1], u[2], u[3]>>
    BY <1>1
  <2> QED
    BY <2>4, <2>5, Zenon
<1>5. Cardinality(faces) = Cardinality(triangles)
  BY <1>2, <1>4, OneToOne
<1>6. \A f \in faces : \A k \in 1..3 : f[k] \in 1..v
  <2> SUFFICES ASSUME NEW t \in triangles, NEW k \in 1..3 PROVE g[t][k] \in 1..v
    BY <1>2
  <2>1. g[t][k] = t[k] + 1 /\ t[k] \in 0..(v - 1)
    BY <1>1, <1>3
  <2> QED
    BY <2>1
<1>7. UNION {{f[k] : k \in 1..3} : f \in faces} \subseteq 1..v
  BY <1>6
<1> QED
  BY <1>5, <1>7 DEF faces

\* Two lists have the elements of both.
LEMMA InBoth ==
  ASSUME NEW V, NEW s \in Seq(V), NEW t \in Seq(V)
  PROVE  \A y : y \in ToSet(s \o t) <=> y \in ToSet(s) \/ y \in ToSet(t)
<1>1. /\ s \o t \in Seq(V) /\ Len(s \o t) = Len(s) + Len(t)
      /\ \A i \in 1..(Len(s) + Len(t)) : (s \o t)[i] = IF i <= Len(s) THEN s[i] ELSE t[i - Len(s)]
  BY ConcatProperties
<1>2. DOMAIN s = 1..Len(s) /\ DOMAIN t = 1..Len(t) /\ DOMAIN (s \o t) = 1..(Len(s) + Len(t))
      /\ Len(s) \in Nat /\ Len(t) \in Nat
  BY <1>1
<1>3. ASSUME NEW y \in ToSet(s \o t) PROVE y \in ToSet(s) \/ y \in ToSet(t)
  <2>1. PICK i \in 1..(Len(s) + Len(t)) : y = (s \o t)[i]
    BY <1>2, <1>3 DEF ToSet
  <2>2. CASE i <= Len(s)
    <3>1. y = s[i] /\ i \in DOMAIN s
      BY <1>1, <1>2, <2>1, <2>2
    <3> QED
      BY <3>1 DEF ToSet
  <2>3. CASE ~(i <= Len(s))
    <3>1. y = t[i - Len(s)] /\ i - Len(s) \in DOMAIN t
      BY <1>1, <1>2, <2>1, <2>3
    <3> QED
      BY <3>1 DEF ToSet
  <2> QED
    BY <2>2, <2>3
<1>4. ASSUME NEW y \in ToSet(s) PROVE y \in ToSet(s \o t)
  <2>1. PICK i \in DOMAIN s : y = s[i]
    BY <1>4 DEF ToSet
  <2>2. i \in DOMAIN (s \o t) /\ (s \o t)[i] = y
    BY <1>1, <1>2, <2>1
  <2> QED
    BY <2>2 DEF ToSet
<1>5. ASSUME NEW y \in ToSet(t) PROVE y \in ToSet(s \o t)
  <2>1. PICK i \in DOMAIN t : y = t[i]
    BY <1>5 DEF ToSet
  <2>2. i + Len(s) \in DOMAIN (s \o t) /\ ~(i + Len(s) <= Len(s)) /\ i + Len(s) - Len(s) = i
    BY <1>2, <2>1
  <2>3. (s \o t)[i + Len(s)] = y
    BY <1>1, <1>2, <2>1, <2>2
  <2> QED
    BY <2>2, <2>3 DEF ToSet
<1> QED
  BY <1>3, <1>4, <1>5

\* The surface, the alignments and the drawing are of the same site.
LEMMA LinesAlwaysAgree ==
  ASSUME NEW tin, tin.vertices \in Nat, IsFiniteSet(tin.triangles),
         tin.triangles \subseteq (0..(tin.vertices - 1)) \X (0..(tin.vertices - 1)) \X (0..(tin.vertices - 1)),
         NEW roads \in Seq(SiteLines), NEW rail \in Seq(SiteLines),
         \A i, j \in DOMAIN roads : roads[i].id = roads[j].id => i = j
  PROVE  Exports!LinesAgree(tin, roads, rail)
<1> DEFINE xml == Exports!BuildLandXml(tin, roads, rail)
           dxf == Exports!BuildDxf(<<>>, roads, <<>>, <<>>)
           ss == [i \in DOMAIN roads |-> Exports!PolygonOutlines(roads[i], roads[i].rings, "roads")]
           n == Len(roads)
           a == Exports!Alignments(roads, "road")
           b == Exports!Alignments(rail, "track")
<1>1. n \in Nat /\ DOMAIN roads = 1..n /\ \A i \in 1..n : roads[i].id \in Int /\ roads[i].rings \in Seq(Nat)
  <2>1. \A l \in SiteLines : l.id \in Int /\ l.rings \in Seq(Nat)
    BY DEF SiteLines
  <2>2. n \in Nat /\ DOMAIN roads = 1..n /\ \A i \in 1..n : roads[i] \in SiteLines
    OBVIOUS
  <2> QED
    BY <2>1, <2>2
<1>2. xml.faces = Exports!SurfaceFaces(tin.triangles) /\ xml.points = 1..tin.vertices /\ xml.alignments = a \o b
  BY DEF Exports!BuildLandXml
<1>3. /\ Cardinality(xml.faces) = Cardinality(tin.triangles)
      /\ UNION {{f[k] : k \in 1..3} : f \in xml.faces} \subseteq xml.points
  BY <1>2, SurfaceIsKept
<1>4. "roads" \in FileLabels /\ "road" \in FileLabels /\ "track" \in FileLabels
  BY DEF FileLabels
<1>5. /\ a \in Seq(FileRows) /\ b \in Seq(FileRows)
      /\ \A x : x \in ToSet(a) <=> \E i \in DOMAIN roads : Exports!HasAlignment(roads[i]) /\ x = <<"road", roads[i].id>>
      /\ \A x : x \in ToSet(b) <=> \E i \in DOMAIN rail : Exports!HasAlignment(rail[i]) /\ x = <<"track", rail[i].id>>
  BY <1>4, AlignmentsAre
<1>6. dxf = FlattenSeq(ss) /\ ss \in Seq(Seq(FileRows)) /\ Len(ss) = n
  BY DxfOfRoads
<1>7. \A i \in 1..n : /\ Len(ss[i]) = Exports!Total(roads[i].rings)
                      /\ \A j \in 1..Len(ss[i]) : ss[i][j] = <<"roads", roads[i].id>>
  <2> SUFFICES ASSUME NEW i \in 1..n
               PROVE  /\ Len(ss[i]) = Exports!Total(roads[i].rings)
                      /\ \A j \in 1..Len(ss[i]) : ss[i][j] = <<"roads", roads[i].id>>
    OBVIOUS
  <2>1. ss[i] = Exports!PolygonOutlines(roads[i], roads[i].rings, "roads")
    BY <1>1
  <2> DEFINE out == Exports!PolygonOutlines(roads[i], roads[i].rings, "roads")
  <2>2. Len(out) = Exports!Total(roads[i].rings) /\ \A j \in 1..Len(out) : out[j] = <<"roads", roads[i].id>>
    BY <1>1, <1>4, OutlinesAre
  <2> HIDE DEF out, ss
  <2> QED
    BY <2>1, <2>2 DEF out
<1> HIDE DEF ss, dxf, xml, a, b, n
<1>8. ASSUME NEW i \in 1..n PROVE Cardinality({p \in DOMAIN dxf : dxf[p] = <<"roads", roads[i].id>>}) = Exports!Total(roads[i].rings)
  <2> DEFINE x == <<"roads", roads[i].id>>
  <2>1. \A j \in 1..Len(ss[i]) : ss[i][j] = x
    BY <1>7
  <2>2. ASSUME NEW k \in 1..n, k # i, NEW j \in 1..Len(ss[k]) PROVE ss[k][j] # x
    <3>1. ss[k][j] = <<"roads", roads[k].id>>
      BY <1>7
    <3>2. roads[k].id # roads[i].id
      BY <1>1, <2>2
    <3> QED
      BY <3>1, <3>2
  <2> HIDE DEF x
  <2>4. i \in 1..Len(ss) /\ \A k \in 1..Len(ss) : k # i => \A j \in 1..Len(ss[k]) : ss[k][j] # x
    BY <1>6, <2>2
  <2>5. LET flat == FlattenSeq(ss) IN Cardinality({p \in DOMAIN flat : flat[p] = x}) = Len(ss[i])
    BY <1>6, <2>1, <2>4, OfOneList
  <2>3. Cardinality({p \in DOMAIN dxf : dxf[p] = x}) = Len(ss[i])
    BY <1>6, <2>5
  <2> QED
    BY <1>7, <2>3 DEF x
<1>9. ASSUME NEW i \in 1..n
      PROVE  (<<"road", roads[i].id>> \in ToSet(xml.alignments)) <=> Exports!HasAlignment(roads[i])
  <2> DEFINE x == <<"road", roads[i].id>>
  <2>1. \A y : y \in ToSet(a \o b) <=> y \in ToSet(a) \/ y \in ToSet(b)
    BY <1>5, InBoth
  <2>2. x \notin ToSet(b)
    BY <1>5
  <2>3. x \in ToSet(a) <=> Exports!HasAlignment(roads[i])
    <3>1. ASSUME NEW j \in 1..n, x = <<"road", roads[j].id>> PROVE j = i
      BY <1>1, <3>1
    <3> QED
      BY <1>1, <1>5, <3>1
  <2> QED
    BY <1>2, <2>1, <2>2, <2>3
<1>10. /\ Exports!Cardinality(xml.faces) = Exports!Cardinality(tin.triangles)
       /\ UNION {{f[k] : k \in 1..3} : f \in xml.faces} \subseteq xml.points
  BY <1>3, OutputsCount
<1>11. ASSUME NEW r \in Exports!ToSet(roads)
       PROVE  /\ (<<"road", r.id>> \in Exports!ToSet(xml.alignments)) <=> Exports!HasAlignment(r)
              /\ Exports!Cardinality({i \in DOMAIN dxf : dxf[i] = <<"roads", r.id>>}) = Exports!Total(r.rings)
  <2>1. PICK i \in 1..n : r = roads[i]
    BY <1>1 DEF Exports!ToSet
  <2> QED
    BY <1>8, <1>9, <2>1, OutputsSet, OutputsCount
<1> QED
  BY <1>10, <1>11 DEF Exports!LinesAgree, xml, dxf
-----------------------------------------------------------------------------
(* Heights of pavement and paint.                                           *)

\* Pavement and paint lie over the ground as far as they promise.
LEMMA PavementIsAlwaysOnTop ==
  ASSUME NEW long \in Nat, NEW short \in Nat, NEW ground \in Int, NEW offset \in Nat, 2 * offset <= short,
         ground = Assembly!Unknown
           \/ ground + Assembly!PAVEMENT_CLEARANCE + Assembly!MARKING_CLEARANCE < Assembly!Unknown
  PROVE  Assembly!PavementIsOnTop(long, short, ground, offset)
  BY SMTT(60) DEF Assembly!PavementIsOnTop, Assembly!HasAxis, Assembly!LaneElevation, Assembly!PavementElevation,
         Assembly!MarkingElevation, Assembly!Drawn, Assembly!Unknown, Assembly!PAVEMENT_CLEARANCE,
         Assembly!MARKING_CLEARANCE, Assembly!LANE_CROSS_SLOPE
-----------------------------------------------------------------------------
(* The model of the city (CityJSON).                                        *)

\* A building has an outline, and yards.
CityBuildings == [id : Int, rings : Seq(Nat \ {0}) \ {<<>>}, flat : BOOLEAN, roof : Nat]

CityRanges == [from : Nat, to : Nat]

CityObjects == [lod0 : CityRanges, lod1 : CityRanges, lod2 : CityRanges]

CityDocs == [count : Nat, objects : UNION {[I -> CityObjects] : I \in SUBSET Int}]

\* What has elements sums up to something.
LEMMA TotalIsMore ==
  ASSUME NEW s \in Seq(Nat \ {0}), s # <<>>
  PROVE  Exports!Total(s) \in Nat /\ Exports!Total(s) > 0
<1>1. s \in Seq(Nat) /\ Len(s) \in Nat /\ Len(s) > 0
  OBVIOUS
<1>2. PICK at : Sums(at, s) /\ Exports!Total(s) = at[Len(s)]
  BY <1>1, TotalIs
<1>3. Len(s) \in 1..Len(s) /\ Len(s) - 1 \in 0..Len(s) /\ Len(s) \in 0..Len(s)
  BY <1>1
<1>4. s[Len(s)] \in Nat /\ s[Len(s)] > 0
  BY <1>3
<1>5. at[Len(s)] = at[Len(s) - 1] + s[Len(s)] /\ at[Len(s) - 1] \in Nat
  BY <1>2, <1>3 DEF Sums
<1> QED
  BY <1>2, <1>4, <1>5

\* The object of a building and what it adds to the vertices.
LEMMA CityObjectIs ==
  ASSUME NEW b \in CityBuildings, NEW count \in Nat
  PROVE  /\ Exports!CityObject(b, count) \in CityObjects
         /\ Exports!Total(b.rings) \in Nat /\ Exports!Total(b.rings) > 0
         /\ Exports!Lod2Vertices(b) \in Nat /\ b.id \in Int
<1>1. Exports!Total(b.rings) \in Nat /\ Exports!Total(b.rings) > 0 /\ b.id \in Int /\ b.roof \in Nat
  BY TotalIsMore DEF CityBuildings
<1>2. Exports!Lod2Vertices(b) \in Nat
  BY <1>1 DEF Exports!Lod2Vertices
<1> QED
  BY <1>1, <1>2 DEF Exports!CityObject, Exports!Range2, CityObjects, CityRanges

\* build_cityjson takes the buildings one after the other.
CityRun(run, buildings) ==
  /\ run \in [0..Len(buildings) -> CityDocs] /\ run[0] = [count |-> 0, objects |-> <<>>]
  /\ \A k \in 1..Len(buildings) : run[k] = LET object == Exports!CityObject(buildings[k], run[k - 1].count)
             IN  [count   |-> run[k - 1].count + 3 * Exports!Total(buildings[k].rings) + Exports!Lod2Vertices(buildings[k]),
                  objects |-> [id \in DOMAIN run[k - 1].objects \cup {buildings[k].id} |->
                                 IF id = buildings[k].id THEN object ELSE run[k - 1].objects[id]]]

\* So there is a document after each of them.
LEMMA CityJsonIs ==
  ASSUME NEW buildings \in Seq(CityBuildings)
  PROVE  \E run : CityRun(run, buildings) /\ Exports!BuildCityJson(buildings) = run[Len(buildings)]
<1> DEFINE n == Len(buildings)
           S == 1..n
           D == DOMAIN buildings
           V == CityDocs
           Op(v, k) == LET object == Exports!CityObject(buildings[k], v.count)
             IN  [count   |-> v.count + 3 * Exports!Total(buildings[k].rings) + Exports!Lod2Vertices(buildings[k]),
                  objects |-> [id \in DOMAIN v.objects \cup {buildings[k].id} |->
                                 IF id = buildings[k].id THEN object ELSE v.objects[id]]]
           step == [k \in S |-> [v \in V |-> Op(v, k)]]
           Folds(f) == f = [T \in SUBSET D |-> IF T = {} THEN [count |-> 0, objects |-> <<>>] ELSE Op(f[T \ {Exports!Max(T)}], Exports!Max(T))]
           f == CHOOSE f : Folds(f)
<1>1. n \in Nat /\ D = S /\ \A k \in S : buildings[k] \in CityBuildings
  OBVIOUS
<1>2. [count |-> 0, objects |-> <<>>] \in V
  <2>1. <<>> \in [{} -> CityObjects] /\ {} \in SUBSET Int
    OBVIOUS
  <2> QED
    BY <2>1 DEF CityDocs
<1>3. \A k \in S, v \in V : Op(v, k) \in V
  <2> SUFFICES ASSUME NEW k \in S, NEW v \in V PROVE Op(v, k) \in V
    OBVIOUS
  <2> DEFINE b == buildings[k]
             object == Exports!CityObject(b, v.count)
             more == Exports!Total(b.rings)
             top == Exports!Lod2Vertices(b)
             ids == DOMAIN v.objects \cup {b.id}
             objects == [id \in ids |-> IF id = b.id THEN object ELSE v.objects[id]]
             count == v.count + 3 * more + top
  <2>1. b \in CityBuildings /\ v.count \in Nat /\ v.objects \in UNION {[I -> CityObjects] : I \in SUBSET Int}
    BY <1>1 DEF CityDocs
  <2>2. PICK I \in SUBSET Int : v.objects \in [I -> CityObjects]
    BY <2>1
  <2>3. object \in CityObjects /\ more \in Nat /\ top \in Nat /\ b.id \in Int
    BY <2>1, CityObjectIs
  <2>4. Op(v, k) = [count |-> count, objects |-> objects]
    OBVIOUS
  <2> HIDE DEF b, object, more, top
  <2>5. count \in Nat
    BY <2>1, <2>3
  <2>6. objects \in [ids -> CityObjects] /\ ids \in SUBSET Int
    BY <2>2, <2>3
  <2>7. objects \in UNION {[J -> CityObjects] : J \in SUBSET Int}
    BY <2>6
  <2> HIDE DEF objects, count, Op
  <2> QED
    BY <2>4, <2>5, <2>7 DEF CityDocs
<1>4. \A k \in S, v \in V : step[k][v] = Op(v, k)
  OBVIOUS
<1> HIDE DEF V, Op, n, D
<1>5. StaysIn(step, S, V)
  BY <1>3, <1>4 DEF StaysIn
<1>6. Picks(LastOf(n), S) /\ IsFiniteSet(S) /\ \A T \in SUBSET S : LastOf(n)[T] = Exports!Max(T)
  BY <1>1, OutputsMax, LastIn DEF LastOf
<1> HIDE DEF step
<1>7. \E g : Folds(g)
  <2>1. PICK g \in [SUBSET S -> V] : Iterates(g, [count |-> 0, objects |-> <<>>], LastOf(n), step, S)
    BY <1>2, <1>5, <1>6, SetRecursion
  <2>2. ASSUME NEW T \in SUBSET S
        PROVE  g[T] = IF T = {} THEN [count |-> 0, objects |-> <<>>] ELSE Op(g[T \ {Exports!Max(T)}], Exports!Max(T))
    <3>1. T # {} => Exports!Max(T) \in S /\ g[T \ {Exports!Max(T)}] \in V
      BY <1>6, <2>1 DEF Picks
    <3>2. g[T] = IF T = {} THEN [count |-> 0, objects |-> <<>>] ELSE step[Exports!Max(T)][g[T \ {Exports!Max(T)}]]
      BY <1>6, <2>1 DEF Iterates
    <3> QED
      BY <1>4, <3>1, <3>2
  <2> QED
    BY <1>1, <2>1, <2>2
<1>8. Folds(f)
  BY <1>7
<1>9. Exports!BuildCityJson(buildings) = f[D]
  BY DEF Exports!BuildCityJson, Exports!FoldLeft, Exports!MapThenFoldSet, Op, D
<1> HIDE DEF f
<1>10. \A T \in SUBSET S : f[T] = IF T = {} THEN [count |-> 0, objects |-> <<>>] ELSE Op(f[T \ {Exports!Max(T)}], Exports!Max(T))
  <2> DEFINE g == [T \in SUBSET S |-> IF T = {} THEN [count |-> 0, objects |-> <<>>] ELSE Op(f[T \ {Exports!Max(T)}], Exports!Max(T))]
  <2>1. f = g
    BY <1>1, <1>8
  <2>2. \A T \in SUBSET S : g[T] = IF T = {} THEN [count |-> 0, objects |-> <<>>] ELSE Op(f[T \ {Exports!Max(T)}], Exports!Max(T))
    OBVIOUS
  <2> HIDE DEF g
  <2> QED
    BY <2>1, <2>2
<1> DEFINE Good == {T \in SUBSET S : f[T] \in V}
<1>11. {} \in Good
  BY <1>2, <1>10
<1>12. ASSUME NEW T \in SUBSET S, T # {}, \A x \in T : T \ {x} \in Good PROVE T \in Good
  <2>1. Exports!Max(T) \in T /\ Exports!Max(T) \in S
    BY <1>6, <1>12 DEF Picks
  <2>2. f[T \ {Exports!Max(T)}] \in V
    BY <1>12, <2>1
  <2>3. f[T] = Op(f[T \ {Exports!Max(T)}], Exports!Max(T))
    BY <1>10, <1>12
  <2> QED
    BY <1>3, <2>1, <2>2, <2>3
<1> HIDE DEF Good
<1>13. \A T \in SUBSET S : T \in Good
  <2>1. IsFiniteSet(S)
    BY <1>6
  <2> HIDE DEF S
  <2> QED
    BY <1>11, <1>12, <2>1, SubsetInduction
<1>14. Iterates(f, [count |-> 0, objects |-> <<>>], LastOf(n), step, S)
  <2> SUFFICES ASSUME NEW T \in SUBSET S
               PROVE  f[T] = IF T = {} THEN [count |-> 0, objects |-> <<>>] ELSE step[LastOf(n)[T]][f[T \ {LastOf(n)[T]}]]
    BY DEF Iterates
  <2>1. T # {} => Exports!Max(T) \in S /\ f[T \ {Exports!Max(T)}] \in V
    BY <1>6, <1>13 DEF Picks, Good
  <2>2. T # {} => step[Exports!Max(T)][f[T \ {Exports!Max(T)}]] = Op(f[T \ {Exports!Max(T)}], Exports!Max(T))
    BY <1>4, <2>1
  <2>3. LastOf(n)[T] = Exports!Max(T) /\ f[T] = IF T = {} THEN [count |-> 0, objects |-> <<>>] ELSE Op(f[T \ {Exports!Max(T)}], Exports!Max(T))
    BY <1>6, <1>10
  <2> QED
    BY <2>2, <2>3
<1>15. RunsTo(f[S], [count |-> 0, objects |-> <<>>], step, n, V)
  BY <1>1, <1>2, <1>5, <1>14, FoldRuns
<1>16. PICK run \in [0..n -> V] : Runs(run, [count |-> 0, objects |-> <<>>], step, n) /\ f[S] = run[n]
  BY <1>15 DEF RunsTo
<1>17. \A k \in S : run[k] = Op(run[k - 1], k)
  <2> SUFFICES ASSUME NEW k \in S PROVE run[k] = Op(run[k - 1], k)
    OBVIOUS
  <2>1. k - 1 \in 0..n
    BY <1>1
  <2>2. run[k] = step[k][run[k - 1]] /\ run[k - 1] \in V
    BY <1>16, <2>1 DEF Runs
  <2> QED
    BY <1>4, <2>2
<1>18. run[0] = [count |-> 0, objects |-> <<>>]
  BY <1>16 DEF Runs
<1>19. run \in [0..Len(buildings) -> CityDocs] /\ Exports!BuildCityJson(buildings) = run[Len(buildings)]
  BY <1>1, <1>9, <1>16 DEF n, V
<1>20. \A k \in 1..Len(buildings) : run[k] = LET object == Exports!CityObject(buildings[k], run[k - 1].count)
             IN  [count   |-> run[k - 1].count + 3 * Exports!Total(buildings[k].rings) + Exports!Lod2Vertices(buildings[k]),
                  objects |-> [id \in DOMAIN run[k - 1].objects \cup {buildings[k].id} |->
                                 IF id = buildings[k].id THEN object ELSE run[k - 1].objects[id]]]
  BY <1>17, Zenon DEF n, Op
<1>21. CityRun(run, buildings)
  BY <1>18, <1>19, <1>20 DEF CityRun
<1> QED
  BY <1>19, <1>21

\* Every building has its own object, with the vertices from the count before it to the
\* count after it.
CityPlaced(at, doc, buildings) ==
  /\ at \in [0..Len(buildings) -> Nat] /\ at[0] = 0 /\ doc.count = at[Len(buildings)]
  /\ \A k \in 1..Len(buildings) :
       /\ at[k] = at[k - 1] + 3 * Exports!Total(buildings[k].rings) + Exports!Lod2Vertices(buildings[k])
       /\ doc.objects[buildings[k].id] = Exports!CityObject(buildings[k], at[k - 1])
  /\ DOMAIN doc.objects = {b.id : b \in ToSet(buildings)}

\* Each building has the vertices that are its own.
LEMMA CityIsPlaced ==
  ASSUME NEW buildings \in Seq(CityBuildings),
         \A i, j \in DOMAIN buildings : buildings[i].id = buildings[j].id => i = j
  PROVE  \E at : CityPlaced(at, Exports!BuildCityJson(buildings), buildings)
<1> DEFINE n == Len(buildings)
<1>1. PICK run : CityRun(run, buildings) /\ Exports!BuildCityJson(buildings) = run[n]
  BY CityJsonIs
<1> DEFINE at == [k \in 0..n |-> run[k].count]
           object(k) == Exports!CityObject(buildings[k], at[k - 1])
<1>2. n \in Nat /\ DOMAIN buildings = 1..n
  OBVIOUS
<1>3. /\ run \in [0..n -> CityDocs] /\ run[0] = [count |-> 0, objects |-> <<>>]
      /\ \A k \in 1..n :
           run[k] = [count   |-> run[k - 1].count + 3 * Exports!Total(buildings[k].rings) + Exports!Lod2Vertices(buildings[k]),
                     objects |-> [id \in DOMAIN run[k - 1].objects \cup {buildings[k].id} |->
                                    IF id = buildings[k].id THEN Exports!CityObject(buildings[k], run[k - 1].count)
                                    ELSE run[k - 1].objects[id]]]
  BY <1>1 DEF CityRun
<1> HIDE DEF n
<1>4. /\ at \in [0..n -> Nat] /\ at[0] = 0 /\ run[n].count = at[n]
      /\ \A k \in 0..n : at[k] = run[k].count
  <2>1. \A k \in 0..n : run[k] \in CityDocs
    BY <1>3
  <2>2. \A k \in 0..n : run[k].count \in Nat
    BY <2>1 DEF CityDocs
  <2>3. 0 \in 0..n /\ n \in 0..n
    BY <1>2
  <2> QED
    BY <1>3, <2>2, <2>3
<1>5. \A k \in 1..n : k - 1 \in 0..n /\ k \in 0..n
  BY <1>2
<1>6. \A k \in 1..n : /\ run[k].count = at[k - 1] + 3 * Exports!Total(buildings[k].rings) + Exports!Lod2Vertices(buildings[k])
                      /\ DOMAIN run[k].objects = DOMAIN run[k - 1].objects \cup {buildings[k].id}
                      /\ run[k].objects[buildings[k].id] = object(k)
                      /\ \A id \in DOMAIN run[k - 1].objects : id # buildings[k].id => run[k].objects[id] = run[k - 1].objects[id]
  <2> SUFFICES ASSUME NEW k \in 1..n
               PROVE  /\ run[k].count = at[k - 1] + 3 * Exports!Total(buildings[k].rings) + Exports!Lod2Vertices(buildings[k])
                      /\ DOMAIN run[k].objects = DOMAIN run[k - 1].objects \cup {buildings[k].id}
                      /\ run[k].objects[buildings[k].id] = object(k)
                      /\ \A id \in DOMAIN run[k - 1].objects : id # buildings[k].id => run[k].objects[id] = run[k - 1].objects[id]
    OBVIOUS
  <2> DEFINE c == run[k - 1].count
             o == run[k - 1].objects
             i == buildings[k].id
             x == Exports!CityObject(buildings[k], c)
             new == [id \in DOMAIN o \cup {i} |-> IF id = i THEN x ELSE o[id]]
             count == c + 3 * Exports!Total(buildings[k].rings) + Exports!Lod2Vertices(buildings[k])
  <2>1. run[k] = [count |-> count, objects |-> new]
    BY <1>3
  <2>2. run[k].count = count /\ run[k].objects = new
    <3> HIDE DEF count, new
    <3> QED
      BY <2>1
  <2>3. at[k - 1] = c
    BY <1>4, <1>5
  <2>4. object(k) = x
    BY <2>3
  <2> HIDE DEF x, o, i, at, object
  <2>5. DOMAIN new = DOMAIN o \cup {i} /\ new[i] = x /\ \A id \in DOMAIN o : id # i => new[id] = o[id]
    OBVIOUS
  <2> HIDE DEF new
  <2> QED
    BY <2>2, <2>3, <2>4, <2>5 DEF o, i
<1> HIDE DEF at, object
<1> DEFINE Good(k) == /\ DOMAIN run[k].objects = {buildings[j].id : j \in 1..k}
                      /\ \A j \in 1..k : run[k].objects[buildings[j].id] = object(j)
           A == {k \in Nat : k <= n => Good(k)}
<1>7. 0 \in A
  <2>1. DOMAIN run[0].objects = {}
    BY <1>3
  <2>2. 1..0 = {}
    OBVIOUS
  <2> QED
    BY <2>1, <2>2
<1>8. ASSUME NEW k \in Nat, k \in A PROVE k + 1 \in A
  <2> SUFFICES ASSUME k + 1 <= n PROVE Good(k + 1)
    OBVIOUS
  <2>1. k + 1 \in 1..n /\ k + 1 - 1 = k /\ Good(k) /\ 1..k \subseteq DOMAIN buildings
    BY <1>2, <1>8
  <2> DEFINE old == run[k].objects
             id0 == buildings[k + 1].id
             new == run[k + 1].objects
  <2>2. /\ DOMAIN new = DOMAIN old \cup {id0} /\ new[id0] = object(k + 1)
        /\ \A id \in DOMAIN old : id # id0 => new[id] = old[id]
    BY <1>6, <2>1
  <2>3. DOMAIN old = {buildings[j].id : j \in 1..k} /\ \A j \in 1..k : old[buildings[j].id] = object(j)
    BY <2>1
  <2>4. \A j \in 1..(k + 1) : j \in 1..k \/ j = k + 1
    OBVIOUS
  <2>5. 1..k \subseteq 1..(k + 1) /\ k + 1 \in 1..(k + 1)
    OBVIOUS
  <2>6. \A j \in 1..k : buildings[j].id # id0
    <3>1. \A j \in 1..k : j # k + 1 /\ j \in DOMAIN buildings /\ k + 1 \in DOMAIN buildings
      BY <1>2, <2>1
    <3> QED
      BY <3>1
  <2> HIDE DEF old, new
  <2>7. DOMAIN new = {buildings[j].id : j \in 1..(k + 1)}
    <3> DEFINE W == {buildings[j].id : j \in 1..(k + 1)}
    <3>1. DOMAIN old \cup {id0} \subseteq W
      BY <2>3, <2>5
    <3>2. W \subseteq DOMAIN old \cup {id0}
      BY <2>3, <2>4
    <3> QED
      BY <2>2, <3>1, <3>2
  <2>8. ASSUME NEW j \in 1..(k + 1) PROVE new[buildings[j].id] = object(j)
    <3>1. CASE j = k + 1
      BY <2>2, <3>1
    <3>2. CASE j \in 1..k
      <4>1. buildings[j].id # id0 /\ buildings[j].id \in DOMAIN old
        BY <2>3, <2>6, <3>2
      <4> HIDE DEF id0
      <4> QED
        BY <2>2, <2>3, <3>2, <4>1
    <3> QED
      BY <2>4, <3>1, <3>2
  <2> QED
    BY <2>7, <2>8 DEF new
<1> HIDE DEF A
<1>9. n \in A
  BY <1>2, <1>7, <1>8, InductionOnSet
<1>10. Good(n)
  BY <1>2, <1>9 DEF A
<1>11. {buildings[j].id : j \in 1..n} = {b.id : b \in ToSet(buildings)}
  BY <1>2 DEF ToSet
<1>12. \A k \in 1..n : at[k] = at[k - 1] + 3 * Exports!Total(buildings[k].rings) + Exports!Lod2Vertices(buildings[k])
  BY <1>4, <1>5, <1>6
<1>13. CityPlaced(at, run[n], buildings)
  BY <1>4, <1>10, <1>11, <1>12 DEF CityPlaced, object, n
<1> QED
  BY <1>1, <1>13

\* Buildings alone: a line for each ring.
LEMMA DxfOfBuildings ==
  ASSUME NEW buildings \in Seq(CityBuildings)
  PROVE  LET ss == [i \in DOMAIN buildings |->
                      Exports!PolygonOutlines(buildings[i], <<Len(buildings[i].rings)>>, "buildings")]
         IN  /\ Exports!BuildDxf(buildings, <<>>, <<>>, <<>>) = FlattenSeq(ss)
             /\ ss \in Seq(Seq(FileRows)) /\ Len(ss) = Len(buildings)
             /\ \A i \in DOMAIN buildings :
                  Len(ss[i]) = Len(buildings[i].rings) /\ \A j \in 1..Len(ss[i]) : ss[i][j] = <<"buildings", buildings[i].id>>
<1> DEFINE n == Len(buildings)
           out(i) == Exports!PolygonOutlines(buildings[i], <<Len(buildings[i].rings)>>, "buildings")
           ss == [i \in DOMAIN buildings |-> out(i)]
<1>1. n \in Nat /\ DOMAIN buildings = 1..n /\ \A i \in 1..n : buildings[i].id \in Int /\ Len(buildings[i].rings) \in Nat
  <2>1. \A b \in CityBuildings : b.id \in Int /\ b.rings \in Seq(Nat \ {0})
    BY DEF CityBuildings
  <2>2. \A b \in CityBuildings : Len(b.rings) \in Nat
    BY <2>1, LenProperties
  <2>3. n \in Nat /\ DOMAIN buildings = 1..n /\ \A i \in 1..n : buildings[i] \in CityBuildings
    OBVIOUS
  <2> QED
    BY <2>1, <2>2, <2>3
<1>2. ASSUME NEW i \in 1..n
      PROVE  /\ out(i) \in Seq(FileRows) /\ Len(out(i)) = Len(buildings[i].rings)
             /\ \A j \in 1..Len(out(i)) : out(i)[j] = <<"buildings", buildings[i].id>>
  <2> DEFINE m == Len(buildings[i].rings)
             b == buildings[i]
  <2>1. m \in Nat /\ b.id \in Int /\ "buildings" \in FileLabels
    BY <1>1 DEF FileLabels
  <2>6. out(i) = Exports!PolygonOutlines(b, <<m>>, "buildings")
    OBVIOUS
  <2> HIDE DEF m, b, out
  <2>2. <<m>> \in Seq(Nat) /\ Len(<<m>>) = 1 /\ <<m>>[1] = m
    BY <2>1
  <2>3. PICK at : Sums(at, <<m>>) /\ Exports!Total(<<m>>) = at[Len(<<m>>)]
    BY <2>2, TotalIs
  <2>4. Exports!Total(<<m>>) = m
    <3>1. at[0] = 0 /\ \A k \in 1..Len(<<m>>) : at[k] = at[k - 1] + <<m>>[k]
      BY <2>3 DEF Sums
    <3>2. at[1] = at[1 - 1] + m
      BY <2>2, <3>1
    <3> QED
      BY <2>1, <2>2, <2>3, <3>1, <3>2
  <2>5. /\ out(i) \in Seq(FileRows) /\ Len(out(i)) = Exports!Total(<<m>>)
        /\ \A j \in 1..Len(out(i)) : out(i)[j] = <<"buildings", b.id>>
    <3> DEFINE lines == Exports!PolygonOutlines(b, <<m>>, "buildings")
    <3>1. /\ lines \in Seq(FileRows) /\ Len(lines) = Exports!Total(<<m>>)
          /\ \A j \in 1..Len(lines) : lines[j] = <<"buildings", b.id>>
      BY <2>1, <2>2, OutlinesAre
    <3> HIDE DEF lines
    <3>2. out(i) = lines
      BY <2>6 DEF lines
    <3> QED
      BY <3>1, <3>2, Zenon
  <2> QED
    BY <2>4, <2>5 DEF m, b
<1>3. ss \in Seq(Seq(FileRows)) /\ Len(ss) = n /\ \A i \in 1..n : ss[i] = out(i)
  <2> HIDE DEF out
  <2>1. \A i \in 1..n : out(i) \in Seq(FileRows)
    BY <1>2
  <2>2. ss \in [1..n -> Seq(FileRows)]
    BY <1>1, <2>1
  <2> QED
    BY <1>1, <2>2
<1>4. Exports!BuildDxf(buildings, <<>>, <<>>, <<>>) = FlattenSeq(ss) \o <<>> \o <<>> \o <<>>
  <2> DEFINE a == [i \in DOMAIN <<>> |-> Exports!PolygonOutlines(<<>>[i], <<>>[i].rings, "roads")]
             b == [i \in DOMAIN <<>> |-> Exports!PolygonOutlines(<<>>[i], <<>>[i].rings, "water")]
  <2>1. a = <<>> /\ b = <<>>
    OBVIOUS
  <2>2. Exports!FlattenSeq(a) = <<>> /\ Exports!FlattenSeq(b) = <<>>
    BY <2>1, OutputsFlat, NothingIsFlat
  <2>3. Exports!BuildDxf(buildings, <<>>, <<>>, <<>>)
          = Exports!FlattenSeq(ss) \o Exports!FlattenSeq(a) \o Exports!FlattenSeq(b) \o Exports!FlattenSeq(b)
    BY DEF Exports!BuildDxf
  <2> HIDE DEF a, b, ss
  <2> QED
    BY <2>2, <2>3, OutputsFlat
<1> HIDE DEF ss, n
<1> DEFINE flat == FlattenSeq(ss)
<1>5. flat \o <<>> \o <<>> \o <<>> = flat
  <2>1. flat \in Seq(FileRows)
    BY <1>3, FlatIs
  <2> HIDE DEF flat
  <2>2. flat \o <<>> = flat
    BY <2>1
  <2> QED
    BY <2>2
<1>6. \A i \in 1..n : Len(ss[i]) = Len(buildings[i].rings) /\ \A j \in 1..Len(ss[i]) : ss[i][j] = <<"buildings", buildings[i].id>>
  <2> HIDE DEF out
  <2> QED
    BY <1>2, <1>3
<1> QED
  BY <1>1, <1>3, <1>4, <1>5, <1>6 DEF ss, n

\* What the object of a building has of the list of vertices.
LEMMA CityObjectHas ==
  ASSUME NEW b \in CityBuildings, NEW c \in Nat, NEW d \in Nat,
         d = c + 3 * Exports!Total(b.rings) + Exports!Lod2Vertices(b)
  PROVE  LET o == Exports!CityObject(b, c)
         IN  /\ o.lod0.from = c /\ o.lod2.to = d /\ c < d
             /\ Exports!Apart(o.lod0, o.lod1) /\ Exports!Apart(o.lod1, o.lod2) /\ Exports!Apart(o.lod0, o.lod2)
             /\ \A r \in {o.lod0, o.lod1, o.lod2} : r.from >= c /\ r.to <= d /\ r.from \in Nat /\ r.to \in Nat
             /\ b.flat => o.lod2.to - o.lod2.from = o.lod1.to - o.lod1.from
<1> DEFINE o == Exports!CityObject(b, c)
           t == Exports!Total(b.rings)
           h == Exports!Lod2Vertices(b)
<1>1. t \in Nat /\ t > 0 /\ h \in Nat
  BY CityObjectIs
<1>2. /\ o.lod0.from = c /\ o.lod0.to = c + t /\ o.lod1.from = c + t /\ o.lod1.to = c + t + 2 * t
      /\ o.lod2.from = c + 3 * t /\ o.lod2.to = c + 3 * t + h
  BY DEF Exports!CityObject, Exports!Range2
<1>3. b.flat => h = 2 * t
  BY DEF Exports!Lod2Vertices
<1> HIDE DEF o, t, h
<1>4. d = c + 3 * t + h
  BY DEF t, h
<1>5. \A r \in {o.lod0, o.lod1, o.lod2} : r.from >= c /\ r.to <= d /\ r.from \in Nat /\ r.to \in Nat
  BY <1>1, <1>2, <1>4
<1>6. Exports!Apart(o.lod0, o.lod1) /\ Exports!Apart(o.lod1, o.lod2) /\ Exports!Apart(o.lod0, o.lod2)
  BY <1>1, <1>2 DEF Exports!Apart
<1>7. o.lod0.from = c /\ o.lod2.to = d /\ c < d
  BY <1>1, <1>2, <1>4
<1>8. b.flat => o.lod2.to - o.lod2.from = o.lod1.to - o.lod1.from
  BY <1>1, <1>2, <1>3
<1> QED
  BY <1>5, <1>6, <1>7, <1>8 DEF o

\* Every building has its own part of the list of vertices and its own lines.
LEMMA BuildingsAlwaysAgree ==
  ASSUME NEW buildings \in Seq(CityBuildings),
         \A i, j \in DOMAIN buildings : buildings[i].id = buildings[j].id => i = j
  PROVE  Exports!BuildingsAgree(buildings)
<1> DEFINE n == Len(buildings)
           doc == Exports!BuildCityJson(buildings)
           ids == {b.id : b \in ToSet(buildings)}
           dxf == Exports!BuildDxf(buildings, <<>>, <<>>, <<>>)
           Ranges == {doc.objects[id] : id \in ids}
<1>1. n \in Nat /\ DOMAIN buildings = 1..n /\ \A i \in 1..n : buildings[i] \in CityBuildings
  OBVIOUS
<1>2. PICK at : CityPlaced(at, doc, buildings)
  BY CityIsPlaced
<1> DEFINE object == [k \in 1..n |-> doc.objects[buildings[k].id]]
<1>3. /\ at \in [0..n -> Nat] /\ at[0] = 0 /\ doc.count = at[n] /\ DOMAIN doc.objects = ids
      /\ \A k \in 1..n : /\ at[k] = at[k - 1] + 3 * Exports!Total(buildings[k].rings) + Exports!Lod2Vertices(buildings[k])
                         /\ object[k] = Exports!CityObject(buildings[k], at[k - 1])
                         /\ doc.objects[buildings[k].id] = object[k]
  BY <1>2 DEF CityPlaced
<1>4. Ranges = {object[k] : k \in 1..n}
  <2>1. ids = {buildings[k].id : k \in 1..n}
    BY <1>1 DEF ToSet
  <2> HIDE DEF ids
  <2> QED
    BY <2>1
<1> HIDE DEF n, doc, object, Ranges, dxf
<1>5. \A k \in 1..n : at[k] \in Nat /\ at[k - 1] \in Nat /\ k \in 0..n /\ k - 1 \in 0..n
  BY <1>1, <1>3
<1>6. ASSUME NEW k \in 1..n
      PROVE  LET o == object[k]
             IN  /\ o.lod0.from = at[k - 1] /\ o.lod2.to = at[k] /\ at[k - 1] < at[k]
                 /\ Exports!Apart(o.lod0, o.lod1) /\ Exports!Apart(o.lod1, o.lod2) /\ Exports!Apart(o.lod0, o.lod2)
                 /\ \A r \in {o.lod0, o.lod1, o.lod2} : r.from >= at[k - 1] /\ r.to <= at[k] /\ r.from \in Nat /\ r.to \in Nat
                 /\ buildings[k].flat => o.lod2.to - o.lod2.from = o.lod1.to - o.lod1.from
  <2> DEFINE b == buildings[k]
             c == at[k - 1]
             d == at[k]
  <2>1. b \in CityBuildings /\ c \in Nat /\ d \in Nat /\ object[k] = Exports!CityObject(b, c)
        /\ d = c + 3 * Exports!Total(b.rings) + Exports!Lod2Vertices(b)
    BY <1>1, <1>3, <1>5
  <2> HIDE DEF b, c, d
  <2>2. LET o == Exports!CityObject(b, c)
        IN  /\ o.lod0.from = c /\ o.lod2.to = d /\ c < d
            /\ Exports!Apart(o.lod0, o.lod1) /\ Exports!Apart(o.lod1, o.lod2) /\ Exports!Apart(o.lod0, o.lod2)
            /\ \A r \in {o.lod0, o.lod1, o.lod2} : r.from >= c /\ r.to <= d /\ r.from \in Nat /\ r.to \in Nat
            /\ b.flat => o.lod2.to - o.lod2.from = o.lod1.to - o.lod1.from
    BY <2>1, CityObjectHas
  <2> QED
    BY <2>1, <2>2 DEF b, c, d
<1>7. \A j, k \in 0..n : j <= k => at[j] <= at[k]
  <2>1. \A k \in 1..n : at[k - 1] <= at[k]
    BY <1>5, <1>6
  <2> QED
    BY <1>1, <1>3, <2>1, NeverFalls
<1>8. ASSUME NEW j \in 1..n, NEW k \in 1..n, j < k PROVE at[j] <= at[k - 1]
  <2>1. j \in 0..n /\ k - 1 \in 0..n /\ j <= k - 1
    BY <1>1, <1>8
  <2> QED
    BY <1>7, <2>1
<1>9. \A j, k \in 1..n : object[j] = object[k] => j = k
  <2> SUFFICES ASSUME NEW j \in 1..n, NEW k \in 1..n, object[j] = object[k], j # k PROVE FALSE
    OBVIOUS
  <2>1. object[j].lod0.from = at[j - 1] /\ at[j - 1] < at[j]
        /\ object[k].lod0.from = at[k - 1] /\ at[k - 1] < at[k]
    BY <1>6
  <2>2. at[j - 1] = at[k - 1] /\ at[j - 1] \in Nat /\ at[j] \in Nat /\ at[k] \in Nat
    BY <1>5, <2>1
  <2>3. j < k \/ k < j
    BY <1>1
  <2> QED
    BY <1>8, <2>1, <2>2, <2>3
<1>10. Cardinality(Ranges) = n
  <2>1. IsFiniteSet(1..n) /\ Cardinality(1..n) = n
    BY <1>1, FS_Interval
  <2> DEFINE P == 1..n
  <2>2. \A x, y \in P : object[x] = object[y] => x = y
    BY <1>9
  <2>3. IsFiniteSet(P)
    BY <2>1
  <2>4. Ranges = {object[x] : x \in P}
    BY <1>4
  <2> HIDE DEF P
  <2>5. Cardinality(Ranges) = Cardinality(P)
    BY <2>2, <2>3, <2>4, OneToOne
  <2> QED
    BY <2>1, <2>5 DEF P
<1>11. ASSUME NEW o \in Ranges
       PROVE  /\ Exports!Apart(o.lod0, o.lod1) /\ Exports!Apart(o.lod1, o.lod2) /\ Exports!Apart(o.lod0, o.lod2)
              /\ \A r \in {o.lod0, o.lod1, o.lod2} : Exports!Within(r, Exports!Range2(0, doc.count))
              /\ \A p \in Ranges \ {o} : Exports!Apart(Exports!Range2(o.lod0.from, o.lod2.to - o.lod0.from),
                                                       Exports!Range2(p.lod0.from, p.lod2.to - p.lod0.from))
  <2>1. PICK k \in 1..n : o = object[k]
    BY <1>4
  <2>2. Exports!Apart(o.lod0, o.lod1) /\ Exports!Apart(o.lod1, o.lod2) /\ Exports!Apart(o.lod0, o.lod2)
    BY <1>6, <2>1
  <2>3. ASSUME NEW r \in {o.lod0, o.lod1, o.lod2} PROVE Exports!Within(r, Exports!Range2(0, doc.count))
    <3>1. r.to <= at[k] /\ r.from \in Nat /\ r.to \in Nat
      BY <1>6, <2>1, <2>3
    <3>2. at[k] <= at[n] /\ at[n] \in Nat /\ at[k] \in Nat
      <4>1. k \in 0..n /\ n \in 0..n /\ k <= n
        BY <1>1
      <4> QED
        BY <1>3, <1>7, <4>1
    <3>3. 0 <= r.from /\ r.to <= 0 + at[n]
      BY <3>1, <3>2
    <3>4. LET w == Exports!Range2(0, doc.count) IN w.from = 0 /\ w.to = 0 + at[n]
      BY <1>3 DEF Exports!Range2
    <3> QED
      BY <3>3, <3>4 DEF Exports!Within
  <2>4. ASSUME NEW p \in Ranges, p # o
        PROVE  Exports!Apart(Exports!Range2(o.lod0.from, o.lod2.to - o.lod0.from),
                             Exports!Range2(p.lod0.from, p.lod2.to - p.lod0.from))
    <3>1. PICK j \in 1..n : p = object[j]
      BY <1>4
    <3>2. j < k \/ k < j
      BY <1>1, <2>1, <2>4, <3>1
    <3>3. o.lod0.from = at[k - 1] /\ o.lod2.to = at[k] /\ p.lod0.from = at[j - 1] /\ p.lod2.to = at[j]
      BY <1>6, <2>1, <3>1
    <3>4. at[k - 1] \in Nat /\ at[k] \in Nat /\ at[j - 1] \in Nat /\ at[j] \in Nat
      BY <1>5
    <3>5. at[j] <= at[k - 1] \/ at[k] <= at[j - 1]
      BY <1>8, <3>2
    <3> DEFINE v == Exports!Range2(o.lod0.from, o.lod2.to - o.lod0.from)
               w == Exports!Range2(p.lod0.from, p.lod2.to - p.lod0.from)
    <3>6. v.from = at[k - 1] /\ v.to = at[k] /\ w.from = at[j - 1] /\ w.to = at[j]
      BY <3>3, <3>4 DEF Exports!Range2
    <3> HIDE DEF v, w
    <3>7. Exports!Apart(v, w)
      BY <3>5, <3>6 DEF Exports!Apart
    <3> QED
      BY <3>7 DEF v, w
  <2> QED
    BY <2>2, <2>3, <2>4
<1>12. ASSUME NEW i \in 1..n
       PROVE  Cardinality({p \in DOMAIN dxf : dxf[p] = <<"buildings", buildings[i].id>>}) = Len(buildings[i].rings)
  <2> DEFINE x == <<"buildings", buildings[i].id>>
             ss == [k \in DOMAIN buildings |->
                      Exports!PolygonOutlines(buildings[k], <<Len(buildings[k].rings)>>, "buildings")]
  <2>1. /\ dxf = FlattenSeq(ss) /\ ss \in Seq(Seq(FileRows)) /\ Len(ss) = n
        /\ \A k \in DOMAIN buildings :
             Len(ss[k]) = Len(buildings[k].rings) /\ \A j \in 1..Len(ss[k]) : ss[k][j] = <<"buildings", buildings[k].id>>
    BY DxfOfBuildings DEF dxf, n
  <2> HIDE DEF ss
  <2>2. \A j \in 1..Len(ss[i]) : ss[i][j] = x
    BY <1>1, <2>1
  <2>3. ASSUME NEW k \in 1..n, k # i, NEW j \in 1..Len(ss[k]) PROVE ss[k][j] # x
    <3>1. ss[k][j] = <<"buildings", buildings[k].id>>
      BY <1>1, <2>1
    <3>2. buildings[k].id # buildings[i].id
      BY <1>1, <2>3
    <3> QED
      BY <3>1, <3>2
  <2> HIDE DEF x
  <2>4. i \in 1..Len(ss) /\ \A k \in 1..Len(ss) : k # i => \A j \in 1..Len(ss[k]) : ss[k][j] # x
    BY <2>1, <2>3
  <2>5. LET flat == FlattenSeq(ss) IN Cardinality({p \in DOMAIN flat : flat[p] = x}) = Len(ss[i])
    BY <2>1, <2>2, <2>4, OfOneList
  <2>6. Cardinality({p \in DOMAIN dxf : dxf[p] = x}) = Len(ss[i]) /\ Len(ss[i]) = Len(buildings[i].rings)
    BY <1>1, <2>1, <2>5
  <2> QED
    BY <2>6 DEF x
<1>13. ASSUME NEW b \in Exports!ToSet(buildings)
       PROVE  /\ Exports!Cardinality({i \in DOMAIN dxf : dxf[i] = <<"buildings", b.id>>}) = Len(b.rings)
              /\ b.flat => doc.objects[b.id].lod2.to - doc.objects[b.id].lod2.from
                             = doc.objects[b.id].lod1.to - doc.objects[b.id].lod1.from
  <2>1. PICK i \in 1..n : b = buildings[i]
    BY <1>1 DEF Exports!ToSet
  <2>2. doc.objects[b.id] = object[i]
    BY <1>3, <2>1
  <2>3. buildings[i].flat => object[i].lod2.to - object[i].lod2.from = object[i].lod1.to - object[i].lod1.from
    BY <1>6
  <2> QED
    BY <1>12, <2>1, <2>2, <2>3, OutputsCount
<1>14. Exports!Cardinality(Ranges) = Len(buildings) /\ DOMAIN doc.objects = {b.id : b \in Exports!ToSet(buildings)}
       /\ Ranges = {doc.objects[id] : id \in {b.id : b \in Exports!ToSet(buildings)}}
  BY <1>3, <1>10, OutputsCount, OutputsSet DEF n, Ranges
<1> QED
  BY <1>11, <1>13, <1>14 DEF Exports!BuildingsAgree, doc, dxf

\* What the files say in words.
Texts == STRING \cup LayerNames
  \cup {"", "none", "wall", "post", "TERRAIN", "USERDEFINED", "FENCE", "CABLESEGMENT"}
  \cup {"IfcGeographicElement", "IfcBuildingElementProxy", "IfcRoad", "IfcBridge", "IfcCableSegment",
          "IfcSpatialZone", "IfcRailing", "IfcWall", "IfcFurniture"}
  \cup {"osm_roads", "osm_water_areas", "osm_waterways", "osm_railways", "osm_railway_platforms",
          "osm_railway_crossings", "osm_power", "osm_landscaping", "osm_vegetation"}

\* All marks of a kind.
Wholes == [ids : Seq(Int), pieces : Nat, kind : STRING, network : Texts]

Items == [name : Texts, class : Texts, type : Texts, layer : Texts, ids : Seq(Int),
          of : SiteObjects \cup Wholes, inSpace : BOOLEAN]

\* What a product of an object says of it.
Told(layer, o, p) ==
  /\ p \in Items /\ p.of = o /\ p.ids = o.ids
  /\ p.inSpace <=> p.class \in {"IfcRoad", "IfcBridge", "IfcSpatialZone"}
  /\ p.name = layer \/ (layer = "fence" /\ p.name \in {"wall", "post", "fence"})
  /\ p.layer = "osm_roads" => layer \in {"road", "bridge", "lane"}
  /\ layer = "lane" => p.layer = "osm_roads"

\* Layers with a product for every piece.
Pieced == {"road", "bridge", "waterway", "rail", "platform", "substation", "zone", "lawn"}

HowMany(layer, o) ==
  IF layer = "fence" THEN (IF o.kind = "wall" THEN 1 ELSE o.posts + 1)
  ELSE IF layer \in Pieced THEN o.pieces ELSE 1

AllTold(layer, o, ps) ==
  ps \in Seq(Items) /\ Len(ps) = HowMany(layer, o) /\ \A i \in 1..Len(ps) : Told(layer, o, ps[i])

\* One product, and one for every piece.
LEMMA OneIsTold ==
  ASSUME NEW layer, NEW o, NEW item, Told(layer, o, item), HowMany(layer, o) = 1
  PROVE  AllTold(layer, o, <<item>>)
<1>1. item \in Items
  BY DEF Told
<1>2. <<item>> \in Seq(Items) /\ Len(<<item>>) = 1 /\ <<item>>[1] = item
  BY <1>1
<1>3. \A i \in 1..Len(<<item>>) : i = 1
  BY <1>2
<1> QED
  BY <1>2, <1>3 DEF AllTold

\* Each piece of an object tells of it.
LEMMA PiecesAreTold ==
  ASSUME NEW layer, NEW o, o.pieces \in Nat, NEW item, Told(layer, o, item), HowMany(layer, o) = o.pieces
  PROVE  AllTold(layer, o, Assembly!PerPiece(o, item))
<1> DEFINE n == o.pieces
           ps == [i \in 1..n |-> item]
<1>1. item \in Items
  BY DEF Told
<1>2. n \in Nat
  OBVIOUS
<1> HIDE DEF n
<1>3. ps \in Seq(Items) /\ Len(ps) = n /\ \A i \in 1..n : ps[i] = item
  <2>1. ps \in [1..n -> Items]
    BY <1>1
  <2> QED
    BY <1>2, <2>1
<1> HIDE DEF ps
<1>4. AllTold(layer, o, ps)
  BY <1>3 DEF AllTold, n
<1> QED
  BY <1>4 DEF Assembly!PerPiece, ps, n

\* An item tells what its object is.
Tells(layer, o, name, class, type, from) ==
  /\ o \in SiteObjects /\ {name, class, type, from} \subseteq Texts
  /\ name = layer \/ (layer = "fence" /\ name \in {"wall", "post", "fence"})
  /\ from = "osm_roads" => layer \in {"road", "bridge", "lane"}
  /\ layer = "lane" => from = "osm_roads"

\* What a product is made with is what it tells.
LEMMA ItemTells ==
  ASSUME NEW layer, NEW o, NEW name, NEW class, NEW type, NEW from, Tells(layer, o, name, class, type, from)
  PROVE  /\ class \notin {"IfcRoad", "IfcBridge", "IfcSpatialZone"}
              => Told(layer, o, Assembly!Item(o, name, class, type, from))
         /\ class \in {"IfcRoad", "IfcBridge", "IfcSpatialZone"}
              => Told(layer, o, Assembly!InSpace(Assembly!Item(o, name, class, type, from)))
<1> USE DEF Tells
<1> DEFINE item == [name |-> name, class |-> class, type |-> type, layer |-> from, ids |-> o.ids, of |-> o,
                    inSpace |-> FALSE]
<1>1. o.ids \in Seq(Int) /\ o \in SiteObjects \cup Wholes
  BY DEF SiteObjects
<1>2. item \in Items
  BY <1>1 DEF Items
<1>3. Assembly!Item(o, name, class, type, from) = item
  BY DEF Assembly!Item
<1>4. /\ item.of = o /\ item.ids = o.ids /\ item.inSpace = FALSE /\ item.class = class
      /\ item.name = name /\ item.layer = from
  OBVIOUS
<1> HIDE DEF item
<1> DEFINE e == [item EXCEPT !.inSpace = TRUE]
<1>5. /\ e \in Items /\ e.of = item.of /\ e.ids = item.ids /\ e.inSpace = TRUE /\ e.class = item.class
      /\ e.name = item.name /\ e.layer = item.layer
  BY <1>2 DEF Items
<1>6. Assembly!InSpace(item) = e
  BY DEF Assembly!InSpace
<1> HIDE DEF e
<1>7. class \notin {"IfcRoad", "IfcBridge", "IfcSpatialZone"} => Told(layer, o, item)
  BY <1>2, <1>4 DEF Told
<1>8. class \in {"IfcRoad", "IfcBridge", "IfcSpatialZone"} => Told(layer, o, e)
  BY <1>4, <1>5 DEF Told
<1> QED
  BY <1>3, <1>6, <1>7, <1>8

\* The products of every layer.
LEMMA ProductsAreTold ==
  ASSUME NEW layer \in LayerNames \ {"marking"}, NEW o \in SiteObjects, NEW schema,
         layer = "building" => o.layer # "osm_roads"
  PROVE  AllTold(layer, o, Assembly!ProductsOf(layer, o, schema))
<1>1. o.pieces \in Nat /\ o.posts \in Nat /\ o.layer \in Texts
  BY DEF SiteObjects, Texts
<1>2. \A l : l \in Pieced => HowMany(l, o) = o.pieces
  BY DEF HowMany, Pieced
<1>3. \A l : l \notin Pieced /\ l # "fence" => HowMany(l, o) = 1
  BY DEF HowMany
<1>4. CASE layer = "terrain"
  <2> DEFINE item == Assembly!Item(o, "terrain", "IfcGeographicElement", "TERRAIN", Assembly!NotKept)
  <2>1. Told(layer, o, item)
    <3>1. Tells(layer, o, "terrain", "IfcGeographicElement", "TERRAIN", Assembly!NotKept)
      BY <1>1, <1>4 DEF Tells, Texts, LayerNames, Assembly!NotKept
    <3> QED
      BY <3>1, ItemTells DEF Assembly!Proxy
  <2>2. HowMany(layer, o) = 1
    BY <1>3, <1>4 DEF Pieced
  <2>3. Assembly!ProductsOf(layer, o, schema) = <<item>>
    BY <1>4 DEF Assembly!ProductsOf, Assembly!Terrain
  <2> HIDE DEF item
  <2> QED
    BY <1>1, <2>1, <2>2, <2>3, OneIsTold
<1>5. CASE layer = "building"
  <2> DEFINE item == Assembly!Proxy(o, "building", o.layer)
  <2>1. Told(layer, o, item)
    <3>1. Tells(layer, o, "building", "IfcBuildingElementProxy", "USERDEFINED", o.layer)
      <4>1. o \in SiteObjects /\ o.layer \in STRING /\ o.layer # "osm_roads"
        BY <1>1, <1>5 DEF SiteObjects
      <4>2. {"building", "IfcBuildingElementProxy", "USERDEFINED", o.layer} \subseteq Texts
        BY <4>1 DEF Texts, LayerNames
      <4>3. layer # "lane"
        BY <1>5
      <4> QED
        BY <1>5, <4>1, <4>2, <4>3 DEF Tells
    <3> QED
      BY <3>1, ItemTells DEF Assembly!Proxy
  <2>2. HowMany(layer, o) = 1
    BY <1>3, <1>5 DEF Pieced
  <2>3. Assembly!ProductsOf(layer, o, schema) = <<item>>
    BY <1>5 DEF Assembly!ProductsOf, Assembly!Building
  <2> HIDE DEF item
  <2> QED
    BY <1>1, <2>1, <2>2, <2>3, OneIsTold
<1>6. CASE layer = "road"
  <2> DEFINE item == IF schema = "IFC4X3" THEN Assembly!InSpace(Assembly!Item(o, "road", "IfcRoad", "none", "osm_roads"))
                     ELSE Assembly!Proxy(o, "road", "osm_roads")
  <2>1. Told(layer, o, item)
    <3> DEFINE a == Assembly!InSpace(Assembly!Item(o, "road", "IfcRoad", "none", "osm_roads"))
               b == Assembly!Proxy(o, "road", "osm_roads")
    <3>1. Tells(layer, o, "road", "IfcRoad", "none", "osm_roads")
      BY <1>6 DEF Tells, Texts, LayerNames
    <3>2. Tells(layer, o, "road", "IfcBuildingElementProxy", "USERDEFINED", "osm_roads")
      BY <1>6 DEF Tells, Texts, LayerNames
    <3>3. Told(layer, o, a)
      BY <3>1, ItemTells
    <3>4. Told(layer, o, b)
      BY <3>2, ItemTells DEF Assembly!Proxy
    <3> HIDE DEF a, b
    <3>5. item = IF schema = "IFC4X3" THEN a ELSE b
      BY DEF a, b
    <3> HIDE DEF item
    <3> QED
      BY <3>3, <3>4, <3>5
  <2>2. HowMany(layer, o) = o.pieces
    BY <1>2, <1>6 DEF Pieced
  <2>3. Assembly!ProductsOf(layer, o, schema) = Assembly!PerPiece(o, item)
    BY <1>6 DEF Assembly!ProductsOf, Assembly!Road
  <2> HIDE DEF item
  <2> QED
    BY <1>1, <2>1, <2>2, <2>3, PiecesAreTold
<1>7. CASE layer = "bridge"
  <2> DEFINE item == IF schema = "IFC4X3" THEN Assembly!InSpace(Assembly!Item(o, "bridge", "IfcBridge", "none", "osm_roads"))
                     ELSE Assembly!Proxy(o, "bridge", "osm_roads")
  <2>1. Told(layer, o, item)
    <3> DEFINE a == Assembly!InSpace(Assembly!Item(o, "bridge", "IfcBridge", "none", "osm_roads"))
               b == Assembly!Proxy(o, "bridge", "osm_roads")
    <3>1. Tells(layer, o, "bridge", "IfcBridge", "none", "osm_roads")
      BY <1>7 DEF Tells, Texts, LayerNames
    <3>2. Tells(layer, o, "bridge", "IfcBuildingElementProxy", "USERDEFINED", "osm_roads")
      BY <1>7 DEF Tells, Texts, LayerNames
    <3>3. Told(layer, o, a)
      BY <3>1, ItemTells
    <3>4. Told(layer, o, b)
      BY <3>2, ItemTells DEF Assembly!Proxy
    <3> HIDE DEF a, b
    <3>5. item = IF schema = "IFC4X3" THEN a ELSE b
      BY DEF a, b
    <3> HIDE DEF item
    <3> QED
      BY <3>3, <3>4, <3>5
  <2>2. HowMany(layer, o) = o.pieces
    BY <1>2, <1>7 DEF Pieced
  <2>3. Assembly!ProductsOf(layer, o, schema) = Assembly!PerPiece(o, item)
    BY <1>7 DEF Assembly!ProductsOf, Assembly!Bridge
  <2> HIDE DEF item
  <2> QED
    BY <1>1, <2>1, <2>2, <2>3, PiecesAreTold
<1>8. CASE layer = "lane"
  <2> DEFINE item == Assembly!Proxy(o, "lane", "osm_roads")
  <2>1. Told(layer, o, item)
    <3>1. Tells(layer, o, "lane", "IfcBuildingElementProxy", "USERDEFINED", "osm_roads")
      BY <1>1, <1>8 DEF Tells, Texts, LayerNames, Assembly!NotKept
    <3> QED
      BY <3>1, ItemTells DEF Assembly!Proxy
  <2>2. HowMany(layer, o) = 1
    BY <1>3, <1>8 DEF Pieced
  <2>3. Assembly!ProductsOf(layer, o, schema) = <<item>>
    BY <1>8 DEF Assembly!ProductsOf, Assembly!Lane
  <2> HIDE DEF item
  <2> QED
    BY <1>1, <2>1, <2>2, <2>3, OneIsTold
<1>9. CASE layer = "intersection"
  <2> DEFINE item == Assembly!Proxy(o, "intersection", Assembly!NotKept)
  <2>1. Told(layer, o, item)
    <3>1. Tells(layer, o, "intersection", "IfcBuildingElementProxy", "USERDEFINED", Assembly!NotKept)
      BY <1>1, <1>9 DEF Tells, Texts, LayerNames, Assembly!NotKept
    <3> QED
      BY <3>1, ItemTells DEF Assembly!Proxy
  <2>2. HowMany(layer, o) = 1
    BY <1>3, <1>9 DEF Pieced
  <2>3. Assembly!ProductsOf(layer, o, schema) = <<item>>
    BY <1>9 DEF Assembly!ProductsOf, Assembly!Intersection
  <2> HIDE DEF item
  <2> QED
    BY <1>1, <2>1, <2>2, <2>3, OneIsTold
<1>10. CASE layer = "water"
  <2> DEFINE item == Assembly!Item(o, "water", "IfcGeographicElement", "USERDEFINED", "osm_water_areas")
  <2>1. Told(layer, o, item)
    <3>1. Tells(layer, o, "water", "IfcGeographicElement", "USERDEFINED", "osm_water_areas")
      BY <1>1, <1>10 DEF Tells, Texts, LayerNames, Assembly!NotKept
    <3> QED
      BY <3>1, ItemTells DEF Assembly!Proxy
  <2>2. HowMany(layer, o) = 1
    BY <1>3, <1>10 DEF Pieced
  <2>3. Assembly!ProductsOf(layer, o, schema) = <<item>>
    BY <1>10 DEF Assembly!ProductsOf, Assembly!WaterArea
  <2> HIDE DEF item
  <2> QED
    BY <1>1, <2>1, <2>2, <2>3, OneIsTold
<1>11. CASE layer = "waterway"
  <2> DEFINE item == Assembly!Item(o, "waterway", "IfcGeographicElement", "USERDEFINED", "osm_waterways")
  <2>1. Told(layer, o, item)
    <3>1. Tells(layer, o, "waterway", "IfcGeographicElement", "USERDEFINED", "osm_waterways")
      BY <1>1, <1>11 DEF Tells, Texts, LayerNames, Assembly!NotKept
    <3> QED
      BY <3>1, ItemTells DEF Assembly!Proxy
  <2>2. HowMany(layer, o) = o.pieces
    BY <1>2, <1>11 DEF Pieced
  <2>3. Assembly!ProductsOf(layer, o, schema) = Assembly!PerPiece(o, item)
    BY <1>11 DEF Assembly!ProductsOf, Assembly!Waterway
  <2> HIDE DEF item
  <2> QED
    BY <1>1, <2>1, <2>2, <2>3, PiecesAreTold
<1>12. CASE layer = "rail"
  <2> DEFINE item == Assembly!Proxy(o, "rail", "osm_railways")
  <2>1. Told(layer, o, item)
    <3>1. Tells(layer, o, "rail", "IfcBuildingElementProxy", "USERDEFINED", "osm_railways")
      BY <1>1, <1>12 DEF Tells, Texts, LayerNames, Assembly!NotKept
    <3> QED
      BY <3>1, ItemTells DEF Assembly!Proxy
  <2>2. HowMany(layer, o) = o.pieces
    BY <1>2, <1>12 DEF Pieced
  <2>3. Assembly!ProductsOf(layer, o, schema) = Assembly!PerPiece(o, item)
    BY <1>12 DEF Assembly!ProductsOf, Assembly!Rail
  <2> HIDE DEF item
  <2> QED
    BY <1>1, <2>1, <2>2, <2>3, PiecesAreTold
<1>13. CASE layer = "platform"
  <2> DEFINE item == Assembly!Proxy(o, "platform", "osm_railway_platforms")
  <2>1. Told(layer, o, item)
    <3>1. Tells(layer, o, "platform", "IfcBuildingElementProxy", "USERDEFINED", "osm_railway_platforms")
      BY <1>1, <1>13 DEF Tells, Texts, LayerNames, Assembly!NotKept
    <3> QED
      BY <3>1, ItemTells DEF Assembly!Proxy
  <2>2. HowMany(layer, o) = o.pieces
    BY <1>2, <1>13 DEF Pieced
  <2>3. Assembly!ProductsOf(layer, o, schema) = Assembly!PerPiece(o, item)
    BY <1>13 DEF Assembly!ProductsOf, Assembly!Platform
  <2> HIDE DEF item
  <2> QED
    BY <1>1, <2>1, <2>2, <2>3, PiecesAreTold
<1>14. CASE layer = "crossing"
  <2> DEFINE item == Assembly!Proxy(o, "crossing", "osm_railway_crossings")
  <2>1. Told(layer, o, item)
    <3>1. Tells(layer, o, "crossing", "IfcBuildingElementProxy", "USERDEFINED", "osm_railway_crossings")
      BY <1>1, <1>14 DEF Tells, Texts, LayerNames, Assembly!NotKept
    <3> QED
      BY <3>1, ItemTells DEF Assembly!Proxy
  <2>2. HowMany(layer, o) = 1
    BY <1>3, <1>14 DEF Pieced
  <2>3. Assembly!ProductsOf(layer, o, schema) = <<item>>
    BY <1>14 DEF Assembly!ProductsOf, Assembly!Crossing
  <2> HIDE DEF item
  <2> QED
    BY <1>1, <2>1, <2>2, <2>3, OneIsTold
<1>15. CASE layer = "catenary"
  <2> DEFINE item == Assembly!Proxy(o, "catenary", Assembly!NotKept)
  <2>1. Told(layer, o, item)
    <3>1. Tells(layer, o, "catenary", "IfcBuildingElementProxy", "USERDEFINED", Assembly!NotKept)
      BY <1>1, <1>15 DEF Tells, Texts, LayerNames, Assembly!NotKept
    <3> QED
      BY <3>1, ItemTells DEF Assembly!Proxy
  <2>2. HowMany(layer, o) = 1
    BY <1>3, <1>15 DEF Pieced
  <2>3. Assembly!ProductsOf(layer, o, schema) = <<item>>
    BY <1>15 DEF Assembly!ProductsOf, Assembly!CatenaryPole
  <2> HIDE DEF item
  <2> QED
    BY <1>1, <2>1, <2>2, <2>3, OneIsTold
<1>16. CASE layer = "pole"
  <2> DEFINE item == Assembly!Proxy(o, "pole", "osm_power")
  <2>1. Told(layer, o, item)
    <3>1. Tells(layer, o, "pole", "IfcBuildingElementProxy", "USERDEFINED", "osm_power")
      BY <1>1, <1>16 DEF Tells, Texts, LayerNames, Assembly!NotKept
    <3> QED
      BY <3>1, ItemTells DEF Assembly!Proxy
  <2>2. HowMany(layer, o) = 1
    BY <1>3, <1>16 DEF Pieced
  <2>3. Assembly!ProductsOf(layer, o, schema) = <<item>>
    BY <1>16 DEF Assembly!ProductsOf, Assembly!PowerPole
  <2> HIDE DEF item
  <2> QED
    BY <1>1, <2>1, <2>2, <2>3, OneIsTold
<1>17. CASE layer = "wire"
  <2> DEFINE item == Assembly!Item(o, "wire", "IfcCableSegment", "CABLESEGMENT", Assembly!NotKept)
  <2>1. Told(layer, o, item)
    <3>1. Tells(layer, o, "wire", "IfcCableSegment", "CABLESEGMENT", Assembly!NotKept)
      BY <1>1, <1>17 DEF Tells, Texts, LayerNames, Assembly!NotKept
    <3> QED
      BY <3>1, ItemTells DEF Assembly!Proxy
  <2>2. HowMany(layer, o) = 1
    BY <1>3, <1>17 DEF Pieced
  <2>3. Assembly!ProductsOf(layer, o, schema) = <<item>>
    BY <1>17 DEF Assembly!ProductsOf, Assembly!Wire
  <2> HIDE DEF item
  <2> QED
    BY <1>1, <2>1, <2>2, <2>3, OneIsTold
<1>18. CASE layer = "substation"
  <2> DEFINE item == Assembly!Proxy(o, "substation", "osm_power")
  <2>1. Told(layer, o, item)
    <3>1. Tells(layer, o, "substation", "IfcBuildingElementProxy", "USERDEFINED", "osm_power")
      BY <1>1, <1>18 DEF Tells, Texts, LayerNames, Assembly!NotKept
    <3> QED
      BY <3>1, ItemTells DEF Assembly!Proxy
  <2>2. HowMany(layer, o) = o.pieces
    BY <1>2, <1>18 DEF Pieced
  <2>3. Assembly!ProductsOf(layer, o, schema) = Assembly!PerPiece(o, item)
    BY <1>18 DEF Assembly!ProductsOf, Assembly!Substation
  <2> HIDE DEF item
  <2> QED
    BY <1>1, <2>1, <2>2, <2>3, PiecesAreTold
<1>19. CASE layer = "zone"
  <2> DEFINE item == Assembly!InSpace(Assembly!Item(o, "zone", "IfcSpatialZone", "USERDEFINED", Assembly!NotKept))
  <2>1. Told(layer, o, item)
    <3>1. Tells(layer, o, "zone", "IfcSpatialZone", "USERDEFINED", Assembly!NotKept)
      BY <1>1, <1>19 DEF Tells, Texts, LayerNames, Assembly!NotKept
    <3> QED
      BY <3>1, ItemTells DEF Assembly!Proxy
  <2>2. HowMany(layer, o) = o.pieces
    BY <1>2, <1>19 DEF Pieced
  <2>3. Assembly!ProductsOf(layer, o, schema) = Assembly!PerPiece(o, item)
    BY <1>19 DEF Assembly!ProductsOf, Assembly!SafetyZone
  <2> HIDE DEF item
  <2> QED
    BY <1>1, <2>1, <2>2, <2>3, PiecesAreTold
<1>20. CASE layer = "lamp"
  <2> DEFINE item == Assembly!Proxy(o, "lamp", "osm_landscaping")
  <2>1. Told(layer, o, item)
    <3>1. Tells(layer, o, "lamp", "IfcBuildingElementProxy", "USERDEFINED", "osm_landscaping")
      BY <1>1, <1>20 DEF Tells, Texts, LayerNames, Assembly!NotKept
    <3> QED
      BY <3>1, ItemTells DEF Assembly!Proxy
  <2>2. HowMany(layer, o) = 1
    BY <1>3, <1>20 DEF Pieced
  <2>3. Assembly!ProductsOf(layer, o, schema) = <<item>>
    BY <1>20 DEF Assembly!ProductsOf, Assembly!Lamp
  <2> HIDE DEF item
  <2> QED
    BY <1>1, <2>1, <2>2, <2>3, OneIsTold
<1>21. CASE layer = "tree"
  <2> DEFINE item == Assembly!Item(o, "tree", "IfcGeographicElement", "USERDEFINED", "osm_vegetation")
  <2>1. Told(layer, o, item)
    <3>1. Tells(layer, o, "tree", "IfcGeographicElement", "USERDEFINED", "osm_vegetation")
      BY <1>1, <1>21 DEF Tells, Texts, LayerNames, Assembly!NotKept
    <3> QED
      BY <3>1, ItemTells DEF Assembly!Proxy
  <2>2. HowMany(layer, o) = 1
    BY <1>3, <1>21 DEF Pieced
  <2>3. Assembly!ProductsOf(layer, o, schema) = <<item>>
    BY <1>21 DEF Assembly!ProductsOf, Assembly!Tree
  <2> HIDE DEF item
  <2> QED
    BY <1>1, <2>1, <2>2, <2>3, OneIsTold
<1>22. CASE layer = "shrub"
  <2> DEFINE item == Assembly!Item(o, "shrub", "IfcGeographicElement", "USERDEFINED", "osm_vegetation")
  <2>1. Told(layer, o, item)
    <3>1. Tells(layer, o, "shrub", "IfcGeographicElement", "USERDEFINED", "osm_vegetation")
      BY <1>1, <1>22 DEF Tells, Texts, LayerNames, Assembly!NotKept
    <3> QED
      BY <3>1, ItemTells DEF Assembly!Proxy
  <2>2. HowMany(layer, o) = 1
    BY <1>3, <1>22 DEF Pieced
  <2>3. Assembly!ProductsOf(layer, o, schema) = <<item>>
    BY <1>22 DEF Assembly!ProductsOf, Assembly!Shrub
  <2> HIDE DEF item
  <2> QED
    BY <1>1, <2>1, <2>2, <2>3, OneIsTold
<1>23. CASE layer = "lawn"
  <2> DEFINE item == Assembly!Item(o, "lawn", "IfcGeographicElement", "USERDEFINED", "osm_vegetation")
  <2>1. Told(layer, o, item)
    <3>1. Tells(layer, o, "lawn", "IfcGeographicElement", "USERDEFINED", "osm_vegetation")
      BY <1>1, <1>23 DEF Tells, Texts, LayerNames, Assembly!NotKept
    <3> QED
      BY <3>1, ItemTells DEF Assembly!Proxy
  <2>2. HowMany(layer, o) = o.pieces
    BY <1>2, <1>23 DEF Pieced
  <2>3. Assembly!ProductsOf(layer, o, schema) = Assembly!PerPiece(o, item)
    BY <1>23 DEF Assembly!ProductsOf, Assembly!Lawn
  <2> HIDE DEF item
  <2> QED
    BY <1>1, <2>1, <2>2, <2>3, PiecesAreTold
<1>24. CASE layer = "bench"
  <2> DEFINE item == Assembly!Item(o, "bench", "IfcFurniture", "USERDEFINED", "osm_landscaping")
  <2>1. Told(layer, o, item)
    <3>1. Tells(layer, o, "bench", "IfcFurniture", "USERDEFINED", "osm_landscaping")
      BY <1>1, <1>24 DEF Tells, Texts, LayerNames, Assembly!NotKept
    <3> QED
      BY <3>1, ItemTells DEF Assembly!Proxy
  <2>2. HowMany(layer, o) = 1
    BY <1>3, <1>24 DEF Pieced
  <2>3. Assembly!ProductsOf(layer, o, schema) = <<item>>
    BY <1>24 DEF Assembly!ProductsOf, Assembly!Bench
  <2> HIDE DEF item
  <2> QED
    BY <1>1, <2>1, <2>2, <2>3, OneIsTold
<1>25. CASE layer = "fence"
  <2> DEFINE type == IF schema = "IFC4X3" THEN "FENCE" ELSE "USERDEFINED"
             wall == Assembly!Item(o, "wall", "IfcWall", "USERDEFINED", "osm_landscaping")
             post == Assembly!Item(o, "post", "IfcRailing", type, Assembly!NotKept)
             fence == Assembly!Item(o, "fence", "IfcRailing", type, "osm_landscaping")
             n == o.posts
             posts == [i \in 1..n |-> post]
  <2>1. Told(layer, o, wall) /\ Told(layer, o, post) /\ Told(layer, o, fence)
    <3>1. type \in Texts /\ Assembly!NotKept \in Texts /\ Assembly!NotKept # "osm_roads"
      BY DEF Texts, Assembly!NotKept
    <3> HIDE DEF type
    <3>2. Tells(layer, o, "wall", "IfcWall", "USERDEFINED", "osm_landscaping")
      BY <1>25 DEF Tells, Texts
    <3>3. Tells(layer, o, "post", "IfcRailing", type, Assembly!NotKept)
      BY <1>25, <3>1 DEF Tells, Texts
    <3>4. Tells(layer, o, "fence", "IfcRailing", type, "osm_landscaping")
      BY <1>25, <3>1 DEF Tells, Texts, LayerNames
    <3>5. Told(layer, o, wall)
      BY <3>2, ItemTells
    <3>6. Told(layer, o, post)
      BY <3>3, ItemTells
    <3>7. Told(layer, o, fence)
      BY <3>4, ItemTells
    <3> QED
      BY <3>5, <3>6, <3>7
  <2>2. Assembly!ProductsOf(layer, o, schema) = IF o.kind = "wall" THEN <<wall>> ELSE Append(posts, fence)
    BY <1>25 DEF Assembly!ProductsOf, Assembly!Fence
  <2>3. HowMany(layer, o) = IF o.kind = "wall" THEN 1 ELSE n + 1
    BY <1>25 DEF HowMany
  <2>4. n \in Nat
    BY <1>1
  <2> HIDE DEF wall, post, fence, n
  <2>5. post \in Items /\ fence \in Items
    BY <2>1 DEF Told
  <2>6. posts \in Seq(Items) /\ Len(posts) = n /\ \A i \in 1..n : posts[i] = post
    <3>1. posts \in [1..n -> Items]
      BY <2>5
    <3> QED
      BY <2>4, <3>1
  <2> HIDE DEF posts
  <2>7. CASE o.kind = "wall"
    BY <2>1, <2>2, <2>3, <2>7, OneIsTold
  <2>8. CASE o.kind # "wall"
    <3> DEFINE ps == Append(posts, fence)
    <3>1. ps \in Seq(Items) /\ Len(ps) = n + 1 /\ \A i \in 1..(n + 1) : ps[i] = post \/ ps[i] = fence
      BY <2>4, <2>5, <2>6
    <3>2. Assembly!ProductsOf(layer, o, schema) = ps /\ HowMany(layer, o) = n + 1
      BY <2>2, <2>3, <2>8
    <3> HIDE DEF ps
    <3> QED
      BY <2>1, <3>1, <3>2 DEF AllTold
  <2> QED
    BY <2>7, <2>8
<1> QED
  BY <1>4, <1>5, <1>6, <1>7, <1>8, <1>9, <1>10, <1>11, <1>12, <1>13, <1>14, <1>15, <1>16, <1>17, <1>18, <1>19, <1>20, <1>21, <1>22, <1>23, <1>24, <1>25 DEF LayerNames

\* The list of a set has each of its elements once.
LEMMA ListOfSet ==
  ASSUME NEW S, IsFiniteSet(S)
  PROVE  LET list == Assembly!SetToSeq(S)
         IN  /\ list \in [1..Cardinality(S) -> S] /\ Cardinality(S) \in Nat
             /\ \A a, b \in 1..Cardinality(S) : list[a] = list[b] => a = b
             /\ \A x \in S : \E i \in 1..Cardinality(S) : list[i] = x
<1> DEFINE n == Cardinality(S)
           list == Assembly!SetToSeq(S)
           Lists(f) == f \in [1..n -> S] /\ Assembly!IsInjective(f)
<1>1. n \in Nat
  BY FS_CardinalityType
<1>2. PICK f : f \in Bijection(1..n, S)
  BY FS_CardinalityType DEF ExistsBijection
<1>3. f \in [1..n -> S] /\ \A a, b \in 1..n : f[a] = f[b] => a = b
  BY <1>2 DEF Bijection, Injection, IsInjective
<1> HIDE DEF n
<1>4. Lists(f)
  BY <1>3 DEF Assembly!IsInjective
<1>5. list = CHOOSE g \in [1..n -> S] : Assembly!IsInjective(g)
  BY OutputsCount DEF Assembly!SetToSeq, n
<1> HIDE DEF list
<1>6. list \in [1..n -> S] /\ Assembly!IsInjective(list)
  BY <1>4, <1>5
<1>7. \A a, b \in 1..n : list[a] = list[b] => a = b
  BY <1>6 DEF Assembly!IsInjective
<1>8. list \in Injection(1..n, S)
  BY <1>6, <1>7 DEF Injection, IsInjective
<1>9. IsFiniteSet(1..n) /\ Cardinality(1..n) = n
  BY <1>1, FS_Interval
<1>10. list \in Surjection(1..n, S)
  BY <1>8, <1>9, FS_Injection DEF n
<1> QED
  BY <1>1, <1>6, <1>7, <1>10 DEF Surjection, list, n

\* Marks of a kind.
MarksOf(marks, k) == {i \in DOMAIN marks : marks[i].kind = k}

\* A product of marks says how many there are of a kind there is, and their network when
\* they have one.
MarkTold(marks, p) ==
  /\ p \in Items /\ p.name = "marking" /\ p.layer = Assembly!NotKept /\ p.ids = <<>>
  /\ ~p.inSpace /\ p.class \notin {"IfcRoad", "IfcBridge", "IfcSpatialZone"}
  /\ MarksOf(marks, p.of.kind) # {} /\ p.of.pieces = Cardinality(MarksOf(marks, p.of.kind))
  /\ \A n : (\A i \in MarksOf(marks, p.of.kind) : marks[i].network = n) => p.of.network = n

\* A product of marks tells how many there are of a kind.
LEMMA MarkingIs ==
  ASSUME NEW marks \in Seq(SiteObjects)
  PROVE  LET ps == Assembly!Marking(marks)
         IN  /\ ps \in Seq(Items) /\ \A i \in DOMAIN ps : MarkTold(marks, ps[i])
             /\ \A i, j \in DOMAIN ps : ps[i].of.kind = ps[j].of.kind => i = j
             /\ \A i \in DOMAIN marks : \E j \in DOMAIN ps : ps[j].of.kind = marks[i].kind
<1> DEFINE n == Len(marks)
           K == {marks[i].kind : i \in DOMAIN marks}
           kinds == Assembly!SetToSeq(K)
           Nets(k) == {marks[i].network : i \in MarksOf(marks, k)}
           whole(k) == [ids |-> <<>>, pieces |-> Assembly!Cardinality(MarksOf(marks, k)), kind |-> k,
                        network |-> IF Assembly!Cardinality(Nets(k)) = 1 THEN CHOOSE m \in Nets(k) : TRUE ELSE ""]
           item(k) == Assembly!Proxy(whole(k), "marking", Assembly!NotKept)
           ps == [i \in DOMAIN kinds |-> item(kinds[i])]
<1>1. /\ n \in Nat /\ DOMAIN marks = 1..n
      /\ \A i \in 1..n : marks[i].kind \in STRING /\ marks[i].network \in STRING
  <2>1. \A o \in SiteObjects : o.kind \in STRING /\ o.network \in STRING
    BY DEF SiteObjects
  <2>2. n \in Nat /\ DOMAIN marks = 1..n /\ \A i \in 1..n : marks[i] \in SiteObjects
    OBVIOUS
  <2> QED
    BY <2>1, <2>2
<1>2. IsFiniteSet(1..n)
  BY <1>1, FS_Interval
<1>3. IsFiniteSet(K)
  <2> DEFINE f == [i \in 1..n |-> marks[i].kind]
             S == 1..n
  <2>1. K = {f[i] : i \in S}
    BY <1>1
  <2> HIDE DEF f, S, K
  <2>2. IsFiniteSet({f[i] : i \in S})
    BY <1>2, FiniteImage DEF S
  <2> QED
    BY <2>1, <2>2
<1>4. ASSUME NEW k \in K PROVE MarkTold(marks, item(k)) /\ item(k).of.kind = k
  <2> DEFINE M == MarksOf(marks, k)
             N == Nets(k)
  <2>1. IsFiniteSet(M) /\ M \subseteq 1..n /\ M # {} /\ k \in STRING
    <3>1. M \subseteq 1..n /\ M # {} /\ k \in STRING
      BY <1>1 DEF MarksOf
    <3> QED
      BY <1>2, <3>1, FS_Subset
  <2>2. Cardinality(M) \in Nat
    BY <2>1, FS_CardinalityType
  <2>3. \A m : (\A i \in M : marks[i].network = m) => N = {m}
    BY <2>1
  <2>4. N # {} /\ N \subseteq STRING
    BY <1>1, <2>1
  <2> DEFINE net == IF Assembly!Cardinality(N) = 1 THEN CHOOSE m \in N : TRUE ELSE ""
             w == [ids |-> <<>>, pieces |-> Assembly!Cardinality(M), kind |-> k, network |-> net]
  <2>11. whole(k) = w
    OBVIOUS
  <2>14. Assembly!Cardinality(M) = Cardinality(M) /\ Assembly!Cardinality(N) = Cardinality(N)
    BY OutputsCount
  <2> HIDE DEF M, N, K, whole
  <2>5. \A m : N = {m} => net = m
    <3>1. \A m : Cardinality({m}) = 1
      BY FS_Singleton
    <3> QED
      BY <2>14, <3>1
  <2>6. net \in Texts
    BY <2>4 DEF Texts
  <2> HIDE DEF net
  <2>7. w \in Wholes
    BY <2>1, <2>2, <2>6, <2>14 DEF Wholes
  <2>8. w.ids = <<>> /\ w.kind = k /\ w.network = net /\ w.pieces = Cardinality(M)
    BY <2>14
  <2> HIDE DEF w
  <2> DEFINE it == [name |-> "marking", class |-> "IfcBuildingElementProxy", type |-> "USERDEFINED",
                    layer |-> Assembly!NotKept, ids |-> w.ids, of |-> w, inSpace |-> FALSE]
  <2>9. item(k) = it
    BY <2>11 DEF Assembly!Proxy, Assembly!Item
  <2>10. it \in Items
    BY <2>7, <2>8 DEF Items, Texts, LayerNames, Assembly!NotKept
  <2>12. it.name = "marking" /\ it.class = "IfcBuildingElementProxy" /\ it.layer = Assembly!NotKept /\ it.ids = w.ids
         /\ it.of = w /\ it.inSpace = FALSE
    OBVIOUS
  <2> HIDE DEF it, item
  <2>13. MarkTold(marks, it)
    BY <2>1, <2>3, <2>5, <2>8, <2>10, <2>12 DEF MarkTold, M
  <2> QED
    BY <2>8, <2>9, <2>12, <2>13
<1> HIDE DEF item, K
<1>5. /\ DOMAIN kinds = 1..Cardinality(K) /\ Cardinality(K) \in Nat /\ \A i \in DOMAIN kinds : kinds[i] \in K
      /\ \A a, b \in DOMAIN kinds : kinds[a] = kinds[b] => a = b
      /\ \A x \in K : \E i \in DOMAIN kinds : kinds[i] = x
  <2>1. /\ kinds \in [1..Cardinality(K) -> K] /\ Cardinality(K) \in Nat
        /\ \A a, b \in 1..Cardinality(K) : kinds[a] = kinds[b] => a = b
        /\ \A x \in K : \E i \in 1..Cardinality(K) : kinds[i] = x
    BY <1>3, ListOfSet
  <2> HIDE DEF kinds
  <2> QED
    BY <2>1
<1> HIDE DEF kinds
<1>6. \A i \in DOMAIN kinds : MarkTold(marks, item(kinds[i])) /\ item(kinds[i]).of.kind = kinds[i]
  BY <1>4, <1>5
<1>7. ps \in Seq(Items) /\ DOMAIN ps = DOMAIN kinds /\ \A i \in DOMAIN kinds : ps[i] = item(kinds[i])
  <2>1. \A i \in DOMAIN kinds : item(kinds[i]) \in Items
    BY <1>6 DEF MarkTold
  <2>2. ps \in [1..Cardinality(K) -> Items]
    BY <1>5, <2>1
  <2> QED
    BY <1>5, <2>2
<1>8. Assembly!Marking(marks) = ps
  BY DEF Assembly!Marking, MarksOf, item, kinds, K
<1> HIDE DEF ps
<1>9. \A i \in DOMAIN marks : marks[i].kind \in K
  BY DEF K
<1>10. \A i \in DOMAIN ps : MarkTold(marks, ps[i])
  BY <1>6, <1>7
<1>11. \A i, j \in DOMAIN ps : ps[i].of.kind = ps[j].of.kind => i = j
  BY <1>5, <1>6, <1>7
<1>12. \A i \in DOMAIN marks : \E j \in DOMAIN ps : ps[j].of.kind = marks[i].kind
  <2> SUFFICES ASSUME NEW i \in DOMAIN marks PROVE \E j \in DOMAIN ps : ps[j].of.kind = marks[i].kind
    OBVIOUS
  <2>1. PICK j \in DOMAIN kinds : kinds[j] = marks[i].kind
    BY <1>5, <1>9
  <2> QED
    BY <1>6, <1>7, <2>1
<1> QED
  BY <1>7, <1>8, <1>10, <1>11, <1>12

\* The layers and their places.
LEMMA LayersAre ==
  /\ DOMAIN Assembly!LAYERS = 1..23
  /\ \A k \in 1..23 : Assembly!LAYERS[k] \in LayerNames
  /\ \A k \in 1..23 : /\ (Assembly!LAYERS[k] = "road" <=> k = 3) /\ (Assembly!LAYERS[k] = "bridge" <=> k = 4)
                      /\ (Assembly!LAYERS[k] = "lane" <=> k = 5) /\ (Assembly!LAYERS[k] = "marking" <=> k = 7)
  /\ \A l \in LayerNames : \E k \in 1..23 : Assembly!LAYERS[k] = l
<1>1. DOMAIN Assembly!LAYERS = 1..23
  BY DEF Assembly!LAYERS
<1>2. \A k \in 1..23 : k \in {1, 2, 3, 4, 5, 6, 7, 8, 9, 10, 11, 12, 13, 14, 15, 16, 17, 18, 19, 20, 21, 22, 23}
  OBVIOUS
<1> DEFINE l == Assembly!LAYERS
<1>3. /\ l[1] = "terrain" /\ l[2] = "building" /\ l[3] = "road" /\ l[4] = "bridge" /\ l[5] = "lane"
      /\ l[6] = "intersection" /\ l[7] = "marking" /\ l[8] = "water" /\ l[9] = "waterway" /\ l[10] = "rail"
      /\ l[11] = "platform" /\ l[12] = "crossing" /\ l[13] = "catenary" /\ l[14] = "pole" /\ l[15] = "wire"
      /\ l[16] = "substation" /\ l[17] = "zone" /\ l[18] = "fence" /\ l[19] = "lamp" /\ l[20] = "tree"
      /\ l[21] = "shrub" /\ l[22] = "lawn" /\ l[23] = "bench"
  BY DEF Assembly!LAYERS
<1> HIDE DEF l
<1>4. \A k \in 1..23 : l[k] \in LayerNames
  BY <1>2, <1>3 DEF LayerNames
<1>5. \A k \in 1..23 : /\ (l[k] = "road" <=> k = 3) /\ (l[k] = "bridge" <=> k = 4)
                      /\ (l[k] = "lane" <=> k = 5) /\ (l[k] = "marking" <=> k = 7)
  BY <1>2, <1>3
<1>6. \A x \in LayerNames : \E k \in 1..23 : l[k] = x
  <2>1. 1..23 = {1, 2, 3, 4, 5, 6, 7, 8, 9, 10, 11, 12, 13, 14, 15, 16, 17, 18, 19, 20, 21, 22, 23}
    OBVIOUS
  <2> QED
    BY <1>3, <2>1 DEF LayerNames
<1> QED
  BY <1>1, <1>4, <1>5, <1>6 DEF l

\* What a file takes of a layer.
Taken(model, layer, filter) ==
  IF layer \in DOMAIN model THEN Assembly!Filtered(model[layer], layer, filter) ELSE <<>>

\* Its objects one by one, or none.
NetworkLists(objects, filter) ==
  [i \in DOMAIN objects |-> IF objects[i].network = filter THEN <<objects[i]>> ELSE <<>>]

\* A filter keeps the objects of its network, in their order.
LEMMA FilterKeeps ==
  ASSUME NEW objects \in Seq(SiteObjects), NEW filter
  PROVE  LET ss == NetworkLists(objects, filter)
         IN  /\ ss \in Seq(Seq(SiteObjects)) /\ Len(ss) = Len(objects)
             /\ \A i \in 1..Len(objects) :
                  /\ objects[i].network = filter => Len(ss[i]) = 1 /\ ss[i][1] = objects[i]
                  /\ objects[i].network # filter => Len(ss[i]) = 0
<1> DEFINE n == Len(objects)
           s(i) == IF objects[i].network = filter THEN <<objects[i]>> ELSE <<>>
           ss == [i \in DOMAIN objects |-> s(i)]
<1>1. n \in Nat /\ DOMAIN objects = 1..n /\ \A i \in 1..n : objects[i] \in SiteObjects
  OBVIOUS
<1>2. ASSUME NEW i \in 1..n
      PROVE  /\ s(i) \in Seq(SiteObjects)
             /\ objects[i].network = filter => Len(s(i)) = 1 /\ s(i)[1] = objects[i]
             /\ objects[i].network # filter => Len(s(i)) = 0
  <2> DEFINE o == objects[i]
  <2>1. o \in SiteObjects
    BY <1>1
  <2>2. s(i) = IF o.network = filter THEN <<o>> ELSE <<>>
    OBVIOUS
  <2> HIDE DEF o, s
  <2>3. <<o>> \in Seq(SiteObjects) /\ Len(<<o>>) = 1 /\ <<o>>[1] = o /\ <<>> \in Seq(SiteObjects) /\ Len(<<>>) = 0
    BY <2>1
  <2>4. CASE o.network = filter
    <3>1. s(i) = <<o>>
      BY <2>2, <2>4
    <3> QED
      BY <2>3, <2>4, <3>1 DEF o
  <2>5. CASE o.network # filter
    <3>1. s(i) = <<>>
      BY <2>2, <2>5
    <3> QED
      BY <2>3, <2>5, <3>1 DEF o
  <2> QED
    BY <2>4, <2>5
<1> HIDE DEF s
<1>3. ss \in Seq(Seq(SiteObjects)) /\ Len(ss) = n /\ \A i \in 1..n : ss[i] = s(i)
  <2>1. \A i \in 1..n : s(i) \in Seq(SiteObjects)
    BY <1>2
  <2>2. ss \in [1..n -> Seq(SiteObjects)]
    BY <1>1, <2>1
  <2> QED
    BY <1>1, <2>2
<1> QED
  BY <1>2, <1>3 DEF s, NetworkLists

\* So the file of a network has those of its objects.
LEMMA FilteredAre ==
  ASSUME NEW objects \in Seq(SiteObjects), NEW layer, NEW filter
  PROVE  LET out == Assembly!Filtered(objects, layer, filter)
         IN  /\ out \in Seq(SiteObjects)
             /\ \A x : x \in ToSet(out) <=>
                  x \in ToSet(objects) /\ (filter = Assembly!NoFilter
                                           \/ (layer \in Assembly!RoadLayers /\ x.network = filter))
<1> DEFINE out == Assembly!Filtered(objects, layer, filter)
           ss == NetworkLists(objects, filter)
<1>1. CASE filter = Assembly!NoFilter
  <2>1. out = objects
    BY <1>1 DEF Assembly!Filtered
  <2> HIDE DEF out
  <2> QED
    BY <1>1, <2>1 DEF out
<1>2. CASE filter # Assembly!NoFilter /\ layer \notin Assembly!RoadLayers
  <2>1. out = <<>>
    BY <1>2 DEF Assembly!Filtered
  <2>2. <<>> \in Seq(SiteObjects) /\ \A x : x \notin ToSet(<<>>)
    BY DEF ToSet
  <2> HIDE DEF out
  <2> QED
    BY <1>2, <2>1, <2>2 DEF out
<1>3. CASE filter # Assembly!NoFilter /\ layer \in Assembly!RoadLayers
  <2>1. out = FlattenSeq(ss)
    BY <1>3, OutputsFlat DEF Assembly!Filtered, NetworkLists
  <2>2. /\ ss \in Seq(Seq(SiteObjects)) /\ Len(ss) = Len(objects)
        /\ \A i \in 1..Len(objects) :
             /\ objects[i].network = filter => Len(ss[i]) = 1 /\ ss[i][1] = objects[i]
             /\ objects[i].network # filter => Len(ss[i]) = 0
    BY FilterKeeps
  <2> HIDE DEF ss, out
  <2>3. out \in Seq(SiteObjects)
    BY <2>1, <2>2, FlatIs
  <2>4. \A x : x \in ToSet(out) <=> \E k \in DOMAIN ss : x \in ToSet(ss[k])
    BY <2>1, <2>2, FlatSet
  <2>5. DOMAIN ss = 1..Len(objects) /\ DOMAIN objects = 1..Len(objects) /\ \A k \in DOMAIN ss : DOMAIN ss[k] = 1..Len(ss[k])
    BY <2>2
  <2>6. ASSUME NEW x \in ToSet(out) PROVE x \in ToSet(objects) /\ x.network = filter
    <3>1. PICK k \in DOMAIN ss : x \in ToSet(ss[k])
      BY <2>4, <2>6
    <3>2. PICK j \in 1..Len(ss[k]) : x = ss[k][j]
      BY <2>5, <3>1 DEF ToSet
    <3>3. objects[k].network = filter
      BY <2>2, <2>5, <3>1, <3>2
    <3>4. x = objects[k] /\ k \in DOMAIN objects
      BY <2>2, <2>5, <3>1, <3>2, <3>3
    <3> QED
      BY <3>3, <3>4 DEF ToSet
  <2>7. ASSUME NEW x \in ToSet(objects), x.network = filter PROVE x \in ToSet(out)
    <3>1. PICK k \in DOMAIN objects : x = objects[k]
      BY DEF ToSet
    <3>2. Len(ss[k]) = 1 /\ ss[k][1] = x
      BY <2>2, <2>5, <2>7, <3>1
    <3>3. x \in ToSet(ss[k])
      BY <2>5, <3>1, <3>2 DEF ToSet
    <3> QED
      BY <2>4, <2>5, <3>1, <3>3
  <2> QED
    BY <1>3, <2>3, <2>6, <2>7 DEF out
<1> QED
  BY <1>1, <1>2, <1>3

\* The lists of a layer, an object's each.
LayerLists(layer, objects, schema) ==
  [i \in DOMAIN objects |-> Assembly!ProductsOf(layer, objects[i], schema)]

\* The lists of a layer tell of its objects.
LEMMA LayerListsAre ==
  ASSUME NEW layer \in LayerNames \ {"marking"}, NEW objects, LayerOf(layer, objects), NEW schema
  PROVE  LET ss == LayerLists(layer, objects, schema)
         IN  /\ ss \in Seq(Seq(Items)) /\ Len(ss) = Len(objects) /\ Len(objects) \in Nat
             /\ \A i \in 1..Len(objects) : Len(ss[i]) = HowMany(layer, objects[i]) /\ AllTold(layer, objects[i], ss[i])
<1> DEFINE n == Len(objects)
           s(i) == Assembly!ProductsOf(layer, objects[i], schema)
           ss == [i \in DOMAIN objects |-> s(i)]
<1>1. n \in Nat /\ DOMAIN objects = 1..n
      /\ \A i \in 1..n : objects[i] \in SiteObjects /\ (layer = "building" => objects[i].layer # "osm_roads")
  <2>1. n \in Nat /\ DOMAIN objects = 1..n /\ \A i \in 1..n : objects[i] \in SiteObjects
    BY DEF LayerOf
  <2>2. \A i \in 1..n : objects[i] \in ToSet(objects)
    BY <2>1 DEF ToSet
  <2> QED
    BY <2>1, <2>2 DEF LayerOf
<1>2. \A i \in 1..n : AllTold(layer, objects[i], s(i))
  BY <1>1, ProductsAreTold
<1> HIDE DEF s
<1>3. \A i \in 1..n : s(i) \in Seq(Items) /\ Len(s(i)) = HowMany(layer, objects[i])
  BY <1>2 DEF AllTold
<1>4. ss \in Seq(Seq(Items)) /\ Len(ss) = n /\ \A i \in 1..n : ss[i] = s(i)
  <2>1. ss \in [1..n -> Seq(Items)]
    BY <1>1, <1>3
  <2> QED
    BY <1>1, <2>1
<1> QED
  BY <1>1, <1>2, <1>3, <1>4 DEF LayerLists, s

\* So do its products,
LEMMA LayerIs ==
  ASSUME NEW layer \in LayerNames, NEW objects, LayerOf(layer, objects), NEW schema
  PROVE  LET ps == Assembly!LayerProducts(layer, objects, schema)
         IN  /\ ps \in Seq(Items)
             /\ layer = "marking" => ps = Assembly!Marking(objects)
             /\ layer # "marking" => \A x : x \in ToSet(ps) <=>
                  \E o \in ToSet(objects) : x \in ToSet(Assembly!ProductsOf(layer, o, schema))
<1> DEFINE ps == Assembly!LayerProducts(layer, objects, schema)
           ss == LayerLists(layer, objects, schema)
<1>1. CASE layer = "marking"
  <2>1. ps = Assembly!Marking(objects)
    BY <1>1 DEF Assembly!LayerProducts
  <2>2. Assembly!Marking(objects) \in Seq(Items)
    BY MarkingIs DEF LayerOf
  <2> QED
    BY <1>1, <2>1, <2>2
<1>2. CASE layer # "marking"
  <2>1. ps = FlattenSeq(ss)
    BY <1>2, OutputsFlat DEF Assembly!LayerProducts, LayerLists
  <2>2. ss \in Seq(Seq(Items)) /\ Len(ss) = Len(objects)
    BY <1>2, LayerListsAre
  <2>3. \A i \in DOMAIN objects : ss[i] = Assembly!ProductsOf(layer, objects[i], schema)
    BY DEF LayerLists
  <2> HIDE DEF ss, ps
  <2>4. ps \in Seq(Items)
    BY <2>1, <2>2, FlatIs
  <2>5. \A x : x \in ToSet(ps) <=> \E k \in DOMAIN ss : x \in ToSet(ss[k])
    BY <2>1, <2>2, FlatSet
  <2>6. DOMAIN ss = DOMAIN objects
    BY <2>2 DEF LayerOf
  <2>7. ToSet(objects) = {objects[i] : i \in DOMAIN objects}
    BY DEF ToSet
  <2>8. \A x : x \in ToSet(ps) <=> \E o \in ToSet(objects) : x \in ToSet(Assembly!ProductsOf(layer, o, schema))
    <3> SUFFICES ASSUME NEW x
                 PROVE  x \in ToSet(ps) <=> \E o \in ToSet(objects) : x \in ToSet(Assembly!ProductsOf(layer, o, schema))
      OBVIOUS
    <3>1. ASSUME x \in ToSet(ps) PROVE \E o \in ToSet(objects) : x \in ToSet(Assembly!ProductsOf(layer, o, schema))
      <4>1. PICK k \in DOMAIN objects : x \in ToSet(ss[k])
        BY <2>5, <2>6, <3>1
      <4>2. ss[k] = Assembly!ProductsOf(layer, objects[k], schema) /\ objects[k] \in ToSet(objects)
        BY <2>3, <2>7
      <4> QED
        BY <4>1, <4>2
    <3>2. ASSUME NEW o \in ToSet(objects), x \in ToSet(Assembly!ProductsOf(layer, o, schema)) PROVE x \in ToSet(ps)
      <4>1. PICK k \in DOMAIN objects : o = objects[k]
        BY <2>7
      <4>2. ss[k] = Assembly!ProductsOf(layer, o, schema)
        BY <2>3, <4>1
      <4>3. x \in ToSet(ss[k])
        BY <3>2, <4>2
      <4> QED
        BY <2>5, <2>6, <4>3
    <3> QED
      BY <3>1, <3>2
  <2> QED
    BY <1>2, <2>4, <2>8 DEF ps
<1> QED
  BY <1>1, <1>2

\* As many products in either schema.
LEMMA LayerIsAsLong ==
  ASSUME NEW layer \in LayerNames, NEW objects, LayerOf(layer, objects), NEW schema, NEW other
  PROVE  Len(Assembly!LayerProducts(layer, objects, schema)) = Len(Assembly!LayerProducts(layer, objects, other))
<1>1. CASE layer = "marking"
  BY <1>1 DEF Assembly!LayerProducts
<1>2. CASE layer # "marking"
  <2> DEFINE ss == LayerLists(layer, objects, schema)
             tt == LayerLists(layer, objects, other)
  <2>1. /\ ss \in Seq(Seq(Items)) /\ Len(ss) = Len(objects)
        /\ \A i \in 1..Len(objects) : Len(ss[i]) = HowMany(layer, objects[i])
    BY <1>2, LayerListsAre
  <2>2. /\ tt \in Seq(Seq(Items)) /\ Len(tt) = Len(objects)
        /\ \A i \in 1..Len(objects) : Len(tt[i]) = HowMany(layer, objects[i])
    BY <1>2, LayerListsAre
  <2>3. /\ Assembly!LayerProducts(layer, objects, schema) = FlattenSeq(ss)
        /\ Assembly!LayerProducts(layer, objects, other) = FlattenSeq(tt)
    BY <1>2, OutputsFlat DEF Assembly!LayerProducts, LayerLists
  <2> HIDE DEF ss, tt
  <2>4. Len(FlattenSeq(ss)) = Len(FlattenSeq(tt))
    BY <2>1, <2>2, FlatLengths
  <2> QED
    BY <2>3, <2>4
<1> QED
  BY <1>1, <1>2

\* What a file takes of a layer is of that layer.
LEMMA TakenIs ==
  ASSUME NEW model, Modelled(model), NEW layer \in LayerNames, NEW filter
  PROVE  LET out == Taken(model, layer, filter)
         IN  /\ LayerOf(layer, out)
             /\ \A x : x \in ToSet(out) <=>
                  /\ layer \in DOMAIN model /\ x \in ToSet(model[layer])
                  /\ filter = Assembly!NoFilter \/ (layer \in Assembly!RoadLayers /\ x.network = filter)
<1> DEFINE out == Taken(model, layer, filter)
<1>1. CASE layer \in DOMAIN model
  <2> DEFINE objects == model[layer]
  <2>1. LayerOf(layer, objects)
    BY <1>1 DEF Modelled
  <2>2. out = Assembly!Filtered(objects, layer, filter)
    BY <1>1 DEF Taken
  <2> HIDE DEF out, objects
  <2>3. /\ out \in Seq(SiteObjects)
        /\ \A x : x \in ToSet(out) <=>
             x \in ToSet(objects) /\ (filter = Assembly!NoFilter
                                      \/ (layer \in Assembly!RoadLayers /\ x.network = filter))
    BY <2>1, <2>2, FilteredAre DEF LayerOf
  <2>4. LayerOf(layer, out)
    BY <2>1, <2>3 DEF LayerOf
  <2> QED
    BY <1>1, <2>3, <2>4 DEF out, objects
<1>2. CASE layer \notin DOMAIN model
  <2>1. out = <<>>
    BY <1>2 DEF Taken
  <2>2. <<>> \in Seq(SiteObjects) /\ \A x : x \notin ToSet(<<>>)
    BY DEF ToSet
  <2> HIDE DEF out
  <2> QED
    BY <1>2, <2>1, <2>2 DEF out, LayerOf
<1> QED
  BY <1>1, <1>2

\* The lists of the layers, in their order.
SiteLists(schema, model, filter) ==
  [k \in DOMAIN Assembly!LAYERS |->
     Assembly!LayerProducts(Assembly!LAYERS[k], Taken(model, Assembly!LAYERS[k], filter), schema)]

\* So the products of a site are those of its layers, one after the other.
LEMMA SiteIs ==
  ASSUME NEW model, Modelled(model), NEW schema, NEW filter
  PROVE  LET ss == SiteLists(schema, model, filter)
         IN  /\ ss \in Seq(Seq(Items)) /\ Len(ss) = 23 /\ DOMAIN ss = 1..23
             /\ Assembly!BuildSiteIfc(schema, model, filter) = FlattenSeq(ss)
             /\ Assembly!BuildSiteIfc(schema, model, filter) \in Seq(Items)
             /\ \A k \in 1..23 : LET layer == Assembly!LAYERS[k]
                                 IN  ss[k] = Assembly!LayerProducts(layer, Taken(model, layer, filter), schema)
<1> DEFINE s(k) == Assembly!LayerProducts(Assembly!LAYERS[k], Taken(model, Assembly!LAYERS[k], filter), schema)
           ss == [k \in DOMAIN Assembly!LAYERS |-> s(k)]
<1>1. \A k \in 1..23 : s(k) \in Seq(Items)
  <2> SUFFICES ASSUME NEW k \in 1..23 PROVE s(k) \in Seq(Items)
    OBVIOUS
  <2> DEFINE layer == Assembly!LAYERS[k]
             objects == Taken(model, layer, filter)
  <2>1. layer \in LayerNames
    BY LayersAre
  <2> HIDE DEF layer
  <2>2. LayerOf(layer, objects)
    BY <2>1, TakenIs
  <2> HIDE DEF objects
  <2>3. Assembly!LayerProducts(layer, objects, schema) \in Seq(Items)
    BY <2>1, <2>2, LayerIs
  <2> QED
    BY <2>3 DEF layer, objects
<1>2. Assembly!BuildSiteIfc(schema, model, filter) = FlattenSeq(ss)
  BY OutputsFlat DEF Assembly!BuildSiteIfc, Taken
<1> HIDE DEF s
<1>3. ss \in [1..23 -> Seq(Items)] /\ \A k \in 1..23 : ss[k] = s(k)
  BY <1>1, LayersAre
<1>4. ss \in Seq(Seq(Items)) /\ Len(ss) = 23 /\ DOMAIN ss = 1..23
  BY <1>3
<1> HIDE DEF ss
<1>5. FlattenSeq(ss) \in Seq(Items)
  BY <1>4, FlatIs
<1> QED
  BY <1>2, <1>3, <1>4, <1>5 DEF ss, s, SiteLists

\* What a product of the kth layer tells.
TellsOf(model, filter, k, p) ==
  LET layer   == Assembly!LAYERS[k]
      objects == Taken(model, layer, filter)
  IN  /\ layer = "marking" => MarkTold(objects, p)
      /\ layer # "marking" => \E o \in ToSet(objects) : Told(layer, o, p)

\* A product of a file tells of an object of its layer.
LEMMA SiteTells ==
  ASSUME NEW model, Modelled(model), NEW schema, NEW filter, NEW k \in 1..23
  PROVE  LET s == SiteLists(schema, model, filter)[k]
         IN  \A i \in 1..Len(s) : TellsOf(model, filter, k, s[i])
<1> DEFINE s == SiteLists(schema, model, filter)[k]
           layer == Assembly!LAYERS[k]
           objects == Taken(model, layer, filter)
<1>1. layer \in LayerNames
  BY LayersAre
<1>2. s = Assembly!LayerProducts(layer, objects, schema)
  BY LayersAre DEF SiteLists
<1> HIDE DEF layer, s
<1>3. LayerOf(layer, objects)
  BY <1>1, TakenIs
<1> HIDE DEF objects
<1>4. /\ s \in Seq(Items)
      /\ layer = "marking" => s = Assembly!Marking(objects)
      /\ layer # "marking" => \A x : x \in ToSet(s) <=>
           \E o \in ToSet(objects) : x \in ToSet(Assembly!ProductsOf(layer, o, schema))
  BY <1>1, <1>2, <1>3, LayerIs
<1>5. DOMAIN s = 1..Len(s) /\ objects \in Seq(SiteObjects)
  BY <1>3, <1>4 DEF LayerOf
<1>6. CASE layer = "marking"
  <2>1. \A i \in DOMAIN s : MarkTold(objects, s[i])
    BY <1>4, <1>5, <1>6, MarkingIs
  <2> QED
    BY <1>5, <1>6, <2>1 DEF TellsOf, layer, objects, s
<1>7. CASE layer # "marking"
  <2> SUFFICES ASSUME NEW i \in 1..Len(s) PROVE \E o \in ToSet(objects) : Told(layer, o, s[i])
    BY <1>7 DEF TellsOf, layer, objects, s
  <2>1. s[i] \in ToSet(s)
    BY <1>5 DEF ToSet
  <2>2. PICK o \in ToSet(objects) : s[i] \in ToSet(Assembly!ProductsOf(layer, o, schema))
    BY <1>4, <1>7, <2>1
  <2> DEFINE ps == Assembly!ProductsOf(layer, o, schema)
  <2>3. o \in SiteObjects /\ (layer = "building" => o.layer # "osm_roads")
    <3>1. PICK j \in DOMAIN objects : o = objects[j]
      BY DEF ToSet
    <3>2. objects[j] \in SiteObjects
      BY <1>5
    <3> QED
      BY <1>3, <3>1, <3>2 DEF LayerOf
  <2>4. AllTold(layer, o, ps)
    BY <1>1, <1>7, <2>3, ProductsAreTold
  <2> HIDE DEF ps
  <2>5. ps \in Seq(Items) /\ DOMAIN ps = 1..Len(ps) /\ \A j \in 1..Len(ps) : Told(layer, o, ps[j])
    BY <2>4 DEF AllTold
  <2>6. PICK j \in DOMAIN ps : s[i] = ps[j]
    BY <2>2 DEF ToSet, ps
  <2> QED
    BY <2>5, <2>6
<1> QED
  BY <1>6, <1>7

\* So every product of a file tells its layer.
LEMMA ProductTells ==
  ASSUME NEW model, Modelled(model), NEW schema, NEW filter, NEW p \in ToSet(Assembly!BuildSiteIfc(schema, model, filter))
  PROVE  \E k \in 1..23 : TellsOf(model, filter, k, p)
<1> DEFINE ss == SiteLists(schema, model, filter)
           ps == Assembly!BuildSiteIfc(schema, model, filter)
<1>1. ss \in Seq(Seq(Items)) /\ DOMAIN ss = 1..23 /\ ps = FlattenSeq(ss)
  BY SiteIs
<1>2. \A k \in 1..23 : \A i \in 1..Len(ss[k]) : TellsOf(model, filter, k, ss[k][i])
  BY SiteTells
<1>3. p \in ToSet(ps)
  OBVIOUS
<1> HIDE DEF ss, ps
<1>4. PICK k \in 1..23 : p \in ToSet(ss[k])
  BY <1>1, <1>3, FlatSet
<1>5. DOMAIN ss[k] = 1..Len(ss[k])
  BY <1>1
<1>6. PICK i \in 1..Len(ss[k]) : p = ss[k][i]
  BY <1>4, <1>5 DEF ToSet
<1> QED
  BY <1>2, <1>6

\* It is aggregated under the site when it is no element.
LEMMA SpacesAreTold ==
  ASSUME NEW model, NEW filter, NEW k \in 1..23, NEW p, TellsOf(model, filter, k, p)
  PROVE  p \in Items /\ (p.inSpace <=> p.class \in {"IfcRoad", "IfcBridge", "IfcSpatialZone"})
<1> DEFINE layer == Assembly!LAYERS[k]
           objects == Taken(model, layer, filter)
<1>1. /\ layer = "marking" => MarkTold(objects, p)
      /\ layer # "marking" => \E o \in ToSet(objects) : Told(layer, o, p)
  BY DEF TellsOf
<1> HIDE DEF layer, objects
<1>2. MarkTold(objects, p) => p \in Items /\ (p.inSpace <=> p.class \in {"IfcRoad", "IfcBridge", "IfcSpatialZone"})
  BY DEF MarkTold
<1>3. \A o : Told(layer, o, p) => p \in Items /\ (p.inSpace <=> p.class \in {"IfcRoad", "IfcBridge", "IfcSpatialZone"})
  BY DEF Told
<1> QED
  BY <1>1, <1>2, <1>3
-----------------------------------------------------------------------------
(* The registry.                                                            *)

Entries == [key : Texts \X Int, product : Int]

\* The entries of a product.
EntriesOf(p, i) ==
  IF p.layer = Assembly!NotKept THEN <<>>
  ELSE [j \in DOMAIN p.ids |-> [key |-> <<p.layer, p.ids[j]>>, product |-> i]]

\* A product is entered under the names of what it is made of.
LEMMA EntriesAre ==
  ASSUME NEW p \in Items, NEW i \in Int
  PROVE  LET s == EntriesOf(p, i)
         IN  /\ s \in Seq(Entries) /\ (Len(s) > 0 => p.layer # Assembly!NotKept)
             /\ \A j \in 1..Len(s) : j \in DOMAIN p.ids /\ s[j].key = <<p.layer, p.ids[j]>> /\ s[j].product = i
             /\ p.layer # Assembly!NotKept => Len(s) = Len(p.ids)
<1> DEFINE n == Len(p.ids)
           entry(j) == [key |-> <<p.layer, p.ids[j]>>, product |-> i]
           s == [j \in DOMAIN p.ids |-> entry(j)]
<1>1. n \in Nat /\ DOMAIN p.ids = 1..n /\ p.layer \in Texts /\ \A j \in 1..n : p.ids[j] \in Int
  <2>1. p.ids \in Seq(Int) /\ p.layer \in Texts
    BY DEF Items
  <2> QED
    BY <2>1
<1>2. \A j \in 1..n : entry(j) \in Entries /\ entry(j).key = <<p.layer, p.ids[j]>> /\ entry(j).product = i
  BY <1>1 DEF Entries
<1> HIDE DEF entry
<1>3. s \in Seq(Entries) /\ Len(s) = n /\ \A j \in 1..n : s[j] = entry(j)
  <2>1. s \in [1..n -> Entries]
    BY <1>1, <1>2
  <2> QED
    BY <1>1, <2>1
<1>4. EntriesOf(p, i) = IF p.layer = Assembly!NotKept THEN <<>> ELSE s
  BY DEF EntriesOf, entry
<1>5. <<>> \in Seq(Entries) /\ Len(<<>>) = 0
  OBVIOUS
<1> HIDE DEF s
<1>6. CASE p.layer = Assembly!NotKept
  <2>1. EntriesOf(p, i) = <<>>
    BY <1>4, <1>6
  <2> QED
    BY <1>5, <1>6, <2>1
<1>7. CASE p.layer # Assembly!NotKept
  <2>1. EntriesOf(p, i) = s
    BY <1>4, <1>7
  <2> QED
    BY <1>1, <1>2, <1>3, <1>7, <2>1
<1> QED
  BY <1>6, <1>7

\* The registry lists the products in their order, each with all its objects.
LEMMA RegistryIs ==
  ASSUME NEW products \in Seq(Items)
  PROVE  LET entries == Assembly!Registry(products)
         IN  /\ entries \in Seq(Entries)
             /\ \A p \in DOMAIN entries :
                  LET i == entries[p].product
                  IN  /\ i \in DOMAIN products /\ products[i].layer # Assembly!NotKept
                      /\ \E j \in DOMAIN products[i].ids : entries[p].key = <<products[i].layer, products[i].ids[j]>>
             /\ \A p, q \in DOMAIN entries : p < q => entries[p].product <= entries[q].product
             /\ \A i \in DOMAIN products : products[i].layer # Assembly!NotKept =>
                  \A j \in DOMAIN products[i].ids : \E p \in DOMAIN entries :
                    entries[p].key = <<products[i].layer, products[i].ids[j]>> /\ entries[p].product = i
<1> DEFINE n == Len(products)
           s(i) == EntriesOf(products[i], i)
           ss == [i \in DOMAIN products |-> s(i)]
           entries == Assembly!Registry(products)
<1>1. n \in Nat /\ DOMAIN products = 1..n /\ \A i \in 1..n : products[i] \in Items
  OBVIOUS
<1>2. \A i \in 1..n :
        /\ s(i) \in Seq(Entries) /\ (Len(s(i)) > 0 => products[i].layer # Assembly!NotKept)
        /\ \A j \in 1..Len(s(i)) : /\ j \in DOMAIN products[i].ids /\ s(i)[j].product = i
                                   /\ s(i)[j].key = <<products[i].layer, products[i].ids[j]>>
        /\ products[i].layer # Assembly!NotKept => Len(s(i)) = Len(products[i].ids)
  BY <1>1, EntriesAre
<1>3. entries = FlattenSeq(ss)
  BY OutputsFlat DEF Assembly!Registry, EntriesOf
<1> HIDE DEF s
<1>4. ss \in Seq(Seq(Entries)) /\ Len(ss) = n /\ \A i \in 1..n : ss[i] = s(i)
  <2>1. ss \in [1..n -> Seq(Entries)]
    BY <1>1, <1>2
  <2> QED
    BY <1>1, <2>1
<1> HIDE DEF ss, entries, n
<1>5. entries \in Seq(Entries) /\ \E at : Flat(entries, at, ss)
  BY <1>3, <1>4, FlatIs
<1>6. PICK at : Flat(entries, at, ss)
  BY <1>5
<1>7. Placed(entries, at, ss)
  BY <1>4, <1>5, <1>6, FlatPlaces
<1>8. /\ \A j, k \in 0..n : at[j] \in Nat /\ (j <= k => at[j] <= at[k])
      /\ \A k \in 1..n : \A i \in 1..Len(ss[k]) : at[k - 1] + i \in DOMAIN entries /\ at[k - 1] + i <= at[k]
      /\ \A p \in DOMAIN entries : \E k \in 1..n : \E i \in 1..Len(ss[k]) : p = at[k - 1] + i
  BY <1>4, <1>7 DEF Placed
<1>9. \A k \in 1..n : \A i \in 1..Len(ss[k]) : entries[at[k - 1] + i] = s(k)[i]
  BY <1>4, <1>6 DEF Flat
<1>10. ASSUME NEW p \in DOMAIN entries
       PROVE  \E k \in 1..n : \E j \in 1..Len(s(k)) : p = at[k - 1] + j /\ entries[p] = s(k)[j] /\ p <= at[k]
  <2>1. PICK k \in 1..n : \E j \in 1..Len(ss[k]) : p = at[k - 1] + j
    BY <1>8
  <2>2. PICK j \in 1..Len(ss[k]) : p = at[k - 1] + j
    BY <2>1
  <2> QED
    BY <1>4, <1>8, <1>9, <2>2
<1>11. ASSUME NEW p \in DOMAIN entries
       PROVE  LET i == entries[p].product
              IN  /\ i \in 1..n /\ products[i].layer # Assembly!NotKept
                  /\ \E j \in DOMAIN products[i].ids : entries[p].key = <<products[i].layer, products[i].ids[j]>>
  <2>6. PICK k \in 1..n : \E j \in 1..Len(s(k)) : entries[p] = s(k)[j]
    BY <1>10
  <2>1. PICK j \in 1..Len(s(k)) : entries[p] = s(k)[j]
    BY <2>6
  <2>2. /\ j \in DOMAIN products[k].ids /\ s(k)[j].product = k
        /\ s(k)[j].key = <<products[k].layer, products[k].ids[j]>>
    BY <1>2
  <2>3. Len(s(k)) > 0
    BY <1>2
  <2>4. products[k].layer # Assembly!NotKept
    BY <1>2, <2>3
  <2>5. entries[p].product = k
    BY <2>1, <2>2
  <2> QED
    BY <2>1, <2>2, <2>4, <2>5
<1>12. ASSUME NEW p \in DOMAIN entries, NEW q \in DOMAIN entries, p < q PROVE entries[p].product <= entries[q].product
  <2>5. PICK k \in 1..n : \E j \in 1..Len(s(k)) :
              p = at[k - 1] + j /\ entries[p] = s(k)[j] /\ p <= at[k]
    BY <1>10
  <2>1. PICK j \in 1..Len(s(k)) : p = at[k - 1] + j /\ entries[p] = s(k)[j] /\ p <= at[k]
    BY <2>5
  <2>6. PICK l \in 1..n : \E m \in 1..Len(s(l)) :
              q = at[l - 1] + m /\ entries[q] = s(l)[m] /\ q <= at[l]
    BY <1>10
  <2>2. PICK m \in 1..Len(s(l)) : q = at[l - 1] + m /\ entries[q] = s(l)[m] /\ q <= at[l]
    BY <2>6
  <2>3. entries[p].product = k /\ entries[q].product = l
    BY <1>2, <2>1, <2>2
  <2>4. ASSUME l < k PROVE FALSE
    <3>1. l \in 0..n /\ k - 1 \in 0..n /\ n \in Nat /\ l <= k - 1
      BY <1>1, <2>4
    <3>2. at[l] <= at[k - 1] /\ at[l] \in Nat /\ at[k - 1] \in Nat
      BY <1>8, <3>1
    <3>3. p \in Int /\ q \in Int /\ j \in Int /\ j >= 1
      BY <1>5
    <3>4. p = at[k - 1] + j
      BY <2>1
    <3>5. q <= at[l]
      BY <2>2
    <3>6. p < q
      BY <1>12
    <3> QED
      BY <3>2, <3>3, <3>4, <3>5, <3>6
  <2> QED
    BY <1>1, <2>3, <2>4
<1>13. ASSUME NEW i \in DOMAIN products, products[i].layer # Assembly!NotKept, NEW j \in DOMAIN products[i].ids
       PROVE  \E p \in DOMAIN entries :
                entries[p].key = <<products[i].layer, products[i].ids[j]>> /\ entries[p].product = i
  <2>1. i \in 1..n /\ products[i].ids \in Seq(Int)
    BY <1>1 DEF Items
  <2>2. j \in 1..Len(products[i].ids)
    BY <2>1
  <2>3. j \in 1..Len(s(i)) /\ j \in 1..Len(ss[i])
    BY <1>2, <1>4, <1>13, <2>1, <2>2
  <2>4. at[i - 1] + j \in DOMAIN entries /\ entries[at[i - 1] + j] = s(i)[j]
    BY <1>8, <1>9, <2>1, <2>3
  <2>5. s(i)[j].product = i /\ s(i)[j].key = <<products[i].layer, products[i].ids[j]>>
    BY <1>2, <2>1, <2>3
  <2> QED
    BY <2>4, <2>5
<1> QED
  BY <1>1, <1>5, <1>11, <1>12, <1>13 DEF entries

\* What is registered of an object is the last product of it.
LEMMA LastIsRegistered ==
  ASSUME NEW products \in Seq(Items), NEW i \in DOMAIN products, products[i].layer # Assembly!NotKept,
         NEW id \in ToSet(products[i].ids)
  PROVE  LET key   == <<products[i].layer, id>>
             all   == Assembly!Registered(Assembly!Registry(products))
             found == all[key]
         IN  /\ key \in DOMAIN all /\ found \in DOMAIN products /\ found >= i
             /\ id \in ToSet(products[found].ids) /\ products[found].layer = products[i].layer
<1> DEFINE key == <<products[i].layer, id>>
           entries == Assembly!Registry(products)
           all == Assembly!Registered(entries)
           S == {p \in DOMAIN entries : entries[p].key = key}
           m == Max(S)
<1>1. /\ entries \in Seq(Entries)
      /\ \A p \in DOMAIN entries :
           LET k == entries[p].product
           IN  /\ k \in DOMAIN products /\ products[k].layer # Assembly!NotKept
               /\ \E j \in DOMAIN products[k].ids : entries[p].key = <<products[k].layer, products[k].ids[j]>>
      /\ \A p, q \in DOMAIN entries : p < q => entries[p].product <= entries[q].product
      /\ \A k \in DOMAIN products : products[k].layer # Assembly!NotKept =>
           \A j \in DOMAIN products[k].ids : \E p \in DOMAIN entries :
             entries[p].key = <<products[k].layer, products[k].ids[j]>> /\ entries[p].product = k
  BY RegistryIs
<1>2. PICK j \in DOMAIN products[i].ids : id = products[i].ids[j]
  BY DEF ToSet
<1> HIDE DEF entries
<1>3. PICK p \in DOMAIN entries : entries[p].key = key /\ entries[p].product = i
  BY <1>1, <1>2
<1>4. DOMAIN entries = 1..Len(entries) /\ Len(entries) \in Nat
  BY <1>1
<1>5. S \subseteq Int /\ S # {} /\ IsFiniteSet(S) /\ p \in S
  <2>1. S \subseteq 1..Len(entries) /\ p \in S
    BY <1>3, <1>4
  <2>2. IsFiniteSet(1..Len(entries))
    BY <1>4, FS_Interval
  <2>3. IsFiniteSet(S)
    BY <2>1, <2>2, FS_Subset
  <2> QED
    BY <2>1, <2>3
<1>6. m \in S /\ m >= p
  <2> HIDE DEF S
  <2> QED
    BY <1>5, MaxIs
<1>7. m \in DOMAIN entries /\ entries[m].key = key
  BY <1>6
<1>8. key \in DOMAIN all /\ all[key] = entries[m].product
  <2>1. key \in {e.key : e \in Assembly!ToSet(entries)}
    <3>1. entries[m] \in ToSet(entries)
      BY <1>7 DEF ToSet
    <3> QED
      BY <1>7, <3>1, OutputsSet
  <2>2. Assembly!Max(S) = m
    BY OutputsMax
  <2> HIDE DEF m, key
  <2> QED
    BY <2>1, <2>2 DEF Assembly!Registered
<1> DEFINE found == entries[m].product
<1>9. /\ found \in DOMAIN products
      /\ \E k \in DOMAIN products[found].ids : key = <<products[found].layer, products[found].ids[k]>>
  <2> HIDE DEF m
  <2>1. entries[m].key = key /\ m \in DOMAIN entries
    BY <1>7
  <2> HIDE DEF key
  <2> QED
    BY <1>1, <2>1
<1>10. found >= i
  <2>1. p \in Int /\ m \in Int /\ found \in Int /\ i \in Int
    <3> HIDE DEF m
    <3>1. DOMAIN products = 1..Len(products)
      OBVIOUS
    <3> QED
      BY <1>4, <1>7, <1>9, <3>1
  <2>2. p = m \/ p < m
    BY <1>6, <2>1
  <2>3. p < m => entries[p].product <= found
    BY <1>1, <1>7
  <2>4. i = entries[p].product
    BY <1>3
  <2> HIDE DEF m
  <2>5. p = m => found = i
    BY <2>4
  <2> QED
    BY <2>1, <2>2, <2>3, <2>4, <2>5
<1>11. id \in ToSet(products[found].ids) /\ products[found].layer = products[i].layer
  BY <1>9 DEF ToSet
<1> QED
  BY <1>8, <1>9, <1>10, <1>11 DEF entries

\* Every place of lists that were put together is of one of them, in their order.
Blocks(block, flat, ss) ==
  /\ block \in [DOMAIN flat -> 1..Len(ss)]
  /\ \A p \in DOMAIN flat : \E i \in 1..Len(ss[block[p]]) : flat[p] = ss[block[p]][i]
  /\ \A p, q \in DOMAIN flat : p <= q => block[p] <= block[q]

\* A place of a flattened list belongs to one of the lists.
LEMMA BlocksExist ==
  ASSUME NEW V, NEW ss \in Seq(Seq(V))
  PROVE  \E block : Blocks(block, FlattenSeq(ss), ss)
<1> DEFINE n == Len(ss)
           flat == FlattenSeq(ss)
<1>1. flat \in Seq(V) /\ n \in Nat
  BY FlatIs
<1>2. PICK at : Flat(flat, at, ss)
  BY FlatIs
<1> HIDE DEF flat, n
<1>3. Placed(flat, at, ss)
  BY <1>1, <1>2, FlatPlaces
<1>4. /\ \A j, k \in 0..n : at[j] \in Nat /\ (j <= k => at[j] <= at[k])
      /\ \A k \in 1..n : \A i \in 1..Len(ss[k]) : at[k - 1] + i \in DOMAIN flat /\ at[k - 1] + i <= at[k]
      /\ \A p \in DOMAIN flat : \E k \in 1..n : \E i \in 1..Len(ss[k]) : p = at[k - 1] + i
  BY <1>3 DEF Placed, n
<1>5. \A k \in 1..n : \A i \in 1..Len(ss[k]) : flat[at[k - 1] + i] = ss[k][i]
  BY <1>2 DEF Flat, n
<1> DEFINE Has(p, k) == \E i \in 1..Len(ss[k]) : p = at[k - 1] + i
           block == [p \in DOMAIN flat |-> CHOOSE k \in 1..n : Has(p, k)]
<1>6. \A p \in DOMAIN flat : block[p] \in 1..n /\ Has(p, block[p])
  BY <1>4
<1> HIDE DEF block
<1>7. \A p \in DOMAIN flat : \E i \in 1..Len(ss[block[p]]) : flat[p] = ss[block[p]][i]
  BY <1>5, <1>6
<1>8. ASSUME NEW p \in DOMAIN flat, NEW q \in DOMAIN flat, p <= q PROVE block[p] <= block[q]
  <2> DEFINE k == block[p]
             l == block[q]
  <2>1. k \in 1..n /\ l \in 1..n
    BY <1>6
  <2>2. PICK i \in 1..Len(ss[k]) : p = at[k - 1] + i
    BY <1>6
  <2>3. PICK j \in 1..Len(ss[l]) : q = at[l - 1] + j
    BY <1>6
  <2>4. q <= at[l]
    BY <1>4, <2>1, <2>3
  <2> HIDE DEF k, l
  <2>5. ASSUME l < k PROVE FALSE
    <3>1. l \in 0..n /\ k - 1 \in 0..n /\ l <= k - 1
      BY <1>1, <2>1, <2>5
    <3>2. at[l] <= at[k - 1] /\ at[l] \in Nat /\ at[k - 1] \in Nat
      BY <1>4, <3>1
    <3>3. p \in Int /\ q \in Int /\ i \in Int /\ i >= 1
      BY <1>1
    <3>4. p <= q
      BY <1>8
    <3> QED
      BY <2>2, <2>4, <3>2, <3>3, <3>4
  <2> QED
    BY <2>1, <2>5 DEF k, l
<1>9. block \in [DOMAIN flat -> 1..n]
  BY <1>6 DEF block
<1> QED
  BY <1>7, <1>8, <1>9 DEF Blocks, flat, n

\* A lane is kept among the roads, where nothing but lanes comes after it.
LEMMA LanesAreLast ==
  ASSUME NEW model, NEW filter, NEW k \in 1..23, NEW p, TellsOf(model, filter, k, p)
  PROVE  /\ p.name = "lane" => k = 5
         /\ k = 5 => p.name = "lane" /\ p.layer = "osm_roads"
         /\ p.layer = "osm_roads" => k <= 5
<1> DEFINE layer == Assembly!LAYERS[k]
           objects == Taken(model, layer, filter)
<1>1. /\ layer = "marking" => MarkTold(objects, p)
      /\ layer # "marking" => \E o \in ToSet(objects) : Told(layer, o, p)
  BY DEF TellsOf
<1>2. (layer = "road" <=> k = 3) /\ (layer = "bridge" <=> k = 4) /\ (layer = "lane" <=> k = 5) /\ (layer = "marking" <=> k = 7)
  BY LayersAre
<1> HIDE DEF layer, objects
<1>3. MarkTold(objects, p) => p.name = "marking" /\ p.layer # "osm_roads"
  BY DEF MarkTold, Assembly!NotKept
<1>4. \A o : Told(layer, o, p) =>
        /\ p.name = layer \/ (layer = "fence" /\ p.name \in {"wall", "post", "fence"})
        /\ p.layer = "osm_roads" => layer \in {"road", "bridge", "lane"}
        /\ layer = "lane" => p.layer = "osm_roads"
  BY DEF Told
<1> QED
  BY <1>1, <1>2, <1>3, <1>4
-----------------------------------------------------------------------------
(* The files of the networks and of the layers.                             *)

\* x is made of the object o of a layer.
Made(model, schema, x, layer, o) ==
  /\ layer \in DOMAIN model /\ layer # "marking" /\ o \in ToSet(model[layer])
  /\ x \in ToSet(Assembly!ProductsOf(layer, o, schema))

\* A filter lets an object pass.
Passes(filter, layer, o) == filter = Assembly!NoFilter \/ (layer \in Assembly!RoadLayers /\ o.network = filter)

\* What is made of an object tells of it.
LEMMA MadeIsTold ==
  ASSUME NEW model, Modelled(model), NEW schema, NEW x, NEW layer, NEW o, Made(model, schema, x, layer, o)
  PROVE  /\ Told(layer, o, x) /\ layer \in LayerNames \ {"marking"} /\ o \in SiteObjects
         /\ x.name # "marking" /\ (x.name \in Assembly!RoadLayers <=> layer \in Assembly!RoadLayers)
<1> DEFINE ps == Assembly!ProductsOf(layer, o, schema)
           objects == model[layer]
<1>1. layer \in LayerNames \ {"marking"} /\ LayerOf(layer, objects) /\ o \in ToSet(objects) /\ x \in ToSet(ps)
  BY DEF Made, Modelled
<1> HIDE DEF objects
<1>2. o \in SiteObjects /\ (layer = "building" => o.layer # "osm_roads")
  <2>1. PICK j \in DOMAIN objects : o = objects[j]
    BY <1>1 DEF ToSet
  <2>2. objects[j] \in SiteObjects
    BY <1>1 DEF LayerOf
  <2> QED
    BY <1>1, <2>1, <2>2 DEF LayerOf
<1>3. AllTold(layer, o, ps)
  BY <1>1, <1>2, ProductsAreTold
<1> HIDE DEF ps
<1>4. DOMAIN ps = 1..Len(ps) /\ \A i \in 1..Len(ps) : Told(layer, o, ps[i])
  BY <1>3 DEF AllTold
<1>5. Told(layer, o, x)
  BY <1>1, <1>4 DEF ToSet
<1>6. x.name = layer \/ (layer = "fence" /\ x.name \in {"wall", "post", "fence"})
  BY <1>5 DEF Told
<1> QED
  BY <1>1, <1>2, <1>5, <1>6 DEF Assembly!RoadLayers

\* What a file has beside marks.
LEMMA SiteHas ==
  ASSUME NEW model, Modelled(model), NEW schema, NEW filter, NEW x
  PROVE  LET ps == Assembly!BuildSiteIfc(schema, model, filter)
         IN  x \in ToSet(ps) /\ x.name # "marking"
               <=> \E layer \in LayerNames : \E o : Made(model, schema, x, layer, o) /\ Passes(filter, layer, o)
<1> DEFINE ss == SiteLists(schema, model, filter)
           ps == Assembly!BuildSiteIfc(schema, model, filter)
<1>1. ss \in Seq(Seq(Items)) /\ DOMAIN ss = 1..23 /\ ps = FlattenSeq(ss)
  BY SiteIs
<1>2. \A k \in 1..23 : ss[k] = Assembly!LayerProducts(Assembly!LAYERS[k], Taken(model, Assembly!LAYERS[k], filter), schema)
  BY LayersAre DEF SiteLists
<1>3. \A k \in 1..23 : \A i \in 1..Len(ss[k]) : TellsOf(model, filter, k, ss[k][i])
  BY SiteTells
<1> HIDE DEF ss, ps
<1>4. x \in ToSet(ps) <=> \E k \in 1..23 : x \in ToSet(ss[k])
  BY <1>1, FlatSet
<1>5. ASSUME NEW k \in 1..23, Assembly!LAYERS[k] # "marking"
      PROVE  x \in ToSet(ss[k]) <=>
               \E o : Made(model, schema, x, Assembly!LAYERS[k], o) /\ Passes(filter, Assembly!LAYERS[k], o)
  <2> DEFINE layer == Assembly!LAYERS[k]
             objects == Taken(model, layer, filter)
  <2>1. layer \in LayerNames /\ layer # "marking"
    BY <1>5, LayersAre
  <2>2. ss[k] = Assembly!LayerProducts(layer, objects, schema)
    BY <1>2
  <2> HIDE DEF layer
  <2>3. /\ LayerOf(layer, objects)
        /\ \A o : o \in ToSet(objects) <=>
             /\ layer \in DOMAIN model /\ o \in ToSet(model[layer])
             /\ filter = Assembly!NoFilter \/ (layer \in Assembly!RoadLayers /\ o.network = filter)
    BY <2>1, TakenIs
  <2> HIDE DEF objects
  <2>4. x \in ToSet(ss[k]) <=> \E o \in ToSet(objects) : x \in ToSet(Assembly!ProductsOf(layer, o, schema))
    BY <2>1, <2>2, <2>3, LayerIs
  <2>5. \A o : (o \in ToSet(objects) /\ x \in ToSet(Assembly!ProductsOf(layer, o, schema)))
                 <=> Made(model, schema, x, layer, o) /\ Passes(filter, layer, o)
    BY <2>1, <2>3 DEF Made, Passes
  <2> QED
    BY <2>4, <2>5 DEF layer
<1>6. ASSUME NEW k \in 1..23, Assembly!LAYERS[k] = "marking", x \in ToSet(ss[k]) PROVE x.name = "marking"
  <2>1. DOMAIN ss[k] = 1..Len(ss[k])
    BY <1>1
  <2>2. PICK i \in 1..Len(ss[k]) : x = ss[k][i]
    BY <1>6, <2>1 DEF ToSet
  <2>3. TellsOf(model, filter, k, x)
    BY <1>3, <2>2
  <2>4. MarkTold(Taken(model, Assembly!LAYERS[k], filter), x)
    BY <1>6, <2>3 DEF TellsOf
  <2> QED
    BY <2>4 DEF MarkTold
<1>7. ASSUME x \in ToSet(ps), x.name # "marking"
      PROVE  \E layer \in LayerNames : \E o : Made(model, schema, x, layer, o) /\ Passes(filter, layer, o)
  <2>1. PICK k \in 1..23 : x \in ToSet(ss[k])
    BY <1>4, <1>7
  <2>2. Assembly!LAYERS[k] # "marking" /\ Assembly!LAYERS[k] \in LayerNames
    BY <1>6, <1>7, <2>1, LayersAre
  <2> QED
    BY <1>5, <2>1, <2>2
<1>8. ASSUME NEW layer \in LayerNames, NEW o, Made(model, schema, x, layer, o), Passes(filter, layer, o)
      PROVE  x \in ToSet(ps) /\ x.name # "marking"
  <2>1. x.name # "marking" /\ layer # "marking"
    BY <1>8, MadeIsTold
  <2>2. PICK k \in 1..23 : Assembly!LAYERS[k] = layer
    BY LayersAre
  <2>3. x \in ToSet(ss[k])
    BY <1>5, <1>8, <2>1, <2>2
  <2> QED
    BY <1>4, <2>1, <2>3
<1> QED
  BY <1>7, <1>8 DEF ps

\* What the registry has is of a product.
LEMMA KeysAreOfProducts ==
  ASSUME NEW products \in Seq(Items), NEW key \in DOMAIN Assembly!Registered(Assembly!Registry(products))
  PROVE  \E i \in DOMAIN products : /\ products[i].layer # Assembly!NotKept
                                    /\ \E id \in ToSet(products[i].ids) : key = <<products[i].layer, id>>
<1> DEFINE entries == Assembly!Registry(products)
<1>1. \A p \in DOMAIN entries :
        LET i == entries[p].product
        IN  /\ i \in DOMAIN products /\ products[i].layer # Assembly!NotKept
            /\ \E j \in DOMAIN products[i].ids : entries[p].key = <<products[i].layer, products[i].ids[j]>>
  BY RegistryIs
<1>2. key \in {e.key : e \in Assembly!ToSet(entries)}
  BY DEF Assembly!Registered
<1> HIDE DEF entries
<1>3. PICK p \in DOMAIN entries : key = entries[p].key
  BY <1>2, OutputsSet DEF ToSet
<1> QED
  BY <1>1, <1>3 DEF ToSet

\* The same object makes a product of the same layer and objects in any schema.
LEMMA SchemasMakeTheSame ==
  ASSUME NEW layer \in LayerNames \ {"marking"}, NEW o, o.pieces \in Nat, o.posts \in Nat, NEW schema, NEW other,
         NEW x \in ToSet(Assembly!ProductsOf(layer, o, schema)), x.layer # Assembly!NotKept
  PROVE  \E y \in ToSet(Assembly!ProductsOf(layer, o, other)) : y.layer = x.layer /\ y.ids = x.ids
<1> DEFINE ps == Assembly!ProductsOf(layer, o, schema)
           qs == Assembly!ProductsOf(layer, o, other)
<1>1. CASE layer = "road"
  <2> DEFINE road(s) == IF s = "IFC4X3"
                        THEN Assembly!InSpace(Assembly!Item(o, "road", "IfcRoad", "none", "osm_roads"))
                        ELSE Assembly!Proxy(o, "road", "osm_roads")
  <2>1. \A s : road(s).layer = "osm_roads" /\ road(s).ids = o.ids
    BY DEF Assembly!InSpace, Assembly!Item, Assembly!Proxy
  <2>2. ps = [i \in 1..o.pieces |-> road(schema)] /\ qs = [i \in 1..o.pieces |-> road(other)]
    BY <1>1 DEF Assembly!ProductsOf, Assembly!Road, Assembly!PerPiece
  <2> HIDE DEF road, ps, qs
  <2>3. PICK i \in 1..o.pieces : x = road(schema)
    BY <2>2 DEF ToSet, ps
  <2>4. road(other) \in ToSet(qs)
    BY <2>2, <2>3 DEF ToSet
  <2> QED
    BY <2>1, <2>3, <2>4 DEF qs
<1>2. CASE layer = "bridge"
  <2> DEFINE bridge(s) == IF s = "IFC4X3"
                          THEN Assembly!InSpace(Assembly!Item(o, "bridge", "IfcBridge", "none", "osm_roads"))
                          ELSE Assembly!Proxy(o, "bridge", "osm_roads")
  <2>1. \A s : bridge(s).layer = "osm_roads" /\ bridge(s).ids = o.ids
    BY DEF Assembly!InSpace, Assembly!Item, Assembly!Proxy
  <2>2. ps = [i \in 1..o.pieces |-> bridge(schema)] /\ qs = [i \in 1..o.pieces |-> bridge(other)]
    BY <1>2 DEF Assembly!ProductsOf, Assembly!Bridge, Assembly!PerPiece
  <2> HIDE DEF bridge, ps, qs
  <2>3. PICK i \in 1..o.pieces : x = bridge(schema)
    BY <2>2 DEF ToSet, ps
  <2>4. bridge(other) \in ToSet(qs)
    BY <2>2, <2>3 DEF ToSet
  <2> QED
    BY <2>1, <2>3, <2>4 DEF qs
<1>3. CASE layer = "fence" /\ o.kind = "wall"
  <2>1. ps = qs
    BY <1>3 DEF Assembly!ProductsOf, Assembly!Fence
  <2> HIDE DEF ps, qs
  <2> QED
    BY <2>1 DEF ps, qs
<1>4. CASE layer = "fence" /\ o.kind # "wall"
  <2> DEFINE type(s) == IF s = "IFC4X3" THEN "FENCE" ELSE "USERDEFINED"
             fence(s) == Assembly!Item(o, "fence", "IfcRailing", type(s), "osm_landscaping")
             post(s)  == Assembly!Item(o, "post", "IfcRailing", type(s), Assembly!NotKept)
             posts(s) == [i \in 1..o.posts |-> post(s)]
  <2>1. ps = Append(posts(schema), fence(schema)) /\ qs = Append(posts(other), fence(other))
    BY <1>4 DEF Assembly!ProductsOf, Assembly!Fence
  <2>2. \A s : /\ fence(s).layer = "osm_landscaping" /\ fence(s).ids = o.ids
               /\ post(s).layer = Assembly!NotKept
    BY DEF Assembly!Item
  <2> HIDE DEF fence, post, ps, qs
  <2>3. \A s : Len(posts(s)) = o.posts /\ posts(s) \in Seq({post(s)})
    OBVIOUS
  <2>4. \A s : /\ Append(posts(s), fence(s))[o.posts + 1] = fence(s)
               /\ o.posts + 1 \in DOMAIN Append(posts(s), fence(s))
               /\ \A i \in DOMAIN Append(posts(s), fence(s)) :
                    Append(posts(s), fence(s))[i] \in {fence(s), post(s)}
    OBVIOUS
  <2>5. x \in {fence(schema), post(schema)}
    BY <2>1, <2>4 DEF ToSet, ps
  <2>6. fence(other) \in ToSet(qs)
    BY <2>1, <2>4 DEF ToSet
  <2> QED
    BY <2>2, <2>5, <2>6 DEF qs
<1>5. CASE layer \notin {"road", "bridge", "fence"}
  <2>1. ps = qs
    BY <1>5 DEF Assembly!ProductsOf, LayerNames
  <2> HIDE DEF ps, qs
  <2> QED
    BY <2>1 DEF ps, qs
<1> QED
  BY <1>1, <1>2, <1>3, <1>4, <1>5

\* Either file has a product of every object the other one keeps.
LEMMA SchemasKeepTheSame ==
  ASSUME NEW model, Modelled(model), NEW schema, NEW other,
         NEW x \in ToSet(Assembly!BuildSiteIfc(schema, model, Assembly!NoFilter)), x.layer # Assembly!NotKept
  PROVE  \E y \in ToSet(Assembly!BuildSiteIfc(other, model, Assembly!NoFilter)) : y.layer = x.layer /\ y.ids = x.ids
<1> DEFINE filter == Assembly!NoFilter
           ss == SiteLists(schema, model, filter)
<1>1. ss \in Seq(Seq(Items)) /\ DOMAIN ss = 1..23 /\ Assembly!BuildSiteIfc(schema, model, filter) = FlattenSeq(ss)
  BY SiteIs
<1>2. \A k \in 1..23 : \A i \in 1..Len(ss[k]) : TellsOf(model, filter, k, ss[k][i])
  BY SiteTells
<1> HIDE DEF ss
<1>3. x.name # "marking"
  <2>1. PICK k \in 1..23 : x \in ToSet(ss[k])
    BY <1>1, FlatSet DEF filter
  <2>2. DOMAIN ss[k] = 1..Len(ss[k])
    BY <1>1
  <2>3. PICK i \in 1..Len(ss[k]) : x = ss[k][i]
    BY <2>1, <2>2 DEF ToSet
  <2>4. TellsOf(model, filter, k, x)
    BY <1>2, <2>3
  <2> DEFINE layer == Assembly!LAYERS[k]
             objects == Taken(model, layer, filter)
  <2>5. (layer = "marking" => MarkTold(objects, x)) /\ (layer # "marking" => \E o \in ToSet(objects) : Told(layer, o, x))
    BY <2>4 DEF TellsOf
  <2> HIDE DEF layer, objects
  <2>6. layer # "marking"
    BY <2>5 DEF MarkTold
  <2>7. x.name = layer \/ x.name \in {"wall", "post", "fence"}
    BY <2>5, <2>6 DEF Told
  <2> QED
    BY <2>6, <2>7
<1> HIDE DEF filter
<1>4. PICK layer \in LayerNames : \E o : Made(model, schema, x, layer, o) /\ Passes(filter, layer, o)
  BY <1>3, SiteHas DEF filter
<1>5. PICK o : Made(model, schema, x, layer, o) /\ Passes(filter, layer, o)
  BY <1>4
<1>6. layer # "marking" /\ o \in SiteObjects
  BY <1>5, MadeIsTold
<1>7. o.pieces \in Nat /\ o.posts \in Nat
  BY <1>6 DEF SiteObjects
<1>8. x \in ToSet(Assembly!ProductsOf(layer, o, schema))
  BY <1>5 DEF Made
<1>9. PICK y \in ToSet(Assembly!ProductsOf(layer, o, other)) : y.layer = x.layer /\ y.ids = x.ids
  BY <1>6, <1>7, <1>8, SchemasMakeTheSame
<1>10. Made(model, other, y, layer, o)
  BY <1>5, <1>9 DEF Made
<1>11. y \in ToSet(Assembly!BuildSiteIfc(other, model, filter))
  BY <1>5, <1>10, SiteHas
<1> QED
  BY <1>9, <1>11 DEF filter

\* Every object of either file is found again by what the registry keeps of it, and
\* nothing by a product of the file that was stored first.
LEMMA ProductsAreAlwaysFound ==
  ASSUME NEW model, Modelled(model), NEW schema
  PROVE  Assembly!ProductsAreFound(schema, model)
<1> DEFINE filter == Assembly!NoFilter
           ss == SiteLists(schema, model, filter)
           tt == SiteLists("IFC4", model, filter)
           uu == SiteLists("IFC4X3", model, filter)
           products == Assembly!BuildSiteIfc(schema, model, filter)
           others == Assembly!BuildSiteIfc("IFC4", model, filter)
           later == Assembly!BuildSiteIfc("IFC4X3", model, filter)
           first == Assembly!Registered(Assembly!Registry(others))
           last == Assembly!Registered(Assembly!Registry(later))
           registered == Assembly!ModelRegistry(model)
<1>1. /\ ss \in Seq(Seq(Items)) /\ Len(ss) = 23 /\ products = FlattenSeq(ss) /\ products \in Seq(Items)
      /\ tt \in Seq(Seq(Items)) /\ Len(tt) = 23 /\ others = FlattenSeq(tt) /\ others \in Seq(Items)
      /\ uu \in Seq(Seq(Items)) /\ Len(uu) = 23 /\ later = FlattenSeq(uu) /\ later \in Seq(Items)
  BY SiteIs
<1>2. /\ \A k \in 1..23 : \A i \in 1..Len(ss[k]) : TellsOf(model, filter, k, ss[k][i])
      /\ \A k \in 1..23 : \A i \in 1..Len(uu[k]) : TellsOf(model, filter, k, uu[k][i])
  BY SiteTells
<1>3. \A k \in 1..23 : Len(ss[k]) = Len(tt[k])
  <2> SUFFICES ASSUME NEW k \in 1..23 PROVE Len(ss[k]) = Len(tt[k])
    OBVIOUS
  <2> DEFINE layer == Assembly!LAYERS[k]
             objects == Taken(model, layer, filter)
  <2>1. layer \in LayerNames
    BY LayersAre
  <2>2. ss[k] = Assembly!LayerProducts(layer, objects, schema) /\ tt[k] = Assembly!LayerProducts(layer, objects, "IFC4")
    BY LayersAre DEF SiteLists
  <2> HIDE DEF layer
  <2>3. LayerOf(layer, objects)
    BY <2>1, TakenIs
  <2> HIDE DEF objects, ss, tt
  <2>4. Len(Assembly!LayerProducts(layer, objects, schema)) = Len(Assembly!LayerProducts(layer, objects, "IFC4"))
    BY <2>1, <2>3, LayerIsAsLong
  <2> QED
    BY <2>2, <2>4
<1>4. /\ DOMAIN registered = DOMAIN first \cup DOMAIN last
      /\ \A key \in DOMAIN last : registered[key] = <<"IFC4X3", last[key]>>
  <2>1. /\ DOMAIN Assembly!Rows("IFC4", model) = DOMAIN first /\ DOMAIN Assembly!Rows("IFC4X3", model) = DOMAIN last
        /\ \A key \in DOMAIN last : Assembly!Rows("IFC4X3", model)[key] = <<"IFC4X3", last[key]>>
    BY DEF Assembly!Rows
  <2> HIDE DEF first, last
  <2> QED
    BY <2>1 DEF Assembly!ModelRegistry, Assembly!Upserted
<1>5. \A x \in ToSet(products) : x.layer # Assembly!NotKept =>
        \E y \in ToSet(later) : y.layer = x.layer /\ y.ids = x.ids
  BY SchemasKeepTheSame
<1>6. \A x \in ToSet(others) : x.layer # Assembly!NotKept =>
        \E y \in ToSet(later) : y.layer = x.layer /\ y.ids = x.ids
  BY SchemasKeepTheSame
<1>7. schema = "IFC4X3" => products = later
  OBVIOUS
<1>8. schema = "IFC4" => products = others
  OBVIOUS
<1> HIDE DEF filter, ss, tt, uu, products, others, later, registered
<1>9. Len(products) = Len(others)
  BY <1>1, <1>3, FlatLengths
<1>10. PICK block : Blocks(block, products, ss)
  BY <1>1, BlocksExist
<1>11. PICK laterBlock : Blocks(laterBlock, later, uu)
  BY <1>1, BlocksExist
<1>12. \A i \in DOMAIN products : block[i] \in 1..23 /\ TellsOf(model, filter, block[i], products[i])
  <2>1. /\ block \in [DOMAIN products -> 1..23]
        /\ \A i \in DOMAIN products : \E j \in 1..Len(ss[block[i]]) : products[i] = ss[block[i]][j]
    BY <1>1, <1>10 DEF Blocks
  <2> QED
    BY <1>2, <2>1
<1>13. \A i \in DOMAIN later : laterBlock[i] \in 1..23 /\ TellsOf(model, filter, laterBlock[i], later[i])
  <2>1. /\ laterBlock \in [DOMAIN later -> 1..23]
        /\ \A i \in DOMAIN later : \E j \in 1..Len(uu[laterBlock[i]]) : later[i] = uu[laterBlock[i]][j]
    BY <1>1, <1>11 DEF Blocks
  <2> QED
    BY <1>2, <2>1
<1>14. ASSUME NEW p \in Assembly!ToSet(products) PROVE p.inSpace <=> p.class \in {"IfcRoad", "IfcBridge", "IfcSpatialZone"}
  <2>1. PICK i \in DOMAIN products : p = products[i]
    BY <1>14, OutputsSet DEF ToSet
  <2>2. block[i] \in 1..23 /\ TellsOf(model, filter, block[i], p)
    BY <1>12, <2>1
  <2> QED
    BY <2>2, SpacesAreTold
<1>15. ASSUME NEW i \in DOMAIN later, NEW found \in DOMAIN later, found >= i, later[i].name = "lane",
              later[found].layer = later[i].layer
       PROVE  later[found].name = "lane"
  <2>1. laterBlock[i] \in 1..23 /\ TellsOf(model, filter, laterBlock[i], later[i])
    BY <1>13
  <2>2. laterBlock[i] = 5 /\ later[i].layer = "osm_roads"
    BY <1>15, <2>1, LanesAreLast
  <2>3. laterBlock[found] \in 1..23 /\ TellsOf(model, filter, laterBlock[found], later[found])
    BY <1>13
  <2>4. laterBlock[found] <= 5
    BY <1>15, <2>2, <2>3, LanesAreLast
  <2>5. i <= found
    <3>1. DOMAIN later = 1..Len(later)
      BY <1>1
    <3> QED
      BY <1>15, <3>1
  <2>6. laterBlock[i] <= laterBlock[found]
    BY <1>11, <2>5 DEF Blocks
  <2>7. laterBlock[found] = 5
    BY <2>2, <2>3, <2>4, <2>6
  <2> QED
    BY <2>3, <2>7, LanesAreLast
<1>16. ASSUME NEW i \in DOMAIN products, products[i].layer # Assembly!NotKept,
              NEW id \in Assembly!ToSet(products[i].ids)
       PROVE  \E found \in DOMAIN later :
                /\ <<products[i].layer, id>> \in Assembly!FindByGlobalId(registered, <<"IFC4X3", found>>)
                /\ id \in Assembly!ToSet(later[found].ids) /\ later[found].layer = products[i].layer
                /\ schema = "IFC4X3" =>
                     found >= i /\ (products[i].name = "lane" => later[found].name = "lane")
  <2> DEFINE key == <<products[i].layer, id>>
             found == last[key]
  <2>1. id \in ToSet(products[i].ids)
    BY <1>16, OutputsSet
  <2>2. PICK j \in DOMAIN later : /\ later[j].layer = products[i].layer /\ later[j].ids = products[i].ids
                                  /\ schema = "IFC4X3" => j = i
    <3>1. CASE schema = "IFC4X3"
      BY <1>7, <3>1
    <3>2. CASE schema # "IFC4X3"
      <4>1. products[i] \in ToSet(products)
        BY DEF ToSet
      <4>2. PICK y \in ToSet(later) : y.layer = products[i].layer /\ y.ids = products[i].ids
        BY <1>5, <1>16, <4>1
      <4> QED
        BY <3>2, <4>2 DEF ToSet
    <3> QED
      BY <3>1, <3>2
  <2>3. later[j].layer # Assembly!NotKept /\ id \in ToSet(later[j].ids) /\ key = <<later[j].layer, id>>
    BY <1>16, <2>1, <2>2
  <2>4. /\ key \in DOMAIN last /\ found \in DOMAIN later /\ found >= j
        /\ id \in ToSet(later[found].ids) /\ later[found].layer = later[j].layer
    <3> HIDE DEF key
    <3> QED
      BY <1>1, <2>3, LastIsRegistered
  <2> HIDE DEF last, found, key
  <2>5. registered[key] = <<"IFC4X3", found>> /\ key \in DOMAIN registered
    BY <1>4, <2>4 DEF found
  <2>6. key \in Assembly!FindByGlobalId(registered, <<"IFC4X3", found>>)
    BY <2>5 DEF Assembly!FindByGlobalId
  <2>7. schema = "IFC4X3" => found >= i /\ (products[i].name = "lane" => later[found].name = "lane")
    <3> SUFFICES ASSUME schema = "IFC4X3" PROVE found >= i /\ (products[i].name = "lane" => later[found].name = "lane")
      OBVIOUS
    <3>1. j = i /\ products = later
      BY <1>7, <2>2
    <3>2. found >= i
      BY <2>4, <3>1
    <3>3. products[i].name = "lane" => later[found].name = "lane"
      BY <1>15, <2>4, <3>1, <3>2
    <3> QED
      BY <3>2, <3>3
  <2>8. id \in Assembly!ToSet(later[found].ids) /\ later[found].layer = products[i].layer
    BY <2>2, <2>4, OutputsSet
  <2> QED
    BY <2>4, <2>6, <2>7, <2>8 DEF key
<1>17. ASSUME NEW key \in DOMAIN registered PROVE key \in DOMAIN last
  <2>1. CASE key \in DOMAIN first
    <3>1. PICK i \in DOMAIN others : /\ others[i].layer # Assembly!NotKept
                                     /\ \E id \in ToSet(others[i].ids) : key = <<others[i].layer, id>>
      BY <1>1, <2>1, KeysAreOfProducts
    <3>2. PICK id \in ToSet(others[i].ids) : key = <<others[i].layer, id>>
      BY <3>1
    <3>3. others[i] \in ToSet(others)
      BY DEF ToSet
    <3>4. PICK y \in ToSet(later) : y.layer = others[i].layer /\ y.ids = others[i].ids
      BY <1>6, <3>1, <3>3
    <3>5. PICK j \in DOMAIN later : y = later[j]
      BY DEF ToSet
    <3>6. later[j].layer # Assembly!NotKept /\ id \in ToSet(later[j].ids) /\ key = <<later[j].layer, id>>
      BY <3>1, <3>2, <3>4, <3>5
    <3> QED
      BY <1>1, <3>6, LastIsRegistered
  <2> QED
    BY <1>4, <1>17, <2>1
<1>18. ASSUME NEW i \in DOMAIN products PROVE Assembly!FindByGlobalId(registered, <<"IFC4", i>>) = {}
  <2> HIDE DEF last
  <2>1. \A key \in DOMAIN registered : registered[key] = <<"IFC4X3", last[key]>>
    BY <1>4, <1>17
  <2>2. \A key \in DOMAIN registered : registered[key] # <<"IFC4", i>>
    BY <2>1
  <2> QED
    BY <2>2 DEF Assembly!FindByGlobalId
<1> HIDE DEF first, last
<1> QED
  BY <1>9, <1>14, <1>16, <1>18 DEF Assembly!ProductsAreFound, filter, products, others, later, registered

\* The files of the networks share the roads of the site.
LEMMA NetworksShare ==
  ASSUME NEW model, Modelled(model), NEW schema,
         \A l \in Assembly!RoadLayers \cap DOMAIN model : \A o \in ToSet(model[l]) : o.network \in Assembly!Networks
  PROVE  LET File(n) == Assembly!BuildSiteIfc(schema, model, n)
             whole   == Assembly!BuildSiteIfc(schema, model, Assembly!NoFilter)
         IN  /\ {p \in Assembly!Objects(whole) : p.name \in Assembly!RoadLayers}
                  = UNION {Assembly!Objects(File(n)) : n \in Assembly!Networks}
             /\ Assembly!Objects(File("backbone")) \cap Assembly!Objects(File("internal")) = {}
             /\ \A n \in Assembly!Networks : \A p \in ToSet(File(n)) : p.of.network = n
<1> DEFINE File(n) == Assembly!BuildSiteIfc(schema, model, n)
           whole == Assembly!BuildSiteIfc(schema, model, Assembly!NoFilter)
           Bare(x) == [x EXCEPT !.inSpace = FALSE]
           Has(x, l, o, n) == Made(model, schema, x, l, o) /\ l \in Assembly!RoadLayers /\ o.network = n
<1>1. \A n \in Assembly!Networks : n # Assembly!NoFilter
  BY DEF Assembly!Networks, Assembly!NoFilter
<1>2. ASSUME NEW n \in Assembly!Networks, NEW x
      PROVE  x \in ToSet(File(n)) /\ x.name # "marking" <=> \E l \in LayerNames : \E o : Has(x, l, o, n)
  <2>1. x \in ToSet(File(n)) /\ x.name # "marking"
          <=> \E l \in LayerNames : \E o : Made(model, schema, x, l, o) /\ Passes(n, l, o)
    BY SiteHas
  <2>2. \A l, o : Made(model, schema, x, l, o) /\ Passes(n, l, o) <=> Has(x, l, o, n)
    BY <1>1 DEF Passes
  <2> HIDE DEF Has, File
  <2> QED
    BY <2>1, <2>2
<1>3. ASSUME NEW x
      PROVE  x \in ToSet(whole) /\ x.name # "marking" <=> \E l \in LayerNames : \E o : Made(model, schema, x, l, o)
  <2>1. x \in ToSet(whole) /\ x.name # "marking"
          <=> \E l \in LayerNames : \E o : Made(model, schema, x, l, o) /\ Passes(Assembly!NoFilter, l, o)
    BY SiteHas
  <2> HIDE DEF whole
  <2> QED
    BY <2>1 DEF Passes
<1>4. ASSUME NEW x, NEW l, NEW o, Made(model, schema, x, l, o)
      PROVE  /\ Bare(x).name = x.name /\ Bare(x).of = o
             /\ x.name \in Assembly!RoadLayers <=> l \in Assembly!RoadLayers
  <2>1. Told(l, o, x) /\ (x.name \in Assembly!RoadLayers <=> l \in Assembly!RoadLayers)
    BY <1>4, MadeIsTold
  <2>2. x \in Items /\ x.of = o
    BY <2>1 DEF Told
  <2>3. Bare(x).name = x.name /\ Bare(x).of = x.of
    BY <2>2 DEF Items
  <2> QED
    BY <2>1, <2>2, <2>3
<1>5. \A s : Assembly!Objects(s) = {Bare(x) : x \in {q \in ToSet(s) : q.name # "marking"}}
  BY OutputsSet DEF Assembly!Objects
<1> HIDE DEF File, whole, Bare
<1>6. ASSUME NEW y, y \in Assembly!Objects(whole), y.name \in Assembly!RoadLayers
      PROVE  \E n \in Assembly!Networks : y \in Assembly!Objects(File(n))
  <2>1. PICK x : x \in ToSet(whole) /\ x.name # "marking" /\ y = Bare(x)
    BY <1>5, <1>6
  <2>9. PICK l \in LayerNames : \E o : Made(model, schema, x, l, o)
    BY <1>3, <2>1
  <2>2. PICK o : Made(model, schema, x, l, o)
    BY <2>9
  <2>3. x.name \in Assembly!RoadLayers
    BY <1>4, <1>6, <2>1, <2>2
  <2>4. l \in Assembly!RoadLayers /\ l \in DOMAIN model /\ o \in ToSet(model[l])
    BY <1>4, <2>2, <2>3 DEF Made
  <2>5. o.network \in Assembly!Networks
    BY <2>4
  <2>6. x \in ToSet(File(o.network))
    BY <1>2, <2>2, <2>4, <2>5
  <2>7. y \in Assembly!Objects(File(o.network))
    BY <1>5, <2>1, <2>6
  <2> QED
    BY <2>5, <2>7
<1>7. ASSUME NEW n \in Assembly!Networks, NEW y \in Assembly!Objects(File(n))
      PROVE  y \in Assembly!Objects(whole) /\ y.name \in Assembly!RoadLayers /\ y.of.network = n
  <2>1. PICK x : x \in ToSet(File(n)) /\ x.name # "marking" /\ y = Bare(x)
    BY <1>5
  <2>9. PICK l \in LayerNames : \E o : Has(x, l, o, n)
    BY <1>2, <2>1
  <2>2. PICK o : Has(x, l, o, n)
    BY <2>9
  <2>3. x \in ToSet(whole)
    BY <1>3, <2>2
  <2>4. y \in Assembly!Objects(whole)
    BY <1>5, <2>1, <2>3
  <2> QED
    BY <1>4, <2>1, <2>2, <2>4
<1>8. ASSUME NEW n \in Assembly!Networks, NEW p \in ToSet(File(n)) PROVE p.of.network = n
  <2>1. CASE p.name # "marking"
    <3>9. PICK l \in LayerNames : \E o : Has(p, l, o, n)
      BY <1>2, <1>8, <2>1
    <3>1. PICK o : Has(p, l, o, n)
      BY <3>9
    <3>2. Told(l, o, p)
      BY <3>1, MadeIsTold
    <3> QED
      BY <3>1, <3>2 DEF Told
  <2>2. CASE p.name = "marking"
    <3>1. PICK k \in 1..23 : TellsOf(model, n, k, p)
      BY <1>8, ProductTells DEF File
    <3> DEFINE layer == Assembly!LAYERS[k]
               objects == Taken(model, layer, n)
    <3>2. layer \in LayerNames
      BY LayersAre
    <3>3. /\ layer = "marking" => MarkTold(objects, p)
          /\ layer # "marking" => \E o \in ToSet(objects) : Told(layer, o, p)
      BY <3>1 DEF TellsOf
    <3> HIDE DEF layer
    <3>4. /\ objects \in Seq(SiteObjects)
          /\ \A o \in ToSet(objects) : o.network = n
      <4>1. /\ LayerOf(layer, objects)
            /\ \A o : o \in ToSet(objects) <=>
                 /\ layer \in DOMAIN model /\ o \in ToSet(model[layer])
                 /\ n = Assembly!NoFilter \/ (layer \in Assembly!RoadLayers /\ o.network = n)
        BY <3>2, TakenIs
      <4> HIDE DEF objects
      <4> QED
        BY <1>1, <4>1 DEF LayerOf
    <3> HIDE DEF objects
    <3>5. \A o : Told(layer, o, p) => layer = "marking"
      BY <2>2 DEF Told
    <3>6. MarkTold(objects, p)
      BY <3>3, <3>5
    <3>7. \A i \in MarksOf(objects, p.of.kind) : objects[i].network = n
      <4>1. \A i \in DOMAIN objects : objects[i] \in ToSet(objects)
        BY DEF ToSet
      <4> QED
        BY <3>4, <4>1 DEF MarksOf
    <3> QED
      BY <3>6, <3>7 DEF MarkTold
  <2> QED
    BY <2>1, <2>2
<1>9. {p \in Assembly!Objects(whole) : p.name \in Assembly!RoadLayers}
        = UNION {Assembly!Objects(File(n)) : n \in Assembly!Networks}
  <2>1. \A y : y \in UNION {Assembly!Objects(File(n)) : n \in Assembly!Networks}
                 <=> \E n \in Assembly!Networks : y \in Assembly!Objects(File(n))
    OBVIOUS
  <2>2. \A y : y \in {p \in Assembly!Objects(whole) : p.name \in Assembly!RoadLayers}
                 <=> y \in Assembly!Objects(whole) /\ y.name \in Assembly!RoadLayers
    OBVIOUS
  <2> DEFINE A == {p \in Assembly!Objects(whole) : p.name \in Assembly!RoadLayers}
             B == UNION {Assembly!Objects(File(n)) : n \in Assembly!Networks}
  <2>3. \A y : y \in A <=> y \in B
    BY <1>6, <1>7, <2>1, <2>2
  <2> HIDE DEF A, B
  <2>4. A = B
    BY <2>3
  <2> QED
    BY <2>4 DEF A, B
<1>10. Assembly!Objects(File("backbone")) \cap Assembly!Objects(File("internal")) = {}
  <2>1. "backbone" \in Assembly!Networks /\ "internal" \in Assembly!Networks
    BY DEF Assembly!Networks
  <2> QED
    BY <1>7, <2>1
<1> QED
  BY <1>8, <1>9, <1>10 DEF File, whole
-----------------------------------------------------------------------------
(* The marks of the files.                                                  *)

\* What a product adds to the marks of a kind.
IsMark(p, kind) == p.name = "marking" /\ p.of.kind = kind

Worth(p, kind) == IF p.name = "marking" /\ p.of.kind = kind THEN p.of.pieces ELSE 0

\* A product is worth a number of marks.
LEMMA WorthIs == ASSUME NEW p \in Items, NEW kind PROVE Worth(p, kind) \in Nat
<1>1. p.of \in SiteObjects \cup Wholes
  BY DEF Items
<1> DEFINE o == p.of
<1>2. o \in SiteObjects \/ o \in Wholes
  BY <1>1
<1> HIDE DEF o
<1>3. o.pieces \in Nat
  BY <1>2 DEF SiteObjects, Wholes
<1> QED
  BY <1>3 DEF Worth, o

\* The marks after each product.
MarksRun(run, products, kind) ==
  /\ run \in [0..Len(products) -> Nat] /\ run[0] = 0
  /\ \A k \in 1..Len(products) : run[k] = run[k - 1] + (IF products[k].name = "marking" /\ products[k].of.kind = kind THEN products[k].of.pieces ELSE 0)

\* Marks counts them one product after the other.
LEMMA MarksFold ==
  ASSUME NEW products \in Seq(Items), NEW kind
  PROVE  \E run : MarksRun(run, products, kind) /\ Assembly!Marks(products, kind) = run[Len(products)]
<1> DEFINE n == Len(products)
           S == 1..n
           D == DOMAIN products
           V == Nat
           Op(v, k) == v + (IF products[k].name = "marking" /\ products[k].of.kind = kind THEN products[k].of.pieces ELSE 0)
           step == [k \in S |-> [v \in V |-> Op(v, k)]]
           Folds(f) == f = [T \in SUBSET D |-> IF T = {} THEN 0 ELSE Op(f[T \ {Assembly!Max(T)}], Assembly!Max(T))]
           f == CHOOSE f : Folds(f)
<1>1. n \in Nat /\ D = S /\ \A k \in S : products[k] \in Items
  OBVIOUS
<1>2. 0 \in V
  OBVIOUS
<1>3. \A k \in S, v \in V : Op(v, k) \in V
  <2> SUFFICES ASSUME NEW k \in S, NEW v \in V PROVE Op(v, k) \in V
    OBVIOUS
  <2> DEFINE w == Worth(products[k], kind)
  <2>1. w \in Nat
    BY <1>1, WorthIs
  <2>2. Op(v, k) = v + w
    BY DEF Worth
  <2> HIDE DEF w, Op
  <2> QED
    BY <2>1, <2>2
<1>4. \A k \in S, v \in V : step[k][v] = Op(v, k)
  OBVIOUS
<1> HIDE DEF V, Op, n, D
<1>5. StaysIn(step, S, V)
  BY <1>3, <1>4 DEF StaysIn
<1>6. Picks(LastOf(n), S) /\ IsFiniteSet(S) /\ \A T \in SUBSET S : LastOf(n)[T] = Assembly!Max(T)
  BY <1>1, OutputsMax, LastIn DEF LastOf
<1> HIDE DEF step
<1>7. \E g : Folds(g)
  <2>1. PICK g \in [SUBSET S -> V] : Iterates(g, 0, LastOf(n), step, S)
    BY <1>2, <1>5, <1>6, SetRecursion
  <2>2. ASSUME NEW T \in SUBSET S
        PROVE  g[T] = IF T = {} THEN 0 ELSE Op(g[T \ {Assembly!Max(T)}], Assembly!Max(T))
    <3>1. T # {} => Assembly!Max(T) \in S /\ g[T \ {Assembly!Max(T)}] \in V
      BY <1>6, <2>1 DEF Picks
    <3>2. g[T] = IF T = {} THEN 0 ELSE step[Assembly!Max(T)][g[T \ {Assembly!Max(T)}]]
      BY <1>6, <2>1 DEF Iterates
    <3> QED
      BY <1>4, <3>1, <3>2
  <2> QED
    BY <1>1, <2>1, <2>2
<1>8. Folds(f)
  BY <1>7
<1>9. Assembly!Marks(products, kind) = f[D]
  BY DEF Assembly!Marks, Assembly!FoldLeft, Assembly!MapThenFoldSet, Op, D
<1> HIDE DEF f
<1>10. \A T \in SUBSET S : f[T] = IF T = {} THEN 0 ELSE Op(f[T \ {Assembly!Max(T)}], Assembly!Max(T))
  <2> DEFINE g == [T \in SUBSET S |-> IF T = {} THEN 0 ELSE Op(f[T \ {Assembly!Max(T)}], Assembly!Max(T))]
  <2>1. f = g
    BY <1>1, <1>8
  <2>2. \A T \in SUBSET S : g[T] = IF T = {} THEN 0 ELSE Op(f[T \ {Assembly!Max(T)}], Assembly!Max(T))
    OBVIOUS
  <2> HIDE DEF g
  <2> QED
    BY <2>1, <2>2
<1> DEFINE Good == {T \in SUBSET S : f[T] \in V}
<1>11. {} \in Good
  BY <1>2, <1>10
<1>12. ASSUME NEW T \in SUBSET S, T # {}, \A x \in T : T \ {x} \in Good PROVE T \in Good
  <2>1. Assembly!Max(T) \in T /\ Assembly!Max(T) \in S
    BY <1>6, <1>12 DEF Picks
  <2>2. f[T \ {Assembly!Max(T)}] \in V
    BY <1>12, <2>1
  <2>3. f[T] = Op(f[T \ {Assembly!Max(T)}], Assembly!Max(T))
    BY <1>10, <1>12
  <2> QED
    BY <1>3, <2>1, <2>2, <2>3
<1> HIDE DEF Good
<1>13. \A T \in SUBSET S : T \in Good
  <2>1. IsFiniteSet(S)
    BY <1>6
  <2> HIDE DEF S
  <2> QED
    BY <1>11, <1>12, <2>1, SubsetInduction
<1>14. Iterates(f, 0, LastOf(n), step, S)
  <2> SUFFICES ASSUME NEW T \in SUBSET S
               PROVE  f[T] = IF T = {} THEN 0 ELSE step[LastOf(n)[T]][f[T \ {LastOf(n)[T]}]]
    BY DEF Iterates
  <2>1. T # {} => Assembly!Max(T) \in S /\ f[T \ {Assembly!Max(T)}] \in V
    BY <1>6, <1>13 DEF Picks, Good
  <2>2. T # {} => step[Assembly!Max(T)][f[T \ {Assembly!Max(T)}]] = Op(f[T \ {Assembly!Max(T)}], Assembly!Max(T))
    BY <1>4, <2>1
  <2>3. LastOf(n)[T] = Assembly!Max(T) /\ f[T] = IF T = {} THEN 0 ELSE Op(f[T \ {Assembly!Max(T)}], Assembly!Max(T))
    BY <1>6, <1>10
  <2> QED
    BY <2>2, <2>3
<1>15. RunsTo(f[S], 0, step, n, V)
  BY <1>1, <1>2, <1>5, <1>14, FoldRuns
<1>16. PICK run \in [0..n -> V] : Runs(run, 0, step, n) /\ f[S] = run[n]
  BY <1>15 DEF RunsTo
<1>17. \A k \in S : run[k] = Op(run[k - 1], k)
  <2> SUFFICES ASSUME NEW k \in S PROVE run[k] = Op(run[k - 1], k)
    OBVIOUS
  <2>1. k - 1 \in 0..n
    BY <1>1
  <2>2. run[k] = step[k][run[k - 1]] /\ run[k - 1] \in V
    BY <1>16, <2>1 DEF Runs
  <2> QED
    BY <1>4, <2>2
<1>18. run[0] = 0
  BY <1>16 DEF Runs
<1>19. run \in [0..Len(products) -> Nat] /\ Assembly!Marks(products, kind) = run[Len(products)]
  BY <1>1, <1>9, <1>16 DEF n, V
<1>20. \A k \in 1..Len(products) : run[k] = run[k - 1] + (IF products[k].name = "marking" /\ products[k].of.kind = kind THEN products[k].of.pieces ELSE 0)
  BY <1>17, Zenon DEF n, Op
<1>21. MarksRun(run, products, kind)
  BY <1>18, <1>19, <1>20 DEF MarksRun
<1> QED
  BY <1>19, <1>21

\* When one product may be of the kind its marks are all.
LEMMA MarksOfOne ==
  ASSUME NEW products \in Seq(Items), NEW kind, NEW q \in Nat \ {0},
         \A p \in DOMAIN products : p # q => ~IsMark(products[p], kind)
  PROVE  Assembly!Marks(products, kind) = IF q \in DOMAIN products THEN Worth(products[q], kind) ELSE 0
<1> DEFINE n == Len(products)
           w(p) == Worth(products[p], kind)
<1>1. n \in Nat /\ DOMAIN products = 1..n /\ \A p \in 1..n : products[p] \in Items
  OBVIOUS
<1>2. PICK run : MarksRun(run, products, kind) /\ Assembly!Marks(products, kind) = run[n]
  BY MarksFold
<1>3. run[0] = 0 /\ \A k \in 1..n : run[k] = run[k - 1] + w(k)
  BY <1>2 DEF MarksRun, Worth
<1>4. \A p \in 1..n : w(p) \in Nat /\ (p # q => w(p) = 0)
  <2> SUFFICES ASSUME NEW p \in 1..n PROVE w(p) \in Nat /\ (p # q => w(p) = 0)
    OBVIOUS
  <2>1. w(p) \in Nat
    BY <1>1, WorthIs
  <2>2. p # q => w(p) = 0
    BY <1>1 DEF IsMark, Worth
  <2> QED
    BY <2>1, <2>2
<1> HIDE DEF n, w
<1> DEFINE A == {k \in Nat : k <= n => run[k] = IF q <= k THEN w(q) ELSE 0}
<1>5. 0 \in A
  BY <1>3
<1>6. ASSUME NEW k \in Nat, k \in A PROVE k + 1 \in A
  <2> SUFFICES ASSUME k + 1 <= n PROVE run[k + 1] = IF q <= k + 1 THEN w(q) ELSE 0
    OBVIOUS
  <2>1. k + 1 \in 1..n /\ k + 1 - 1 = k /\ run[k] = IF q <= k THEN w(q) ELSE 0
    BY <1>1, <1>6
  <2>2. run[k + 1] = run[k] + w(k + 1)
    BY <1>3, <2>1
  <2>3. CASE q <= k
    <3>1. q \in 1..n /\ k + 1 # q
      BY <1>1, <2>1, <2>3
    <3>2. w(q) \in Nat /\ w(k + 1) = 0
      BY <1>4, <2>1, <3>1
    <3> QED
      BY <2>1, <2>2, <2>3, <3>2
  <2>4. CASE q = k + 1
    <3>1. w(q) \in Nat
      BY <1>4, <2>1, <2>4
    <3> QED
      BY <2>1, <2>2, <2>4, <3>1
  <2>5. CASE q > k + 1
    <3>1. w(k + 1) = 0
      BY <1>4, <2>1, <2>5
    <3> QED
      BY <2>1, <2>2, <2>5, <3>1
  <2> QED
    BY <2>3, <2>4, <2>5
<1> HIDE DEF A
<1>7. n \in A
  BY <1>1, <1>5, <1>6, InductionOnSet
<1>8. run[n] = IF q <= n THEN w(q) ELSE 0
  BY <1>1, <1>7 DEF A
<1>9. q \in DOMAIN products <=> q <= n
  BY <1>1
<1> QED
  BY <1>2, <1>8, <1>9 DEF w

\* A file counts the marks it takes.
LEMMA MarksAre ==
  ASSUME NEW model, Modelled(model), NEW schema, NEW filter, NEW kind
  PROVE  Assembly!Marks(Assembly!BuildSiteIfc(schema, model, filter), kind)
           = Cardinality(MarksOf(Taken(model, "marking", filter), kind))
<1> DEFINE ss == SiteLists(schema, model, filter)
           ps == Assembly!BuildSiteIfc(schema, model, filter)
           objects == Taken(model, "marking", filter)
           marks == Assembly!Marking(objects)
           M == MarksOf(objects, kind)
<1>1. ss \in Seq(Seq(Items)) /\ Len(ss) = 23 /\ ps = FlattenSeq(ss) /\ ps \in Seq(Items)
  BY SiteIs
<1>2. ss[7] = marks /\ Assembly!LAYERS[7] = "marking"
  <2>1. 7 \in 1..23
    OBVIOUS
  <2>2. Assembly!LAYERS[7] = "marking" /\ DOMAIN Assembly!LAYERS = 1..23
    BY <2>1, LayersAre
  <2> QED
    BY <2>1, <2>2 DEF SiteLists, Assembly!LayerProducts
<1>3. \A k \in 1..23 : \A i \in 1..Len(ss[k]) : TellsOf(model, filter, k, ss[k][i])
  BY SiteTells
<1> HIDE DEF ss, ps
<1>4. PICK at : Flat(ps, at, ss)
  BY <1>1, FlatIs
<1>5. /\ \A j \in 0..23 : at[j] \in Nat
      /\ \A k \in 1..23 : \A i \in 1..Len(ss[k]) : at[k - 1] + i \in DOMAIN ps
      /\ \A p \in DOMAIN ps : \E k \in 1..23 : \E i \in 1..Len(ss[k]) : p = at[k - 1] + i
  <2>1. Placed(ps, at, ss)
    BY <1>1, <1>4, FlatPlaces
  <2> QED
    BY <1>1, <2>1 DEF Placed
<1>6. \A k \in 1..23 : \A i \in 1..Len(ss[k]) : ps[at[k - 1] + i] = ss[k][i]
  BY <1>1, <1>4 DEF Flat
<1>7. objects \in Seq(SiteObjects)
  <2>1. "marking" \in LayerNames
    BY DEF LayerNames
  <2> QED
    BY <2>1, TakenIs DEF LayerOf
<1> HIDE DEF objects
<1>8. /\ \A i \in DOMAIN marks : MarkTold(objects, marks[i])
      /\ \A i, j \in DOMAIN marks : marks[i].of.kind = marks[j].of.kind => i = j
      /\ \A i \in DOMAIN objects : \E j \in DOMAIN marks : marks[j].of.kind = objects[i].kind
      /\ marks \in Seq(Items)
  BY <1>7, MarkingIs
<1> HIDE DEF marks, M
<1>9. ASSUME NEW p \in DOMAIN ps, IsMark(ps[p], kind)
      PROVE  \E i \in DOMAIN marks : p = at[6] + i /\ marks[i].of.kind = kind
  <2>1. PICK k \in 1..23 : \E i \in 1..Len(ss[k]) : p = at[k - 1] + i
    BY <1>5
  <2>2. PICK i \in 1..Len(ss[k]) : p = at[k - 1] + i
    BY <2>1
  <2>3. ps[p] = ss[k][i]
    BY <1>6, <2>2
  <2>4. TellsOf(model, filter, k, ps[p])
    BY <1>3, <2>3
  <2>5. k = 7
    <3> SUFFICES ASSUME k # 7 PROVE FALSE
      OBVIOUS
    <3>1. Assembly!LAYERS[k] # "marking" /\ Assembly!LAYERS[k] \in LayerNames
      BY LayersAre
    <3>2. \E o : Told(Assembly!LAYERS[k], o, ps[p])
      BY <2>4, <3>1 DEF TellsOf
    <3> QED
      BY <1>9, <3>1, <3>2 DEF Told, IsMark
  <2>6. i \in DOMAIN marks /\ k - 1 = 6 /\ ps[p] = marks[i]
    BY <1>2, <1>8, <2>3, <2>5
  <2> QED
    BY <1>9, <2>2, <2>6 DEF IsMark
<1>10. CASE M = {}
  <2> DEFINE q == Len(ps) + 1
  <2>1. \A p \in DOMAIN ps : ~IsMark(ps[p], kind)
    <3> SUFFICES ASSUME NEW p \in DOMAIN ps, IsMark(ps[p], kind) PROVE FALSE
      OBVIOUS
    <3>1. PICK i \in DOMAIN marks : marks[i].of.kind = kind
      BY <1>9
    <3>2. MarksOf(objects, kind) # {}
      BY <1>8, <3>1 DEF MarkTold
    <3> QED
      BY <1>10, <3>2 DEF M
  <2>2. q \in Nat \ {0} /\ q \notin DOMAIN ps
    BY <1>1
  <2> HIDE DEF q
  <2>3. Assembly!Marks(ps, kind) = 0
    BY <1>1, <2>1, <2>2, MarksOfOne
  <2>4. Cardinality(M) = 0
    BY <1>10, FS_EmptySet
  <2> QED
    BY <2>3, <2>4 DEF M, objects, ps
<1>11. CASE M # {}
  <2>1. PICK i \in DOMAIN objects : objects[i].kind = kind
    BY <1>11 DEF M, MarksOf
  <2>2. PICK j \in DOMAIN marks : marks[j].of.kind = kind
    BY <1>8, <2>1
  <2> DEFINE q == at[6] + j
  <2>3. 7 - 1 = 6 /\ 6 \in 0..23 /\ 7 \in 1..23 /\ j \in 1..Len(ss[7])
    BY <1>2, <1>8
  <2>4. q \in DOMAIN ps /\ ps[q] = marks[j]
    BY <1>2, <1>5, <1>6, <2>3
  <2>5. q \in Nat \ {0}
    <3>1. at[6] \in Nat /\ j \in Nat /\ j >= 1
      BY <1>5, <2>3
    <3> QED
      BY <3>1
  <2> HIDE DEF q
  <2>6. \A p \in DOMAIN ps : p # q => ~IsMark(ps[p], kind)
    <3> SUFFICES ASSUME NEW p \in DOMAIN ps, IsMark(ps[p], kind) PROVE p = q
      OBVIOUS
    <3>1. PICK m \in DOMAIN marks : p = at[6] + m /\ marks[m].of.kind = kind
      BY <1>9
    <3>2. m = j
      BY <1>8, <2>2, <3>1
    <3> QED
      BY <3>1, <3>2 DEF q
  <2>7. Assembly!Marks(ps, kind) = Worth(ps[q], kind)
    BY <1>1, <2>4, <2>5, <2>6, MarksOfOne
  <2>8. MarkTold(objects, marks[j])
    BY <1>8
  <2>9. Worth(ps[q], kind) = Cardinality(M)
    BY <2>2, <2>4, <2>8 DEF Worth, MarkTold, M
  <2> QED
    BY <2>7, <2>9 DEF M, objects, ps
<1> QED
  BY <1>10, <1>11

\* A file of a network takes the marks of it.
LEMMA MarksOfNetwork ==
  ASSUME NEW objects \in Seq(SiteObjects), NEW n, n # Assembly!NoFilter, NEW kind
  PROVE  Cardinality(MarksOf(Assembly!Filtered(objects, "marking", n), kind))
           = Cardinality({i \in DOMAIN objects : objects[i].kind = kind /\ objects[i].network = n})
<1> DEFINE ss == NetworkLists(objects, n)
           out == Assembly!Filtered(objects, "marking", n)
           m == Len(objects)
           P == {i \in DOMAIN objects : objects[i].kind = kind /\ objects[i].network = n}
<1>1. out = FlattenSeq(ss)
  BY OutputsFlat DEF Assembly!Filtered, Assembly!RoadLayers, NetworkLists
<1>2. /\ ss \in Seq(Seq(SiteObjects)) /\ Len(ss) = m
      /\ \A i \in 1..m : /\ objects[i].network = n => Len(ss[i]) = 1 /\ ss[i][1] = objects[i]
                         /\ objects[i].network # n => Len(ss[i]) = 0
  BY FilterKeeps
<1>3. m \in Nat /\ DOMAIN objects = 1..m
  OBVIOUS
<1> HIDE DEF ss, out, m
<1>4. out \in Seq(SiteObjects)
  BY <1>1, <1>2, FlatIs
<1>5. PICK at : Flat(out, at, ss)
  BY <1>1, <1>2, FlatIs
<1>6. /\ \A j, k \in 0..m : at[j] \in Nat /\ (j <= k => at[j] <= at[k])
      /\ \A k \in 1..m : \A i \in 1..Len(ss[k]) : at[k - 1] + i \in DOMAIN out /\ at[k - 1] + i <= at[k]
      /\ \A p \in DOMAIN out : \E k \in 1..m : \E i \in 1..Len(ss[k]) : p = at[k - 1] + i
  <2>1. Placed(out, at, ss)
    BY <1>2, <1>4, <1>5, FlatPlaces
  <2> QED
    BY <1>2, <2>1 DEF Placed
<1>7. \A k \in 1..m : \A i \in 1..Len(ss[k]) : out[at[k - 1] + i] = ss[k][i]
  BY <1>2, <1>5 DEF Flat
<1> DEFINE f == [i \in P |-> at[i - 1] + 1]
<1>8. P \subseteq 1..m /\ IsFiniteSet(P) /\ \A i \in P : objects[i].kind = kind /\ objects[i].network = n
  <2>1. P \subseteq 1..m
    BY <1>3
  <2> QED
    BY <1>3, <2>1, FS_Interval, FS_Subset
<1>9. \A i \in 1..m : objects[i].kind = kind /\ objects[i].network = n => i \in P
  BY <1>3
<1> HIDE DEF P
<1>10. \A i \in P : f[i] = at[i - 1] + 1
  OBVIOUS
<1> HIDE DEF f
<1>11. ASSUME NEW i \in P
       PROVE  f[i] \in MarksOf(out, kind) /\ f[i] <= at[i] /\ f[i] > at[i - 1]
  <2>1. i \in 1..m /\ Len(ss[i]) = 1 /\ ss[i][1] = objects[i] /\ 1 \in 1..Len(ss[i]) /\ i - 1 \in 0..m
    BY <1>2, <1>3, <1>8
  <2>2. f[i] \in DOMAIN out /\ f[i] <= at[i] /\ out[f[i]] = objects[i] /\ at[i - 1] \in Nat
    BY <1>6, <1>7, <1>10, <2>1
  <2>3. f[i] > at[i - 1]
    BY <1>10, <2>2
  <2> QED
    BY <1>8, <2>2, <2>3 DEF MarksOf
<1>12. \A x, y \in P : f[x] = f[y] => x = y
  <2>1. ASSUME NEW x \in P, NEW y \in P, x < y PROVE f[x] < f[y]
    <3>1. x \in 0..m /\ y - 1 \in 0..m /\ x <= y - 1
      BY <1>3, <1>8, <2>1
    <3>2. at[x] <= at[y - 1] /\ at[x] \in Nat /\ at[y - 1] \in Nat
      BY <1>6, <3>1
    <3>3. f[x] <= at[x] /\ f[y] > at[y - 1] /\ f[x] \in Int /\ f[y] \in Int
      BY <1>4, <1>11 DEF MarksOf
    <3> QED
      BY <3>2, <3>3
  <2>2. \A x \in P : x \in Int /\ f[x] \in Int
    BY <1>3, <1>4, <1>8, <1>11 DEF MarksOf
  <2> SUFFICES ASSUME NEW x \in P, NEW y \in P, f[x] = f[y] PROVE x = y
    OBVIOUS
  <2>3. x < y \/ y < x \/ x = y
    BY <2>2
  <2> QED
    BY <2>1, <2>2, <2>3
<1>13. ASSUME NEW p \in MarksOf(out, kind) PROVE \E i \in P : p = f[i]
  <2>1. p \in DOMAIN out /\ out[p].kind = kind
    BY DEF MarksOf
  <2>2. PICK k \in 1..m : \E i \in 1..Len(ss[k]) : p = at[k - 1] + i
    BY <1>6, <2>1
  <2>3. PICK i \in 1..Len(ss[k]) : p = at[k - 1] + i
    BY <2>2
  <2>4. objects[k].network = n
    BY <1>2, <2>3
  <2>5. i = 1 /\ out[p] = objects[k]
    <3>1. Len(ss[k]) = 1 /\ ss[k][1] = objects[k]
      BY <1>2, <2>4
    <3>2. i = 1
      BY <2>3, <3>1
    <3>3. out[p] = ss[k][i]
      BY <1>7, <2>3
    <3> QED
      BY <3>1, <3>2, <3>3
  <2>6. k \in P
    BY <1>9, <2>1, <2>4, <2>5
  <2> QED
    BY <1>10, <2>3, <2>5, <2>6
<1>14. MarksOf(out, kind) = {f[x] : x \in P}
  BY <1>11, <1>13
<1>15. Cardinality({f[x] : x \in P}) = Cardinality(P)
  BY <1>8, <1>12, OneToOne
<1> QED
  BY <1>14, <1>15 DEF out, P

\* So the marks of the networks are those of the site.
LEMMA MarksAreShared ==
  ASSUME NEW model, Modelled(model), NEW schema, NEW kind,
         \A l \in Assembly!RoadLayers \cap DOMAIN model : \A o \in ToSet(model[l]) : o.network \in Assembly!Networks
  PROVE  LET File(n) == Assembly!BuildSiteIfc(schema, model, n)
         IN  Assembly!Marks(File(Assembly!NoFilter), kind)
               = Assembly!Marks(File("backbone"), kind) + Assembly!Marks(File("internal"), kind)
<1> DEFINE File(n) == Assembly!BuildSiteIfc(schema, model, n)
           Count(n) == Cardinality(MarksOf(Taken(model, "marking", n), kind))
<1>1. \A n : Assembly!Marks(File(n), kind) = Count(n)
  BY MarksAre
<1>2. Count(Assembly!NoFilter) = Count("backbone") + Count("internal")
  <2>1. CASE "marking" \notin DOMAIN model
    <3>1. \A n : MarksOf(Taken(model, "marking", n), kind) = {}
      BY <2>1 DEF Taken, MarksOf
    <3>2. \A n : Count(n) = 0
      BY <3>1, FS_EmptySet
    <3> QED
      BY <3>2
  <2>2. CASE "marking" \in DOMAIN model
    <3> DEFINE objects == model["marking"]
               Q(n) == {i \in DOMAIN objects : objects[i].kind = kind /\ objects[i].network = n}
               M == MarksOf(objects, kind)
    <3>1. objects \in Seq(SiteObjects)
      BY <2>2 DEF Modelled, LayerOf
    <3>2. \A n : Taken(model, "marking", n) = Assembly!Filtered(objects, "marking", n)
      BY <2>2 DEF Taken
    <3>3. \A i \in DOMAIN objects : objects[i].network \in {"backbone", "internal"}
      <4>1. "marking" \in Assembly!RoadLayers \cap DOMAIN model
        BY <2>2 DEF Assembly!RoadLayers
      <4>2. \A o \in ToSet(objects) : o.network \in Assembly!Networks
        BY <4>1
      <4>3. \A i \in DOMAIN objects : objects[i] \in ToSet(objects)
        BY DEF ToSet
      <4> HIDE DEF objects
      <4> QED
        BY <4>2, <4>3 DEF Assembly!Networks
    <3> HIDE DEF objects
    <3>4. Count(Assembly!NoFilter) = Cardinality(M)
      BY <3>2 DEF Assembly!Filtered
    <3>5. \A n : n # Assembly!NoFilter => Count(n) = Cardinality(Q(n))
      BY <3>1, <3>2, MarksOfNetwork
    <3> HIDE DEF Count
    <3>6. Count("backbone") = Cardinality(Q("backbone")) /\ Count("internal") = Cardinality(Q("internal"))
      BY <3>5 DEF Assembly!NoFilter
    <3>7. M = Q("backbone") \cup Q("internal") /\ Q("backbone") \cap Q("internal") = {}
      BY <3>3 DEF MarksOf
    <3>8. IsFiniteSet(Q("backbone")) /\ IsFiniteSet(Q("internal"))
      <4>1. Q("backbone") \subseteq 1..Len(objects) /\ Q("internal") \subseteq 1..Len(objects) /\ Len(objects) \in Nat
        BY <3>1
      <4>2. IsFiniteSet(1..Len(objects))
        BY <4>1, FS_Interval
      <4> HIDE DEF Q
      <4> QED
        BY <4>1, <4>2, FS_Subset
    <3> HIDE DEF Q, M
    <3>9. /\ Cardinality(M) = Cardinality(Q("backbone")) + Cardinality(Q("internal"))
                               - Cardinality(Q("backbone") \cap Q("internal"))
          /\ Cardinality(Q("backbone") \cap Q("internal")) = 0
          /\ Cardinality(Q("backbone")) \in Nat /\ Cardinality(Q("internal")) \in Nat
      BY <3>7, <3>8, FS_Union, FS_EmptySet, FS_CardinalityType
    <3> QED
      BY <3>4, <3>6, <3>9
  <2> QED
    BY <2>1, <2>2
<1> HIDE DEF Count, File
<1>3. Assembly!Marks(File(Assembly!NoFilter), kind) = Assembly!Marks(File("backbone"), kind) + Assembly!Marks(File("internal"), kind)
  BY <1>1, <1>2
<1> QED
  BY <1>3 DEF File

\* A file of some of the layers has nothing else.
LEMMA PartsAreInWhole ==
  ASSUME NEW model, Modelled(model), NEW schema, NEW part,
         DOMAIN part \subseteq DOMAIN model \ {"marking"}, \A l \in DOMAIN part : part[l] = model[l]
  PROVE  ToSet(Assembly!BuildSiteIfc(schema, part, Assembly!NoFilter))
           \subseteq ToSet(Assembly!BuildSiteIfc(schema, model, Assembly!NoFilter))
<1>1. Modelled(part)
  BY DEF Modelled
<1> SUFFICES ASSUME NEW x \in ToSet(Assembly!BuildSiteIfc(schema, part, Assembly!NoFilter))
             PROVE  x \in ToSet(Assembly!BuildSiteIfc(schema, model, Assembly!NoFilter))
  OBVIOUS
<1>2. PICK k \in 1..23 : TellsOf(part, Assembly!NoFilter, k, x)
  BY <1>1, ProductTells
<1>3. Assembly!LAYERS[k] # "marking"
  <2> SUFFICES ASSUME Assembly!LAYERS[k] = "marking" PROVE FALSE
    OBVIOUS
  <2>1. MarkTold(Taken(part, "marking", Assembly!NoFilter), x)
    BY <1>2 DEF TellsOf
  <2>2. Taken(part, "marking", Assembly!NoFilter) = <<>>
    BY DEF Taken
  <2>3. \A c : MarksOf(<<>>, c) = {}
    BY DEF MarksOf
  <2> QED
    BY <2>1, <2>2, <2>3 DEF MarkTold
<1>4. x.name # "marking"
  <2>1. Assembly!LAYERS[k] \in LayerNames /\ \E o : Told(Assembly!LAYERS[k], o, x)
    BY <1>2, <1>3, LayersAre DEF TellsOf
  <2> QED
    BY <1>3, <2>1 DEF Told
<1>5. PICK l \in LayerNames : \E o : Made(part, schema, x, l, o) /\ Passes(Assembly!NoFilter, l, o)
  BY <1>1, <1>4, SiteHas
<1>6. PICK o : Made(part, schema, x, l, o) /\ Passes(Assembly!NoFilter, l, o)
  BY <1>5
<1>7. Made(model, schema, x, l, o)
  BY <1>6 DEF Made
<1>8. \E i \in LayerNames : \E c : Made(model, schema, x, i, c) /\ Passes(Assembly!NoFilter, i, c)
  BY <1>6, <1>7
<1> QED
  BY <1>8, SiteHas

\* The files of a site agree when its roads have a network each.
LEMMA FilesAlwaysAgree ==
  ASSUME NEW model, Modelled(model), NEW schema,
         \A l \in Assembly!RoadLayers \cap DOMAIN model : \A o \in ToSet(model[l]) : o.network \in Assembly!Networks
  PROVE  Assembly!FilesAgree(schema, model)
<1> DEFINE File(n) == Assembly!BuildSiteIfc(schema, model, n)
           whole == Assembly!BuildSiteIfc(schema, model, Assembly!NoFilter)
           parts == Assembly!LayerModels(model)
<1>1. /\ {p \in Assembly!Objects(whole) : p.name \in Assembly!RoadLayers}
           = UNION {Assembly!Objects(File(n)) : n \in Assembly!Networks}
      /\ Assembly!Objects(File("backbone")) \cap Assembly!Objects(File("internal")) = {}
      /\ \A n \in Assembly!Networks : \A p \in ToSet(File(n)) : p.of.network = n
  BY NetworksShare
<1>2. \A k \in {"dash", "arrow"} :
        Assembly!Marks(whole, k) = Assembly!Marks(File("backbone"), k) + Assembly!Marks(File("internal"), k)
  BY MarksAreShared
<1>3. \A l \in DOMAIN parts : ToSet(Assembly!BuildSiteIfc(schema, parts[l], Assembly!NoFilter)) \subseteq ToSet(whole)
  <2> DEFINE relief == [l \in DOMAIN model \cap {"terrain"} |-> model[l]]
             buildings == [l \in DOMAIN model \cap {"building"} |-> model[l]]
             power == [l \in DOMAIN model \cap {"pole", "wire", "substation", "zone"} |-> model[l]]
             Part(m) == DOMAIN m \subseteq DOMAIN model \ {"marking"} /\ \A l \in DOMAIN m : m[l] = model[l]
  <2>1. Part(relief) /\ Part(buildings) /\ Part(power)
    OBVIOUS
  <2>2. DOMAIN parts = {"relief", "buildings", "power"} /\ parts["relief"] = relief
        /\ parts["buildings"] = buildings /\ parts["power"] = power
    BY DEF Assembly!LayerModels
  <2> HIDE DEF parts, relief, buildings, power
  <2>3. \A l \in DOMAIN parts : Part(parts[l])
    BY <2>1, <2>2
  <2> QED
    BY <2>3, PartsAreInWhole
<1> QED
  BY <1>1, <1>2, <1>3, OutputsSet DEF Assembly!FilesAgree
-----------------------------------------------------------------------------
(* The scene of the products.                                               *)

SceneNodes(products) ==
  [name : {"object"} \cup {Assembly!Categorize(products[i]) : i \in DOMAIN products}, mesh : Nat, children : Seq(Nat)]

\* new is the scene nodes with the object i in the folder f of its category.
Grown(new, nodes, i, c, f) ==
  LET D    == DOMAIN nodes
      node == Len(nodes) + 1
  IN  /\ DOMAIN new = D \cup {node, f} /\ f # node /\ node \notin D
      /\ new[node].mesh = i /\ ToSet(new[node].children) = {}
      /\ new[f].mesh = 0 /\ new[f].name = c /\ node \in ToSet(new[f].children)
      /\ \A x \in ToSet(new[f].children) : x = node \/ (f \in D /\ x \in ToSet(nodes[f].children))
      /\ f \in D => nodes[f].mesh = 0 /\ nodes[f].name = c /\ ToSet(nodes[f].children) \subseteq ToSet(new[f].children)
      /\ f \notin D => \A g \in D : ~(nodes[g].mesh = 0 /\ nodes[g].name = c)
      /\ \A m \in D : new[m].mesh = nodes[m].mesh /\ new[m].name = nodes[m].name
                      /\ (m # f => new[m].children = nodes[m].children)

\* An object is added to the scene with its folder, or to the folder that is there.
LEMMA WithObjectIs ==
  ASSUME NEW products, NEW nodes \in Seq(SceneNodes(products)), NEW i \in Nat,
         NEW c \in {Assembly!Categorize(products[j]) : j \in DOMAIN products}
  PROVE  LET new == Assembly!WithObject(nodes, i, c)
         IN  new \in Seq(SceneNodes(products)) /\ \E f \in Nat : Grown(new, nodes, i, c, f)
<1> DEFINE new == Assembly!WithObject(nodes, i, c)
           Names == {"object"} \cup {Assembly!Categorize(products[j]) : j \in DOMAIN products}
           N == [name : Names, mesh : Nat, children : Seq(Nat)]
           L == Len(nodes)
           F == Assembly!FolderOf(nodes, c)
           leaf == [name |-> "object", mesh |-> i, children |-> <<>>]
           folder == [name |-> c, mesh |-> 0, children |-> <<L + 1>>]
<1>1. L \in Nat /\ DOMAIN nodes = 1..L /\ N = SceneNodes(products) /\ nodes \in Seq(N) /\ \A m \in 1..L : nodes[m] \in N
  <2>1. N = SceneNodes(products)
    BY DEF SceneNodes
  <2> HIDE DEF N
  <2>2. nodes \in Seq(N)
    BY <2>1
  <2> QED
    BY <2>1, <2>2
<1>2. c \in Names /\ "object" \in Names
  OBVIOUS
<1>3. F = {n \in DOMAIN nodes : nodes[n].mesh = 0 /\ nodes[n].name = c}
  BY DEF Assembly!FolderOf
<1>4. new = IF F = {} THEN nodes \o <<leaf, folder>>
            ELSE LET n == Assembly!Min(F) IN Append([nodes EXCEPT ![n].children = Append(@, L + 1)], leaf)
  BY DEF Assembly!WithObject, Assembly!Leaf, Assembly!Folder
<1> HIDE DEF L, F, new, Names
<1>5. leaf \in N /\ folder \in N /\ folder.children \in Seq(Nat)
  BY <1>1, <1>2
<1>6. /\ leaf.mesh = i /\ ToSet(leaf.children) = {}
      /\ folder.mesh = 0 /\ folder.name = c /\ ToSet(folder.children) = {L + 1}
  <2>1. ToSet(<<>>) = {} /\ ToSet(<<L + 1>>) = {L + 1}
    BY DEF ToSet
  <2> QED
    BY <2>1
<1>7. \A m \in 1..L : nodes[m].mesh \in Nat /\ nodes[m].children \in Seq(Nat) /\ nodes[m].name \in Names
  BY <1>1
<1> HIDE DEF N
<1>8. CASE F = {}
  <2> DEFINE two == <<leaf, folder>>
  <2>1. two \in Seq(N) /\ Len(two) = 2 /\ two[1] = leaf /\ two[2] = folder
    BY <1>5
  <2>2. new = nodes \o two
    BY <1>4, <1>8
  <2> HIDE DEF two, leaf, folder
  <2>3. /\ new \in Seq(N) /\ Len(new) = L + 2
        /\ \A m \in 1..(L + 2) : new[m] = IF m <= L THEN nodes[m] ELSE two[m - L]
    <3>1. /\ nodes \o two \in Seq(N) /\ Len(nodes \o two) = Len(nodes) + Len(two)
          /\ \A m \in 1..(Len(nodes) + Len(two)) :
               (nodes \o two)[m] = IF m <= Len(nodes) THEN nodes[m] ELSE two[m - Len(nodes)]
      BY <1>1, <2>1, ConcatProperties
    <3>2. Len(nodes) = L
      BY DEF L
    <3> QED
      BY <2>1, <2>2, <3>1, <3>2
  <2>4. DOMAIN new = 1..(L + 2) /\ L + 1 \in 1..(L + 2) /\ L + 2 \in 1..(L + 2)
        /\ ~(L + 1 <= L) /\ ~(L + 2 <= L) /\ L + 1 - L = 1 /\ L + 2 - L = 2
    BY <1>1, <2>3
  <2>5. new[L + 1] = leaf /\ new[L + 2] = folder
    <3>1. PICK m \in 1..(L + 2) : m = L + 1
      BY <2>4
    <3>2. PICK k \in 1..(L + 2) : k = L + 2
      BY <2>4
    <3>3. new[m] = two[m - L] /\ new[k] = two[k - L]
      BY <2>3, <2>4, <3>1, <3>2
    <3>4. m - L = 1 /\ k - L = 2
      BY <1>1, <3>1, <3>2
    <3> QED
      BY <2>1, <3>1, <3>2, <3>3, <3>4
  <2>6. \A m \in 1..L : new[m] = nodes[m]
    BY <1>1, <2>3
  <2>7. 1..(L + 2) = 1..L \cup {L + 1, L + 2} /\ L + 2 # L + 1 /\ L + 1 \notin 1..L /\ L + 2 \notin 1..L /\ L + 2 \in Nat
    BY <1>1
  <2>8. \A g \in DOMAIN nodes : ~(nodes[g].mesh = 0 /\ nodes[g].name = c)
    BY <1>3, <1>8
  <2>9. Grown(new, nodes, i, c, L + 2)
    BY <1>1, <1>6, <2>4, <2>5, <2>6, <2>7, <2>8 DEF Grown, L
  <2> QED
    BY <1>1, <2>3, <2>7, <2>9 DEF new
<1>9. CASE F # {}
  <2> DEFINE n == Assembly!Min(F)
             old == nodes[n]
             more == Append(old.children, L + 1)
             fixed == [nodes EXCEPT ![n].children = Append(@, L + 1)]
  <2>1. n \in F
    <3>1. F \subseteq Nat
      BY <1>1, <1>3
    <3>2. \E x \in F : \A y \in F : y >= x
      BY <1>9, <3>1, LeastOne
    <3>3. \E x \in F : \A y \in F : x <= y
      BY <3>1, <3>2
    <3> QED
      BY <3>3 DEF Assembly!Min
  <2> HIDE DEF n
  <2>2. n \in 1..L /\ old.mesh = 0 /\ old.name = c /\ old.children \in Seq(Nat) /\ old \in N
    BY <1>1, <1>3, <1>7, <2>1
  <2>3. new = Append(fixed, leaf)
    BY <1>4, <1>9 DEF n
  <2>4. more \in Seq(Nat) /\ ToSet(more) = ToSet(old.children) \cup {L + 1}
    <3> DEFINE s == old.children
    <3>1. s \in Seq(Nat) /\ L + 1 \in Nat
      BY <1>1, <2>2
    <3> HIDE DEF s
    <3>2. /\ Append(s, L + 1) \in Seq(Nat) /\ Len(Append(s, L + 1)) = Len(s) + 1
          /\ \A m \in 1..(Len(s) + 1) : Append(s, L + 1)[m] = IF m <= Len(s) THEN s[m] ELSE L + 1
          /\ Len(s) \in Nat /\ DOMAIN s = 1..Len(s) /\ DOMAIN Append(s, L + 1) = 1..(Len(s) + 1)
      BY <3>1
    <3> DEFINE t == Append(s, L + 1)
    <3> HIDE DEF t
    <3>3. ASSUME NEW x \in ToSet(t) PROVE x \in ToSet(s) \cup {L + 1}
      <4>1. PICK m \in DOMAIN t : x = t[m]
        BY <3>3 DEF ToSet
      <4>2. m \in 1..(Len(s) + 1) /\ (m <= Len(s) => m \in DOMAIN s)
        BY <3>2, <4>1 DEF t
      <4>3. x = IF m <= Len(s) THEN s[m] ELSE L + 1
        BY <3>2, <4>1, <4>2 DEF t
      <4> QED
        BY <4>2, <4>3 DEF ToSet
    <3>4. ASSUME NEW x \in ToSet(s) PROVE x \in ToSet(t)
      <4>1. PICK m \in DOMAIN s : x = s[m]
        BY <3>4 DEF ToSet
      <4>2. m \in 1..(Len(s) + 1) /\ m <= Len(s) /\ m \in DOMAIN t
        BY <3>2, <4>1 DEF t
      <4>3. x = t[m]
        BY <3>2, <4>1, <4>2 DEF t
      <4> QED
        BY <4>2, <4>3 DEF ToSet
    <3>5. L + 1 \in ToSet(t)
      <4>1. Len(s) + 1 \in DOMAIN t /\ t[Len(s) + 1] = L + 1
        BY <3>2 DEF t
      <4> QED
        BY <4>1 DEF ToSet
    <3>6. ToSet(t) = ToSet(s) \cup {L + 1}
      BY <3>3, <3>4, <3>5
    <3> QED
      BY <3>2, <3>6 DEF s, t
  <2> DEFINE changed == [old EXCEPT !.children = more]
  <2>5. /\ fixed \in [1..L -> N] /\ fixed[n] = changed /\ \A m \in 1..L : m # n => fixed[m] = nodes[m]
        /\ changed.mesh = 0 /\ changed.name = c /\ changed.children = more
    <3>1. changed \in N /\ changed.mesh = old.mesh /\ changed.name = old.name /\ changed.children = more
      BY <2>2, <2>4 DEF N
    <3>2. fixed = [nodes EXCEPT ![n] = changed]
      OBVIOUS
    <3> HIDE DEF changed, fixed
    <3>3. nodes \in [1..L -> N]
      BY <1>1
    <3> QED
      BY <2>2, <3>1, <3>2, <3>3
  <2> HIDE DEF changed, fixed, more, old, leaf
  <2>6. /\ fixed \in Seq(N) /\ Len(fixed) = L /\ new \in Seq(N) /\ Len(new) = L + 1 /\ DOMAIN new = 1..(L + 1)
        /\ new[L + 1] = leaf /\ \A m \in 1..L : new[m] = fixed[m]
    <3>1. fixed \in Seq(N) /\ Len(fixed) = L
      BY <1>1, <2>5
    <3> QED
      BY <1>1, <1>5, <2>3, <3>1
  <2>7. 1..(L + 1) = 1..L \cup {L + 1, n} /\ n # L + 1 /\ L + 1 \notin 1..L /\ n \in Nat
    BY <1>1, <2>2
  <2>8. new[n].mesh = 0 /\ new[n].name = c /\ ToSet(new[n].children) = ToSet(nodes[n].children) \cup {L + 1}
    BY <2>2, <2>4, <2>5, <2>6 DEF old
  <2>9. \A m \in 1..L : new[m].mesh = nodes[m].mesh /\ new[m].name = nodes[m].name
                        /\ (m # n => new[m].children = nodes[m].children)
    <3> SUFFICES ASSUME NEW m \in 1..L
                 PROVE  new[m].mesh = nodes[m].mesh /\ new[m].name = nodes[m].name
                        /\ (m # n => new[m].children = nodes[m].children)
      OBVIOUS
    <3>1. CASE m = n
      BY <2>2, <2>8, <3>1 DEF old
    <3>2. CASE m # n
      BY <2>5, <2>6, <3>2
    <3> QED
      BY <3>1, <3>2
  <2>10. nodes[n].mesh = 0 /\ nodes[n].name = c
    BY <2>2 DEF old
  <2>11. Grown(new, nodes, i, c, n)
    BY <1>1, <1>6, <2>2, <2>6, <2>7, <2>8, <2>9, <2>10 DEF Grown, L
  <2> QED
    BY <1>1, <2>6, <2>7, <2>11 DEF new
<1> QED
  BY <1>8, <1>9

\* The scene after each product.
SceneRun(run, products) ==
  /\ run \in [0..Len(products) -> Seq(SceneNodes(products))] /\ run[0] = <<>>
  /\ \A k \in 1..Len(products) : run[k] = IF [i \in DOMAIN products |-> i][k] \in Assembly!Shown(products) THEN Assembly!WithObject(run[k - 1], [i \in DOMAIN products |-> i][k], Assembly!Categorize(products[[i \in DOMAIN products |-> i][k]])) ELSE run[k - 1]

\* The scene is made product by product.
LEMMA SceneFold ==
  ASSUME NEW products \in Seq(Items)
  PROVE  \E run : SceneRun(run, products) /\ Assembly!Scene(products) = run[Len(products)]
<1> DEFINE n == Len(products)
           S == 1..n
           D == DOMAIN [i \in DOMAIN products |-> i]
           V == Seq(SceneNodes(products))
           Op(v, k) == IF [i \in DOMAIN products |-> i][k] \in Assembly!Shown(products) THEN Assembly!WithObject(v, [i \in DOMAIN products |-> i][k], Assembly!Categorize(products[[i \in DOMAIN products |-> i][k]])) ELSE v
           step == [k \in S |-> [v \in V |-> Op(v, k)]]
           Folds(f) == f = [T \in SUBSET D |-> IF T = {} THEN <<>> ELSE Op(f[T \ {Assembly!Max(T)}], Assembly!Max(T))]
           f == CHOOSE f : Folds(f)
<1>1. n \in Nat /\ D = S /\ DOMAIN products = S
  OBVIOUS
<1>2. <<>> \in V
  OBVIOUS
<1>3. \A k \in S, v \in V : Op(v, k) \in V
  <2> SUFFICES ASSUME NEW k \in S, NEW v \in V PROVE Op(v, k) \in V
    OBVIOUS
  <2> DEFINE c == Assembly!Categorize(products[k])
             w == Assembly!WithObject(v, k, c)
  <2>1. k \in Nat /\ k \in DOMAIN products /\ [i \in DOMAIN products |-> i][k] = k
    BY <1>1
  <2>2. c \in {Assembly!Categorize(products[j]) : j \in DOMAIN products}
    BY <2>1
  <2>3. Op(v, k) = IF k \in Assembly!Shown(products) THEN w ELSE v
    BY <2>1
  <2> HIDE DEF c, Op
  <2>4. w \in V
    BY <2>1, <2>2, WithObjectIs
  <2> HIDE DEF w, V
  <2> QED
    BY <2>3, <2>4
<1>4. \A k \in S, v \in V : step[k][v] = Op(v, k)
  OBVIOUS
<1> HIDE DEF V, Op, n, D
<1>5. StaysIn(step, S, V)
  BY <1>3, <1>4 DEF StaysIn
<1>6. Picks(LastOf(n), S) /\ IsFiniteSet(S) /\ \A T \in SUBSET S : LastOf(n)[T] = Assembly!Max(T)
  BY <1>1, OutputsMax, LastIn DEF LastOf
<1> HIDE DEF step
<1>7. \E g : Folds(g)
  <2>1. PICK g \in [SUBSET S -> V] : Iterates(g, <<>>, LastOf(n), step, S)
    BY <1>2, <1>5, <1>6, SetRecursion
  <2>2. ASSUME NEW T \in SUBSET S
        PROVE  g[T] = IF T = {} THEN <<>> ELSE Op(g[T \ {Assembly!Max(T)}], Assembly!Max(T))
    <3>1. T # {} => Assembly!Max(T) \in S /\ g[T \ {Assembly!Max(T)}] \in V
      BY <1>6, <2>1 DEF Picks
    <3>2. g[T] = IF T = {} THEN <<>> ELSE step[Assembly!Max(T)][g[T \ {Assembly!Max(T)}]]
      BY <1>6, <2>1 DEF Iterates
    <3> QED
      BY <1>4, <3>1, <3>2
  <2> QED
    BY <1>1, <2>1, <2>2
<1>8. Folds(f)
  BY <1>7
<1>9. Assembly!Scene(products) = f[D]
  BY DEF Assembly!Scene, Assembly!FoldLeft, Assembly!MapThenFoldSet, Op, D
<1> HIDE DEF f
<1>10. \A T \in SUBSET S : f[T] = IF T = {} THEN <<>> ELSE Op(f[T \ {Assembly!Max(T)}], Assembly!Max(T))
  <2> DEFINE g == [T \in SUBSET S |-> IF T = {} THEN <<>> ELSE Op(f[T \ {Assembly!Max(T)}], Assembly!Max(T))]
  <2>1. f = g
    BY <1>1, <1>8
  <2>2. \A T \in SUBSET S : g[T] = IF T = {} THEN <<>> ELSE Op(f[T \ {Assembly!Max(T)}], Assembly!Max(T))
    OBVIOUS
  <2> HIDE DEF g
  <2> QED
    BY <2>1, <2>2
<1> DEFINE Good == {T \in SUBSET S : f[T] \in V}
<1>11. {} \in Good
  BY <1>2, <1>10
<1>12. ASSUME NEW T \in SUBSET S, T # {}, \A x \in T : T \ {x} \in Good PROVE T \in Good
  <2>1. Assembly!Max(T) \in T /\ Assembly!Max(T) \in S
    BY <1>6, <1>12 DEF Picks
  <2>2. f[T \ {Assembly!Max(T)}] \in V
    BY <1>12, <2>1
  <2>3. f[T] = Op(f[T \ {Assembly!Max(T)}], Assembly!Max(T))
    BY <1>10, <1>12
  <2> QED
    BY <1>3, <2>1, <2>2, <2>3
<1> HIDE DEF Good
<1>13. \A T \in SUBSET S : T \in Good
  <2>1. IsFiniteSet(S)
    BY <1>6
  <2> HIDE DEF S
  <2> QED
    BY <1>11, <1>12, <2>1, SubsetInduction
<1>14. Iterates(f, <<>>, LastOf(n), step, S)
  <2> SUFFICES ASSUME NEW T \in SUBSET S
               PROVE  f[T] = IF T = {} THEN <<>> ELSE step[LastOf(n)[T]][f[T \ {LastOf(n)[T]}]]
    BY DEF Iterates
  <2>1. T # {} => Assembly!Max(T) \in S /\ f[T \ {Assembly!Max(T)}] \in V
    BY <1>6, <1>13 DEF Picks, Good
  <2>2. T # {} => step[Assembly!Max(T)][f[T \ {Assembly!Max(T)}]] = Op(f[T \ {Assembly!Max(T)}], Assembly!Max(T))
    BY <1>4, <2>1
  <2>3. LastOf(n)[T] = Assembly!Max(T) /\ f[T] = IF T = {} THEN <<>> ELSE Op(f[T \ {Assembly!Max(T)}], Assembly!Max(T))
    BY <1>6, <1>10
  <2> QED
    BY <2>2, <2>3
<1>15. RunsTo(f[S], <<>>, step, n, V)
  BY <1>1, <1>2, <1>5, <1>14, FoldRuns
<1>16. PICK run \in [0..n -> V] : Runs(run, <<>>, step, n) /\ f[S] = run[n]
  BY <1>15 DEF RunsTo
<1>17. \A k \in S : run[k] = Op(run[k - 1], k)
  <2> SUFFICES ASSUME NEW k \in S PROVE run[k] = Op(run[k - 1], k)
    OBVIOUS
  <2>1. k - 1 \in 0..n
    BY <1>1
  <2>2. run[k] = step[k][run[k - 1]] /\ run[k - 1] \in V
    BY <1>16, <2>1 DEF Runs
  <2> QED
    BY <1>4, <2>2
<1>18. run[0] = <<>>
  BY <1>16 DEF Runs
<1>19. run \in [0..Len(products) -> Seq(SceneNodes(products))] /\ Assembly!Scene(products) = run[Len(products)]
  BY <1>1, <1>9, <1>16 DEF n, V
<1>20. \A k \in 1..Len(products) : run[k] = IF [i \in DOMAIN products |-> i][k] \in Assembly!Shown(products) THEN Assembly!WithObject(run[k - 1], [i \in DOMAIN products |-> i][k], Assembly!Categorize(products[[i \in DOMAIN products |-> i][k]])) ELSE run[k - 1]
  BY <1>17, Zenon DEF n, Op
<1>21. SceneRun(run, products)
  BY <1>18, <1>19, <1>20 DEF SceneRun
<1> QED
  BY <1>19, <1>21

\* The scene after the first products: every object once and in one folder, every category
\* one folder, and its objects in it.
SceneOf(nodes, products, k) ==
  /\ nodes \in Seq(SceneNodes(products))
  /\ \A n \in DOMAIN nodes : nodes[n].mesh # 0 =>
       /\ nodes[n].mesh \in Assembly!Shown(products) /\ nodes[n].mesh <= k /\ ToSet(nodes[n].children) = {}
       /\ \E f \in DOMAIN nodes : nodes[f].mesh = 0 /\ n \in ToSet(nodes[f].children)
  /\ \A i \in Assembly!Shown(products) : i <= k => \E n \in DOMAIN nodes : nodes[n].mesh = i
  /\ \A m, n \in DOMAIN nodes : nodes[m].mesh = nodes[n].mesh /\ nodes[m].mesh # 0 => m = n
  /\ \A f, g \in DOMAIN nodes :
       nodes[f].mesh = 0 /\ nodes[g].mesh = 0 /\ nodes[f].name = nodes[g].name => f = g
  /\ \A f \in DOMAIN nodes : nodes[f].mesh = 0 => \A n \in ToSet(nodes[f].children) :
       /\ n \in DOMAIN nodes /\ nodes[n].mesh # 0
       /\ Assembly!Categorize(products[nodes[n].mesh]) = nodes[f].name

\* One more object keeps it so.
LEMMA SceneGrows ==
  ASSUME NEW products \in Seq(Items), NEW nodes, NEW k \in Nat, SceneOf(nodes, products, k),
         k + 1 \in Assembly!Shown(products)
  PROVE  SceneOf(Assembly!WithObject(nodes, k + 1, Assembly!Categorize(products[k + 1])), products, k + 1)
<1> DEFINE i == k + 1
           c == Assembly!Categorize(products[i])
           new == Assembly!WithObject(nodes, i, c)
           D == DOMAIN nodes
           E == DOMAIN new
           node == Len(nodes) + 1
           Kids(n) == ToSet(nodes[n].children)
           Now(n) == ToSet(new[n].children)
           Shown == Assembly!Shown(products)
           Cat(n) == Assembly!Categorize(products[n])
<1>1. i \in Nat /\ i # 0 /\ i = k + 1 /\ c \in {Assembly!Categorize(products[j]) : j \in DOMAIN products} /\ i \in Shown
      /\ c = Cat(i)
  BY DEF Assembly!Shown
<1>2. nodes \in Seq(SceneNodes(products))
  BY DEF SceneOf
<1> HIDE DEF c, i
<1>3. new \in Seq(SceneNodes(products))
  BY <1>1, <1>2, WithObjectIs
<1>4. PICK f \in Nat : Grown(new, nodes, i, c, f)
  BY <1>1, <1>2, WithObjectIs
<1>5. /\ E = D \cup {node, f} /\ f # node /\ node \notin D
      /\ new[node].mesh = i /\ Now(node) = {}
      /\ new[f].mesh = 0 /\ new[f].name = c /\ node \in Now(f)
      /\ \A x \in Now(f) : x = node \/ (f \in D /\ x \in Kids(f))
      /\ f \in D => nodes[f].mesh = 0 /\ nodes[f].name = c /\ Kids(f) \subseteq Now(f)
      /\ f \notin D => \A g \in D : ~(nodes[g].mesh = 0 /\ nodes[g].name = c)
      /\ \A m \in D : new[m].mesh = nodes[m].mesh /\ new[m].name = nodes[m].name
                      /\ (m # f => new[m].children = nodes[m].children)
  BY <1>4 DEF Grown
<1>6. \A m \in D : m # f => Now(m) = Kids(m)
  BY <1>5
<1>7. /\ \A n \in D : nodes[n].mesh # 0 =>
           /\ nodes[n].mesh \in Shown /\ nodes[n].mesh <= k /\ Kids(n) = {}
           /\ \E g \in D : nodes[g].mesh = 0 /\ n \in Kids(g)
      /\ \A j \in Shown : j <= k => \E n \in D : nodes[n].mesh = j
      /\ \A m, n \in D : nodes[m].mesh = nodes[n].mesh /\ nodes[m].mesh # 0 => m = n
      /\ \A g, h \in D : nodes[g].mesh = 0 /\ nodes[h].mesh = 0 /\ nodes[g].name = nodes[h].name => g = h
      /\ \A g \in D : nodes[g].mesh = 0 => \A n \in Kids(g) :
           n \in D /\ nodes[n].mesh # 0 /\ Cat(nodes[n].mesh) = nodes[g].name
  BY DEF SceneOf
<1>8. \A j \in Shown : j \in Nat
  BY DEF Assembly!Shown
<1> HIDE DEF new, D, E, node, Kids, Now, Shown, Cat
<1>9. \A n \in E : n \in D \/ n = node \/ n = f
  BY <1>5
<1>10. D \subseteq E /\ node \in E /\ f \in E
  BY <1>5
<1>11. \A m \in D : Kids(m) \subseteq Now(m)
  BY <1>5, <1>6
<1>12. ASSUME NEW n \in E, new[n].mesh # 0
       PROVE  /\ new[n].mesh \in Shown /\ new[n].mesh <= i /\ Now(n) = {}
              /\ \E g \in E : new[g].mesh = 0 /\ n \in Now(g)
  <2>1. n # f
    BY <1>5, <1>12
  <2>2. CASE n = node
    BY <1>1, <1>5, <1>8, <1>10, <2>2
  <2>3. CASE n \in D
    <3>1. nodes[n].mesh # 0 /\ new[n].mesh = nodes[n].mesh /\ Now(n) = Kids(n)
      BY <1>5, <1>6, <1>12, <2>1, <2>3
    <3>2. PICK g \in D : nodes[g].mesh = 0 /\ n \in Kids(g)
      BY <1>7, <2>3, <3>1
    <3>3. new[g].mesh = 0 /\ n \in Now(g) /\ g \in E
      BY <1>5, <1>10, <1>11, <3>2
    <3>4. nodes[n].mesh \in Shown /\ nodes[n].mesh <= k /\ Kids(n) = {}
      BY <1>7, <2>3, <3>1
    <3>5. nodes[n].mesh <= i
      <4>1. nodes[n].mesh \in Nat /\ i = k + 1 /\ k \in Nat
        BY <1>1, <1>8, <3>4
      <4> DEFINE m == nodes[n].mesh
      <4>2. m \in Nat /\ m <= k
        BY <3>4, <4>1
      <4> HIDE DEF m
      <4>3. m <= i
        BY <4>1, <4>2
      <4> QED
        BY <4>3 DEF m
    <3> QED
      BY <3>1, <3>3, <3>4, <3>5
  <2> QED
    BY <1>9, <2>1, <2>2, <2>3
<1>13. ASSUME NEW j \in Shown, j <= i PROVE \E n \in E : new[n].mesh = j
  <2>1. CASE j = i
    BY <1>5, <1>10, <2>1
  <2>2. CASE j # i
    <3>1. j <= k
      BY <1>1, <1>8, <1>13, <2>2
    <3>2. PICK n \in D : nodes[n].mesh = j
      BY <1>7, <3>1
    <3> QED
      BY <1>5, <1>10, <3>2
  <2> QED
    BY <2>1, <2>2
<1>14. \A n \in D : nodes[n].mesh # i
  <2> SUFFICES ASSUME NEW n \in D, nodes[n].mesh = i PROVE FALSE
    OBVIOUS
  <2>1. nodes[n].mesh <= k
    BY <1>1, <1>7
  <2> QED
    BY <1>1, <2>1
<1>15. ASSUME NEW m \in E, NEW n \in E, new[m].mesh = new[n].mesh, new[m].mesh # 0 PROVE m = n
  <2>1. m # f /\ n # f
    BY <1>5, <1>15
  <2>2. m \in D \/ m = node
    BY <1>9, <2>1
  <2>3. n \in D \/ n = node
    BY <1>9, <2>1
  <2>4. CASE m \in D /\ n \in D
    BY <1>5, <1>7, <1>15, <2>4
  <2>5. CASE m = node /\ n \in D
    BY <1>5, <1>14, <1>15, <2>5
  <2>6. CASE m \in D /\ n = node
    BY <1>5, <1>14, <1>15, <2>6
  <2> QED
    BY <2>2, <2>3, <2>4, <2>5, <2>6
<1>16. ASSUME NEW g \in E, NEW h \in E, new[g].mesh = 0, new[h].mesh = 0, new[g].name = new[h].name PROVE g = h
  <2>1. g # node /\ h # node
    BY <1>1, <1>5, <1>16
  <2>2. CASE g \in D /\ h \in D
    BY <1>5, <1>7, <1>16, <2>2
  <2>3. CASE g = f /\ h \in D
    BY <1>5, <1>7, <1>16, <2>3
  <2>4. CASE h = f /\ g \in D
    BY <1>5, <1>7, <1>16, <2>4
  <2> QED
    BY <1>9, <2>1, <2>2, <2>3, <2>4
<1>17. ASSUME NEW g \in E, new[g].mesh = 0, NEW n \in Now(g)
       PROVE  n \in E /\ new[n].mesh # 0 /\ Cat(new[n].mesh) = new[g].name
  <2>1. g # node
    BY <1>1, <1>5, <1>17
  <2>2. CASE g = f /\ n = node
    BY <1>1, <1>5, <1>10, <2>2
  <2>3. CASE g \in D /\ n \in Kids(g)
    <3>1. nodes[g].mesh = 0 /\ new[g].name = nodes[g].name
      BY <1>5, <1>17, <2>3
    <3>2. n \in D /\ nodes[n].mesh # 0 /\ Cat(nodes[n].mesh) = nodes[g].name
      BY <1>7, <2>3, <3>1
    <3> QED
      BY <1>5, <1>10, <3>1, <3>2
  <2>4. g = f => n = node \/ (g \in D /\ n \in Kids(g))
    BY <1>5
  <2>5. g # f => g \in D /\ n \in Kids(g)
    BY <1>6, <1>9, <2>1
  <2> QED
    BY <2>2, <2>3, <2>4, <2>5
<1> QED
  BY <1>3, <1>12, <1>13, <1>15, <1>16, <1>17 DEF SceneOf, new, E, Now, Shown, Cat, i, c

\* So it is so for all of them.
LEMMA SceneIs ==
  ASSUME NEW products \in Seq(Items)
  PROVE  SceneOf(Assembly!Scene(products), products, Len(products))
<1> DEFINE n == Len(products)
<1>1. n \in Nat /\ DOMAIN products = 1..n
  OBVIOUS
<1>2. PICK run : SceneRun(run, products) /\ Assembly!Scene(products) = run[n]
  BY SceneFold
<1>3. ASSUME NEW k \in 1..n
      PROVE  run[k] = IF k \in Assembly!Shown(products)
                      THEN Assembly!WithObject(run[k - 1], k, Assembly!Categorize(products[k])) ELSE run[k - 1]
  <2>1. [i \in DOMAIN products |-> i][k] = k
    BY <1>1
  <2>2. run[k] = IF [i \in DOMAIN products |-> i][k] \in Assembly!Shown(products)
                 THEN Assembly!WithObject(run[k - 1], [i \in DOMAIN products |-> i][k],
                                          Assembly!Categorize(products[[i \in DOMAIN products |-> i][k]]))
                 ELSE run[k - 1]
    BY <1>2, Zenon DEF SceneRun
  <2> QED
    BY <2>1, <2>2
<1>4. run[0] = <<>> /\ run \in [0..n -> Seq(SceneNodes(products))]
  BY <1>2 DEF SceneRun
<1>5. \A i \in Assembly!Shown(products) : i \in 1..n
  BY <1>1 DEF Assembly!Shown
<1> HIDE DEF n
<1> DEFINE A == {k \in Nat : k <= n => SceneOf(run[k], products, k)}
<1>6. 0 \in A
  <2>1. DOMAIN <<>> = {} /\ <<>> \in Seq(SceneNodes(products))
    OBVIOUS
  <2>2. ASSUME NEW i \in Assembly!Shown(products), i <= 0 PROVE FALSE
    BY <1>1, <1>5, <2>2
  <2>3. SceneOf(<<>>, products, 0)
    BY <2>1, <2>2 DEF SceneOf
  <2> QED
    BY <1>4, <2>3
<1>7. ASSUME NEW k \in Nat, k \in A PROVE k + 1 \in A
  <2> SUFFICES ASSUME k + 1 <= n PROVE SceneOf(run[k + 1], products, k + 1)
    OBVIOUS
  <2>1. k + 1 \in 1..n /\ k + 1 - 1 = k /\ SceneOf(run[k], products, k)
    BY <1>1, <1>7
  <2>2. run[k + 1] = IF k + 1 \in Assembly!Shown(products)
                     THEN Assembly!WithObject(run[k], k + 1, Assembly!Categorize(products[k + 1])) ELSE run[k]
    BY <1>3, <2>1
  <2>3. CASE k + 1 \in Assembly!Shown(products)
    BY <2>1, <2>2, <2>3, SceneGrows
  <2>4. CASE k + 1 \notin Assembly!Shown(products)
    <3> DEFINE nodes == run[k]
    <3>1. \A i \in Assembly!Shown(products) : i <= k + 1 => i <= k
      BY <1>1, <1>5, <2>4
    <3>2. \A i \in Assembly!Shown(products) : i <= k => i <= k + 1
      BY <1>1, <1>5
    <3>3. SceneOf(nodes, products, k) /\ run[k + 1] = nodes
      BY <2>1, <2>2, <2>4
    <3> HIDE DEF nodes
    <3>4. SceneOf(nodes, products, k + 1)
      BY <3>1, <3>2, <3>3 DEF SceneOf
    <3> QED
      BY <3>3, <3>4
  <2> QED
    BY <2>3, <2>4
<1> HIDE DEF A
<1>8. n \in A
  BY <1>1, <1>6, <1>7, InductionOnSet
<1> QED
  BY <1>1, <1>2, <1>8 DEF A, n

Views  == [offset : Nat, length : Nat]

Meshes == [vertices : Nat, faces : Nat]

\* The views of one more mesh.
ViewsWith(acc, mesh) ==
  LET at == IF acc = <<>> THEN 0 ELSE Assembly!Last(acc).offset + Assembly!Last(acc).length
  IN  acc \o <<[offset |-> at, length |-> 12 * mesh.vertices],
               [offset |-> at + 12 * mesh.vertices, length |-> 12 * mesh.faces]>>

\* Each view begins where the one before it ends.
EndToEnd(views) ==
  \A v \in DOMAIN views : v > 1 => views[v].offset = views[v - 1].offset + views[v - 1].length

\* A mesh adds its views at the end.
LEMMA ViewsGrow ==
  ASSUME NEW acc \in Seq(Views), NEW mesh \in Meshes
  PROVE  ViewsWith(acc, mesh) \in Seq(Views) /\ (EndToEnd(acc) => EndToEnd(ViewsWith(acc, mesh)))
<1> DEFINE L == Len(acc)
           at == IF acc = <<>> THEN 0 ELSE Assembly!Last(acc).offset + Assembly!Last(acc).length
           a == [offset |-> at, length |-> 12 * mesh.vertices]
           b == [offset |-> at + 12 * mesh.vertices, length |-> 12 * mesh.faces]
           two == <<a, b>>
           out == acc \o two
<1>1. L \in Nat /\ DOMAIN acc = 1..L /\ (\A i \in 1..L : acc[i] \in Views) /\ (acc = <<>> <=> L = 0)
  OBVIOUS
<1>2. mesh.vertices \in Nat /\ mesh.faces \in Nat
  BY DEF Meshes
<1>3. at \in Nat /\ (L > 0 => at = acc[L].offset + acc[L].length)
  <2>1. Assembly!Last(acc) = acc[L]
    BY DEF Assembly!Last
  <2>2. CASE L = 0
    BY <1>1, <2>2
  <2>3. CASE L > 0
    <3>1. acc[L] \in Views
      BY <1>1, <2>3
    <3>2. acc[L].offset \in Nat /\ acc[L].length \in Nat
      BY <3>1 DEF Views
    <3> QED
      BY <1>1, <2>1, <2>3, <3>2
  <2> QED
    BY <1>1, <2>2, <2>3
<1> HIDE DEF at
<1>4. a \in Views /\ b \in Views /\ a.offset = at /\ b.offset = a.offset + a.length
  <2>1. 12 * mesh.vertices \in Nat /\ 12 * mesh.faces \in Nat /\ at + 12 * mesh.vertices \in Nat
    BY <1>2, <1>3
  <2> QED
    BY <1>3, <2>1 DEF Views
<1> HIDE DEF a, b
<1>5. two \in Seq(Views) /\ Len(two) = 2 /\ two[1] = a /\ two[2] = b
  BY <1>4
<1> HIDE DEF two
<1>6. /\ out \in Seq(Views) /\ Len(out) = Len(acc) + Len(two)
      /\ \A i \in 1..(Len(acc) + Len(two)) : out[i] = IF i <= Len(acc) THEN acc[i] ELSE two[i - Len(acc)]
  BY <1>5, ConcatProperties
<1>7. Len(acc) = L /\ Len(two) = 2
  BY <1>5
<1> HIDE DEF L, out
<1>8. DOMAIN out = 1..(L + 2) /\ \A i \in 1..(L + 2) : out[i] = IF i <= L THEN acc[i] ELSE two[i - L]
  BY <1>6, <1>7
<1>9. ASSUME EndToEnd(acc) PROVE EndToEnd(out)
  <2> SUFFICES ASSUME NEW v \in 1..(L + 2), v > 1 PROVE out[v].offset = out[v - 1].offset + out[v - 1].length
    BY <1>8 DEF EndToEnd
  <2>1. v - 1 \in 1..(L + 2)
    BY <1>1
  <2>2. CASE v <= L
    <3>1. out[v] = acc[v] /\ out[v - 1] = acc[v - 1] /\ v \in DOMAIN acc
      BY <1>1, <1>8, <2>1, <2>2
    <3> QED
      BY <1>9, <3>1 DEF EndToEnd
  <2>3. CASE v = L + 1
    <3>1. out[v] = a
      <4>1. out[v] = two[v - L] /\ v - L = 1
        BY <1>1, <1>8, <2>3
      <4> QED
        BY <1>5, <4>1
    <3>2. out[v - 1] = acc[L] /\ L > 0
      BY <1>1, <1>8, <2>1, <2>3
    <3> QED
      BY <1>3, <1>4, <3>1, <3>2
  <2>4. CASE v = L + 2
    <3>1. out[v] = b
      <4>1. out[v] = two[v - L] /\ v - L = 2
        BY <1>1, <1>8, <2>4
      <4> QED
        BY <1>5, <4>1
    <3>2. out[v - 1] = a
      <4> DEFINE u == v - 1
      <4>1. u \in 1..(L + 2) /\ ~(u <= L) /\ u - L = 1
        BY <1>1, <2>1, <2>4
      <4> HIDE DEF u
      <4>2. out[u] = two[u - L]
        BY <1>8, <4>1
      <4> QED
        BY <1>5, <4>1, <4>2 DEF u
    <3> QED
      BY <1>4, <3>1, <3>2
  <2> QED
    BY <1>1, <2>2, <2>3, <2>4
<1>10. ViewsWith(acc, mesh) = out
  BY DEF ViewsWith, out, two, a, b, at
<1> QED
  BY <1>6, <1>9, <1>10

\* The views after each mesh.
ViewsRun(run, meshes) ==
  /\ run \in [0..Len(meshes) -> Seq(Views)] /\ run[0] = <<>>
  /\ \A k \in 1..Len(meshes) : run[k] = ViewsWith(run[k - 1], meshes[k])

\* BufferViews takes the meshes one after the other.
LEMMA ViewsFold ==
  ASSUME NEW meshes \in Seq(Meshes)
  PROVE  \E run : ViewsRun(run, meshes) /\ Assembly!BufferViews(meshes) = run[Len(meshes)]
<1> DEFINE n == Len(meshes)
           S == 1..n
           D == DOMAIN meshes
           V == Seq(Views)
           Op(v, k) == ViewsWith(v, meshes[k])
           step == [k \in S |-> [v \in V |-> Op(v, k)]]
           Folds(f) == f = [T \in SUBSET D |-> IF T = {} THEN <<>> ELSE Op(f[T \ {Assembly!Max(T)}], Assembly!Max(T))]
           f == CHOOSE f : Folds(f)
<1>1. n \in Nat /\ D = S /\ \A k \in S : meshes[k] \in Meshes
  OBVIOUS
<1>2. <<>> \in V
  OBVIOUS
<1>3. \A k \in S, v \in V : Op(v, k) \in V
  BY <1>1, ViewsGrow
<1>4. \A k \in S, v \in V : step[k][v] = Op(v, k)
  OBVIOUS
<1> HIDE DEF V, Op, n, D
<1>5. StaysIn(step, S, V)
  BY <1>3, <1>4 DEF StaysIn
<1>6. Picks(LastOf(n), S) /\ IsFiniteSet(S) /\ \A T \in SUBSET S : LastOf(n)[T] = Assembly!Max(T)
  BY <1>1, OutputsMax, LastIn DEF LastOf
<1> HIDE DEF step
<1>7. \E g : Folds(g)
  <2>1. PICK g \in [SUBSET S -> V] : Iterates(g, <<>>, LastOf(n), step, S)
    BY <1>2, <1>5, <1>6, SetRecursion
  <2>2. ASSUME NEW T \in SUBSET S
        PROVE  g[T] = IF T = {} THEN <<>> ELSE Op(g[T \ {Assembly!Max(T)}], Assembly!Max(T))
    <3>1. T # {} => Assembly!Max(T) \in S /\ g[T \ {Assembly!Max(T)}] \in V
      BY <1>6, <2>1 DEF Picks
    <3>2. g[T] = IF T = {} THEN <<>> ELSE step[Assembly!Max(T)][g[T \ {Assembly!Max(T)}]]
      BY <1>6, <2>1 DEF Iterates
    <3> QED
      BY <1>4, <3>1, <3>2
  <2> QED
    BY <1>1, <2>1, <2>2
<1>8. Folds(f)
  BY <1>7
<1>9. Assembly!BufferViews(meshes) = f[D]
  BY DEF Assembly!BufferViews, Assembly!FoldLeft, Assembly!MapThenFoldSet, Op, D, ViewsWith
<1> HIDE DEF f
<1>10. \A T \in SUBSET S : f[T] = IF T = {} THEN <<>> ELSE Op(f[T \ {Assembly!Max(T)}], Assembly!Max(T))
  <2> DEFINE g == [T \in SUBSET S |-> IF T = {} THEN <<>> ELSE Op(f[T \ {Assembly!Max(T)}], Assembly!Max(T))]
  <2>1. f = g
    BY <1>1, <1>8
  <2>2. \A T \in SUBSET S : g[T] = IF T = {} THEN <<>> ELSE Op(f[T \ {Assembly!Max(T)}], Assembly!Max(T))
    OBVIOUS
  <2> HIDE DEF g
  <2> QED
    BY <2>1, <2>2
<1> DEFINE Good == {T \in SUBSET S : f[T] \in V}
<1>11. {} \in Good
  BY <1>2, <1>10
<1>12. ASSUME NEW T \in SUBSET S, T # {}, \A x \in T : T \ {x} \in Good PROVE T \in Good
  <2>1. Assembly!Max(T) \in T /\ Assembly!Max(T) \in S
    BY <1>6, <1>12 DEF Picks
  <2>2. f[T \ {Assembly!Max(T)}] \in V
    BY <1>12, <2>1
  <2>3. f[T] = Op(f[T \ {Assembly!Max(T)}], Assembly!Max(T))
    BY <1>10, <1>12
  <2> QED
    BY <1>3, <2>1, <2>2, <2>3
<1> HIDE DEF Good
<1>13. \A T \in SUBSET S : T \in Good
  <2>1. IsFiniteSet(S)
    BY <1>6
  <2> HIDE DEF S
  <2> QED
    BY <1>11, <1>12, <2>1, SubsetInduction
<1>14. Iterates(f, <<>>, LastOf(n), step, S)
  <2> SUFFICES ASSUME NEW T \in SUBSET S
               PROVE  f[T] = IF T = {} THEN <<>> ELSE step[LastOf(n)[T]][f[T \ {LastOf(n)[T]}]]
    BY DEF Iterates
  <2>1. T # {} => Assembly!Max(T) \in S /\ f[T \ {Assembly!Max(T)}] \in V
    BY <1>6, <1>13 DEF Picks, Good
  <2>2. T # {} => step[Assembly!Max(T)][f[T \ {Assembly!Max(T)}]] = Op(f[T \ {Assembly!Max(T)}], Assembly!Max(T))
    BY <1>4, <2>1
  <2>3. LastOf(n)[T] = Assembly!Max(T) /\ f[T] = IF T = {} THEN <<>> ELSE Op(f[T \ {Assembly!Max(T)}], Assembly!Max(T))
    BY <1>6, <1>10
  <2> QED
    BY <2>2, <2>3
<1>15. RunsTo(f[S], <<>>, step, n, V)
  BY <1>1, <1>2, <1>5, <1>14, FoldRuns
<1>16. PICK run \in [0..n -> V] : Runs(run, <<>>, step, n) /\ f[S] = run[n]
  BY <1>15 DEF RunsTo
<1>17. \A k \in S : run[k] = Op(run[k - 1], k)
  <2> SUFFICES ASSUME NEW k \in S PROVE run[k] = Op(run[k - 1], k)
    OBVIOUS
  <2>1. k - 1 \in 0..n
    BY <1>1
  <2>2. run[k] = step[k][run[k - 1]] /\ run[k - 1] \in V
    BY <1>16, <2>1 DEF Runs
  <2> QED
    BY <1>4, <2>2
<1>18. run[0] = <<>>
  BY <1>16 DEF Runs
<1>19. run \in [0..Len(meshes) -> Seq(Views)] /\ Assembly!BufferViews(meshes) = run[Len(meshes)]
  BY <1>1, <1>9, <1>16 DEF n, V
<1>20. \A k \in 1..Len(meshes) : run[k] = ViewsWith(run[k - 1], meshes[k])
  BY <1>17, Zenon DEF n, Op
<1>21. ViewsRun(run, meshes)
  BY <1>18, <1>19, <1>20 DEF ViewsRun
<1> QED
  BY <1>19, <1>21

\* The bytes of the meshes lie end to end.
LEMMA ViewsAreEndToEnd ==
  ASSUME NEW meshes \in Seq(Meshes)
  PROVE  EndToEnd(Assembly!BufferViews(meshes))
<1> DEFINE n == Len(meshes)
<1>1. n \in Nat /\ \A k \in 1..n : meshes[k] \in Meshes
  OBVIOUS
<1>2. PICK run : ViewsRun(run, meshes) /\ Assembly!BufferViews(meshes) = run[n]
  BY ViewsFold
<1>3. /\ run \in [0..n -> Seq(Views)] /\ run[0] = <<>>
      /\ \A k \in 1..n : run[k] = ViewsWith(run[k - 1], meshes[k])
  BY <1>2 DEF ViewsRun
<1> HIDE DEF n
<1> DEFINE A == {k \in Nat : k <= n => EndToEnd(run[k])}
<1>4. 0 \in A
  <2>1. EndToEnd(<<>>)
    BY DEF EndToEnd
  <2> QED
    BY <1>3, <2>1
<1>5. ASSUME NEW k \in Nat, k \in A PROVE k + 1 \in A
  <2> SUFFICES ASSUME k + 1 <= n PROVE EndToEnd(run[k + 1])
    OBVIOUS
  <2>1. k + 1 \in 1..n /\ k + 1 - 1 = k /\ k \in 0..n /\ EndToEnd(run[k])
    BY <1>1, <1>5
  <2>2. run[k] \in Seq(Views) /\ meshes[k + 1] \in Meshes /\ run[k + 1] = ViewsWith(run[k], meshes[k + 1])
    BY <1>1, <1>3, <2>1
  <2> QED
    BY <2>1, <2>2, ViewsGrow
<1> HIDE DEF A
<1>6. n \in A
  BY <1>1, <1>4, <1>5, InductionOnSet
<1> QED
  BY <1>1, <1>2, <1>6 DEF A

\* The children of the root are the folders.
LEMMA RootHasFolders ==
  ASSUME NEW products, NEW nodes \in Seq(SceneNodes(products))
  PROVE  LET cs == Assembly!FlattenSeq([n \in DOMAIN nodes |-> IF nodes[n].mesh = 0 THEN <<n>> ELSE <<>>])
         IN  ToSet(cs) = {n \in DOMAIN nodes : nodes[n].mesh = 0}
<1> DEFINE L == Len(nodes)
           s(n) == IF nodes[n].mesh = 0 THEN <<n>> ELSE <<>>
           ss == [n \in DOMAIN nodes |-> s(n)]
<1>1. L \in Nat /\ DOMAIN nodes = 1..L
  OBVIOUS
<1>2. ASSUME NEW n \in 1..L
      PROVE  s(n) \in Seq(Nat) /\ ToSet(s(n)) = IF nodes[n].mesh = 0 THEN {n} ELSE {}
  <2>1. n \in Nat
    OBVIOUS
  <2>2. <<n>> \in Seq(Nat) /\ ToSet(<<n>>) = {n} /\ <<>> \in Seq(Nat) /\ ToSet(<<>>) = {}
    BY <2>1 DEF ToSet
  <2> QED
    BY <2>2
<1> HIDE DEF s
<1>3. ss \in Seq(Seq(Nat)) /\ DOMAIN ss = 1..L /\ \A n \in 1..L : ss[n] = s(n)
  <2>1. ss \in [1..L -> Seq(Nat)]
    BY <1>1, <1>2
  <2> QED
    BY <1>1, <2>1
<1> HIDE DEF ss
<1>4. \A x : x \in ToSet(FlattenSeq(ss)) <=> \E n \in 1..L : x \in ToSet(ss[n])
  BY <1>3, FlatSet
<1>5. \A x : x \in ToSet(FlattenSeq(ss)) <=> \E n \in 1..L : nodes[n].mesh = 0 /\ x = n
  <2>1. ASSUME NEW n \in 1..L, NEW x PROVE x \in ToSet(ss[n]) <=> nodes[n].mesh = 0 /\ x = n
    <3>1. ToSet(ss[n]) = IF nodes[n].mesh = 0 THEN {n} ELSE {}
      BY <1>2, <1>3
    <3> QED
      BY <3>1
  <2>2. ASSUME NEW x, x \in ToSet(FlattenSeq(ss)) PROVE \E n \in 1..L : nodes[n].mesh = 0 /\ x = n
    <3>1. PICK n \in 1..L : x \in ToSet(ss[n])
      BY <1>4, <2>2
    <3> QED
      BY <2>1, <3>1
  <2>3. ASSUME NEW x, NEW n \in 1..L, nodes[n].mesh = 0, x = n PROVE x \in ToSet(FlattenSeq(ss))
    <3>1. x \in ToSet(ss[n])
      BY <2>1, <2>3
    <3> QED
      BY <1>4, <3>1
  <2> QED
    BY <2>2, <2>3
<1>6. ToSet(FlattenSeq(ss)) = {n \in DOMAIN nodes : nodes[n].mesh = 0}
  BY <1>1, <1>5
<1> QED
  BY <1>6, OutputsFlat DEF ss, s

\* The scene of a file is a tree.
LEMMA GlbAlwaysATree ==
  ASSUME NEW products \in Seq(Items)
  PROVE  Assembly!GlbIsATree(products)
<1> DEFINE scene == Assembly!Scene(products)
           cs == Assembly!FlattenSeq([n \in DOMAIN scene |-> IF scene[n].mesh = 0 THEN <<n>> ELSE <<>>])
           top == [name |-> "site", mesh |-> 0, children |-> cs]
           nodes == Append(scene, top)
           L == Len(scene)
           root == Len(nodes)
           Kids(n) == Assembly!ToSet(nodes[n].children)
           Shown == Assembly!Shown(products)
           Cat(i) == Assembly!Categorize(products[i])
           D == DOMAIN nodes
           m == Assembly!Cardinality(Shown)
           meshes == [i \in 1..m |-> [vertices |-> i + 2, faces |-> i]]
           views == Assembly!BufferViews(meshes)
<1>1. Assembly!ConvertIfcToGlb(products) = nodes
  BY DEF Assembly!ConvertIfcToGlb, Assembly!Folder
<1>2. SceneOf(scene, products, Len(products))
  BY SceneIs
<1>3. scene \in Seq(SceneNodes(products))
  BY <1>2 DEF SceneOf
<1>4. ToSet(cs) = {n \in DOMAIN scene : scene[n].mesh = 0}
  BY <1>3, RootHasFolders
<1> HIDE DEF cs, scene
<1>5. /\ L \in Nat /\ DOMAIN scene = 1..L /\ root = L + 1 /\ D = 1..(L + 1) /\ nodes[L + 1] = top
      /\ \A n \in 1..L : nodes[n] = scene[n]
  <2> HIDE DEF top
  <2>1. L \in Nat /\ DOMAIN scene = 1..L
    BY <1>3
  <2>2. /\ Len(nodes) = L + 1 /\ DOMAIN nodes = 1..(L + 1) /\ nodes[L + 1] = top
        /\ \A n \in 1..L : nodes[n] = scene[n]
    BY <1>3
  <2> QED
    BY <2>1, <2>2
<1>6. top.mesh = 0 /\ top.children = cs
  OBVIOUS
<1> HIDE DEF top, nodes, L, root
<1>7. \A n : Kids(n) = ToSet(nodes[n].children)
  BY OutputsSet
<1> DEFINE S == 1..L
<1>8. /\ \A n \in S : nodes[n].mesh # 0 =>
           /\ nodes[n].mesh \in Shown /\ Kids(n) = {}
           /\ \E f \in S : nodes[f].mesh = 0 /\ n \in Kids(f)
      /\ \A i \in Shown : \E n \in S : nodes[n].mesh = i
      /\ \A k, n \in S : nodes[k].mesh = nodes[n].mesh /\ nodes[k].mesh # 0 => k = n
      /\ \A f, g \in S : nodes[f].mesh = 0 /\ nodes[g].mesh = 0 /\ nodes[f].name = nodes[g].name => f = g
      /\ \A f \in S : nodes[f].mesh = 0 => \A n \in Kids(f) :
           n \in S /\ nodes[n].mesh # 0 /\ Cat(nodes[n].mesh) = nodes[f].name
  <2>1. /\ \A n \in S : scene[n].mesh # 0 =>
             /\ scene[n].mesh \in Shown /\ ToSet(scene[n].children) = {}
             /\ \E f \in S : scene[f].mesh = 0 /\ n \in ToSet(scene[f].children)
        /\ \A i \in Shown : i <= Len(products) => \E n \in S : scene[n].mesh = i
        /\ \A k, n \in S : scene[k].mesh = scene[n].mesh /\ scene[k].mesh # 0 => k = n
        /\ \A f, g \in S : scene[f].mesh = 0 /\ scene[g].mesh = 0 /\ scene[f].name = scene[g].name => f = g
        /\ \A f \in S : scene[f].mesh = 0 => \A n \in ToSet(scene[f].children) :
             n \in S /\ scene[n].mesh # 0 /\ Cat(scene[n].mesh) = scene[f].name
    BY <1>2, <1>5 DEF SceneOf
  <2>2. \A i \in Shown : i <= Len(products)
    BY DEF Assembly!Shown
  <2> HIDE DEF Shown, Cat, S, Kids
  <2>3. \A n \in S : nodes[n] = scene[n] /\ Kids(n) = ToSet(scene[n].children)
    BY <1>5, <1>7 DEF S
  <2>4. ASSUME NEW n \in S, nodes[n].mesh # 0
        PROVE  nodes[n].mesh \in Shown /\ Kids(n) = {} /\ \E f \in S : nodes[f].mesh = 0 /\ n \in Kids(f)
    <3>1. scene[n].mesh # 0
      BY <2>3, <2>4
    <3>2. PICK f \in S : scene[f].mesh = 0 /\ n \in ToSet(scene[f].children)
      BY <2>1, <3>1
    <3>3. nodes[f].mesh = 0 /\ n \in Kids(f)
      BY <2>3, <3>2
    <3>4. scene[n].mesh \in Shown /\ ToSet(scene[n].children) = {}
      BY <2>1, <3>1
    <3> QED
      BY <2>3, <3>3, <3>4
  <2>5. ASSUME NEW i \in Shown PROVE \E n \in S : nodes[n].mesh = i
    <3>1. PICK n \in S : scene[n].mesh = i
      BY <2>1, <2>2
    <3> QED
      BY <2>3, <3>1
  <2>6. ASSUME NEW k \in S, NEW n \in S, nodes[k].mesh = nodes[n].mesh, nodes[k].mesh # 0 PROVE k = n
    <3>1. scene[k].mesh = scene[n].mesh /\ scene[k].mesh # 0
      BY <2>3, <2>6
    <3> QED
      BY <2>1, <3>1
  <2>7. ASSUME NEW f \in S, NEW g \in S, nodes[f].mesh = 0, nodes[g].mesh = 0, nodes[f].name = nodes[g].name PROVE f = g
    <3>1. scene[f].mesh = 0 /\ scene[g].mesh = 0 /\ scene[f].name = scene[g].name
      BY <2>3, <2>7
    <3> QED
      BY <2>1, <3>1
  <2>8. ASSUME NEW f \in S, nodes[f].mesh = 0, NEW n \in Kids(f)
        PROVE  n \in S /\ nodes[n].mesh # 0 /\ Cat(nodes[n].mesh) = nodes[f].name
    <3>1. scene[f].mesh = 0 /\ n \in ToSet(scene[f].children)
      BY <2>3, <2>8
    <3>2. n \in S /\ scene[n].mesh # 0 /\ Cat(scene[n].mesh) = scene[f].name
      BY <2>1, <3>1
    <3> QED
      BY <2>3, <3>2
  <2> QED
    BY <2>4, <2>5, <2>6, <2>7, <2>8
<1>9. root \notin S /\ D = S \cup {root} /\ nodes[root].mesh = 0 /\ Kids(root) = {n \in S : nodes[n].mesh = 0}
      /\ 1..(root - 1) = S
  <2>1. nodes[root] = top /\ root \notin S /\ D = S \cup {root} /\ 1..(root - 1) = S
    BY <1>5
  <2>2. Kids(root) = ToSet(cs)
    BY <1>6, <1>7, <2>1
  <2> QED
    BY <1>4, <1>5, <1>6, <2>1, <2>2
<1>10. \A i \in Shown : i # 0
  BY DEF Assembly!Shown
<1>11. \A x : Assembly!Cardinality({x}) = 1
  BY OutputsCount, FS_Singleton
<1> HIDE DEF S, Shown, Cat, Kids
<1>12. ASSUME NEW n \in S PROVE Assembly!Cardinality({k \in D : n \in Kids(k)}) = 1
  <2>1. CASE nodes[n].mesh = 0
    <3>1. \A k \in D : n \in Kids(k) <=> k = root
      BY <1>8, <1>9, <2>1
    <3>2. {k \in D : n \in Kids(k)} = {root}
      BY <1>9, <3>1
    <3> QED
      BY <1>11, <3>2
  <2>2. CASE nodes[n].mesh # 0
    <3>1. PICK f \in S : nodes[f].mesh = 0 /\ n \in Kids(f)
      BY <1>8, <2>2
    <3>2. ASSUME NEW k \in D, n \in Kids(k) PROVE k = f
      <4>1. k \in S
        BY <1>9, <2>2, <3>2
      <4>2. nodes[k].mesh = 0
        BY <1>8, <3>2, <4>1
      <4>3. nodes[k].name = nodes[f].name
        BY <1>8, <3>1, <3>2, <4>1, <4>2
      <4> QED
        BY <1>8, <3>1, <4>1, <4>2, <4>3
    <3>3. {k \in D : n \in Kids(k)} = {f}
      BY <1>9, <3>1, <3>2
    <3> QED
      BY <1>11, <3>3
  <2> QED
    BY <2>1, <2>2
<1>13. ASSUME NEW i \in Shown PROVE Assembly!Cardinality({n \in D : nodes[n].mesh = i}) = 1
  <2>1. PICK n \in S : nodes[n].mesh = i
    BY <1>8
  <2>2. \A k \in D : nodes[k].mesh = i => k = n
    BY <1>8, <1>9, <1>10, <2>1
  <2>3. {k \in D : nodes[k].mesh = i} = {n}
    BY <1>9, <2>1, <2>2
  <2> QED
    BY <1>11, <2>3
<1>14. ASSUME NEW f \in Kids(root)
       PROVE  nodes[f].mesh = 0 /\ \A n \in Kids(f) : nodes[n].mesh # 0 /\ Cat(nodes[n].mesh) = nodes[f].name
  BY <1>8, <1>9
<1>15. \A n \in D \ {root} : (nodes[n].mesh = 0) = (n \in Kids(root))
  BY <1>9
<1>16. EndToEnd(views)
  <2>1. m \in Nat
    <3>1. IsFiniteSet(Shown)
      <4>1. Shown \subseteq 1..Len(products) /\ Len(products) \in Nat
        BY DEF Shown, Assembly!Shown
      <4>2. IsFiniteSet(1..Len(products))
        BY <4>1, FS_Interval
      <4> HIDE DEF Shown
      <4> QED
        BY <4>1, <4>2, FS_Subset
    <3> QED
      BY <3>1, OutputsCount, FS_CardinalityType
  <2> HIDE DEF m
  <2>2. \A i \in 1..m : [vertices |-> i + 2, faces |-> i] \in Meshes
    BY DEF Meshes
  <2>3. meshes \in [1..m -> Meshes]
    BY <2>2
  <2>4. meshes \in Seq(Meshes)
    BY <2>1, <2>3
  <2> HIDE DEF meshes
  <2> QED
    BY <2>4, ViewsAreEndToEnd
<1>17. \A v \in DOMAIN views : v > 1 => views[v].offset = views[v - 1].offset + views[v - 1].length
  BY <1>16 DEF EndToEnd
<1> HIDE DEF views
<1>19. /\ \A n \in 1..(root - 1) : Assembly!Cardinality({k \in DOMAIN nodes : n \in Kids(k)}) = 1
       /\ \A i \in Shown : Assembly!Cardinality({n \in DOMAIN nodes : nodes[n].mesh = i}) = 1
       /\ \A f \in Kids(root) : nodes[f].mesh = 0 /\ \A n \in Kids(f) :
            nodes[n].mesh # 0 /\ Cat(nodes[n].mesh) = nodes[f].name
       /\ \A n \in DOMAIN nodes \ {root} : (nodes[n].mesh = 0) = (n \in Kids(root))
       /\ \A v \in DOMAIN views : v > 1 => views[v].offset = views[v - 1].offset + views[v - 1].length
  BY <1>9, <1>12, <1>13, <1>14, <1>15, <1>17
<1> HIDE DEF nodes
<1> QED
  BY <1>1, <1>19 DEF Assembly!GlbIsATree, root, Kids, Shown, Cat, views, meshes, m

\* Faces run along the edges of the mesh.
LEMMA EdgesAre ==
  ASSUME NEW F, NEW a, NEW b
  PROVE  <<a, b>> \in Assembly!Edges(F) <=> \E f \in F : Leads(f, a, b)
<1>1. Assembly!Edges(F) = {<<f[k], f[Next3(k)]>> : f \in F, k \in 1..3}
  BY DEF Assembly!Edges, Next3
<1>2. ASSUME <<a, b>> \in Assembly!Edges(F) PROVE \E f \in F : Leads(f, a, b)
  <2>1. PICK f \in F, k \in 1..3 : <<a, b>> = <<f[k], f[Next3(k)]>>
    BY <1>1, <1>2
  <2> QED
    BY <2>1 DEF Leads
<1>3. ASSUME NEW f \in F, Leads(f, a, b) PROVE <<a, b>> \in Assembly!Edges(F)
  <2>1. PICK k \in 1..3 : f[k] = a /\ f[Next3(k)] = b
    BY <1>3 DEF Leads
  <2> QED
    BY <1>1, <2>1
<1> QED
  BY <1>2, <1>3

\* Every edge is between two corners of a face.
LEMMA EdgesOf ==
  ASSUME NEW F, NEW e \in Assembly!Edges(F)
  PROVE  e = <<e[1], e[2]>> /\ \E f \in F : Leads(f, e[1], e[2])
<1>1. Assembly!Edges(F) = {<<f[k], f[Next3(k)]>> : f \in F, k \in 1..3}
  BY DEF Assembly!Edges, Next3
<1>2. PICK f \in F, k \in 1..3 : e = <<f[k], f[Next3(k)]>>
  BY <1>1
<1> QED
  BY <1>2 DEF Leads

\* A mesh runs along as many edges as its faces have when no two of them run the same way.
LEMMA EdgesCount ==
  ASSUME NEW F, IsFiniteSet(F), \A f \in F : HasCorners(f)
  PROVE  Cardinality(Assembly!Edges(F)) = 3 * Cardinality(F) <=> OneWay(F)
<1> DEFINE P == F \X (1..3)
           E == Assembly!Edges(F)
           g == [p \in P |-> <<p[1][p[2]], p[1][Next3(p[2])]>>]
<1>1. IsFiniteSet(P) /\ Cardinality(P) = Cardinality(F) * 3 /\ Cardinality(F) \in Nat
  <2>1. IsFiniteSet(1..3) /\ Cardinality(1..3) = 3
    <3>1. \A a, b \in Int : IsFiniteSet(a..b) /\ Cardinality(a..b) = IF a > b THEN 0 ELSE b - a + 1
      BY FS_Interval
    <3>2. 1 \in Int /\ 3 \in Int /\ ~(1 > 3) /\ 3 - 1 + 1 = 3
      OBVIOUS
    <3> HIDE DEF P
    <3> QED
      BY <3>1, <3>2
  <2> HIDE DEF P
  <2>2. IsFiniteSet(F \X (1..3)) /\ Cardinality(F \X (1..3)) = Cardinality(F) * Cardinality(1..3)
    BY <2>1, FS_Product
  <2>3. Cardinality(F) \in Nat
    BY FS_CardinalityType
  <2> QED
    BY <2>1, <2>2, <2>3 DEF P
<1>2. E = {<<f[k], f[Next3(k)]>> : f \in F, k \in 1..3}
  BY DEF Assembly!Edges, Next3
<1>3. \A f \in F : \A k \in 1..3 : <<f, k>> \in P /\ g[<<f, k>>] = <<f[k], f[Next3(k)]>>
  <2> SUFFICES ASSUME NEW f \in F, NEW k \in 1..3
               PROVE  <<f, k>> \in P /\ g[<<f, k>>] = <<f[k], f[Next3(k)]>>
    OBVIOUS
  <2>1. <<f, k>> \in P /\ <<f, k>>[1] = f /\ <<f, k>>[2] = k
    OBVIOUS
  <2> QED
    BY <2>1
<1>4. \A p \in P : p[1] \in F /\ p[2] \in 1..3 /\ p = <<p[1], p[2]>>
  OBVIOUS
<1> HIDE DEF E
<1>5. g \in Surjection(P, E)
  <2>1. \A p \in P : g[p] \in E
    BY <1>2, <1>3, <1>4
  <2>2. \A e \in E : \E p \in P : g[p] = e
    <3> SUFFICES ASSUME NEW e \in E PROVE \E p \in P : g[p] = e
      OBVIOUS
    <3>1. PICK f \in F, k \in 1..3 : e = <<f[k], f[Next3(k)]>>
      BY <1>2
    <3> QED
      BY <1>3, <3>1
  <2>3. g \in [P -> E]
    BY <2>1
  <2> HIDE DEF g, P
  <2> QED
    BY <2>2, <2>3 DEF Surjection
<1>6. \A x \in P : \A y \in P : <<x[1][x[2]], x[1][Next3(x[2])]>> = g[x]
  BY <1>3, <1>4
<1> HIDE DEF g, P
<1>7. Cardinality(E) = Cardinality(P) <=> g \in Injection(P, E)
  BY <1>1, <1>5, FS_Surjection
<1>8. g \in Injection(P, E) <=> \A x, y \in P : g[x] = g[y] => x = y
  BY <1>5 DEF Surjection, Injection, IsInjective
<1>9. (\A x, y \in P : g[x] = g[y] => x = y) <=> OneWay(F)
  <2>1. ASSUME \A x, y \in P : g[x] = g[y] => x = y, NEW f \in F, NEW h \in F, NEW a, NEW b, Leads(f, a, b), Leads(h, a, b)
        PROVE  f = h
    <3>1. PICK i \in 1..3 : f[i] = a /\ f[Next3(i)] = b
      BY <2>1 DEF Leads
    <3>2. PICK j \in 1..3 : h[j] = a /\ h[Next3(j)] = b
      BY <2>1 DEF Leads
    <3>3. g[<<f, i>>] = g[<<h, j>>] /\ <<f, i>> \in P /\ <<h, j>> \in P
      <4>1. g[<<f, i>>] = <<a, b>> /\ <<f, i>> \in P
        BY <1>3, <3>1
      <4>2. g[<<h, j>>] = <<a, b>> /\ <<h, j>> \in P
        BY <1>3, <3>2
      <4> QED
        BY <4>1, <4>2
    <3>4. <<f, i>> = <<h, j>>
      BY <2>1, <3>3
    <3> QED
      BY <3>4
  <2>2. ASSUME OneWay(F), NEW x \in P, NEW y \in P, g[x] = g[y] PROVE x = y
    <3> DEFINE f == x[1]
               h == y[1]
               i == x[2]
               j == y[2]
    <3>1. f \in F /\ h \in F /\ i \in 1..3 /\ j \in 1..3 /\ x = <<f, i>> /\ y = <<h, j>>
      BY <1>4
    <3> HIDE DEF f, h, i, j
    <3>2. f[i] = h[j] /\ f[Next3(i)] = h[Next3(j)]
      <4>1. g[x] = <<f[i], f[Next3(i)]>>
        BY <1>3, <3>1
      <4>2. g[y] = <<h[j], h[Next3(j)]>>
        BY <1>3, <3>1
      <4>3. <<f[i], f[Next3(i)]>> = <<h[j], h[Next3(j)]>>
        BY <2>2, <4>1, <4>2
      <4>4. \A p, q, r, s : <<p, q>> = <<r, s>> => p = r /\ q = s
        OBVIOUS
      <4> QED
        BY <4>3, <4>4
    <3>3. Leads(f, f[i], f[Next3(i)]) /\ Leads(h, f[i], f[Next3(i)])
      BY <3>1, <3>2 DEF Leads
    <3>4. f = h
      BY <2>2, <3>1, <3>3 DEF OneWay
    <3>5. HasCorners(f)
      BY <3>1
    <3>6. Next3(1) = 2 /\ Next3(2) = 3 /\ Next3(3) = 1
      BY DEF Next3
    <3>7. (i = 1 \/ i = 2 \/ i = 3) /\ (j = 1 \/ j = 2 \/ j = 3)
      BY <3>1
    <3>8. i = j
      BY <3>2, <3>4, <3>5, <3>6, <3>7 DEF HasCorners
    <3> QED
      BY <3>1, <3>4, <3>8
  <2> QED
    BY <2>1, <2>2 DEF OneWay
<1>10. Cardinality(E) = 3 * Cardinality(F) <=> OneWay(F)
  <2>1. Cardinality(P) = 3 * Cardinality(F)
    BY <1>1
  <2> QED
    BY <1>7, <1>8, <1>9, <2>1
<1> QED
  BY <1>10 DEF E

\* A mesh is oriented when it runs along every edge once each way.
LEMMA OrientedIs ==
  ASSUME NEW F, IsFiniteSet(F), \A f \in F : HasCorners(f)
  PROVE  Assembly!Oriented(F) <=> OneWay(F) /\ BothWays(F)
<1> DEFINE E == Assembly!Edges(F)
<1>1. (\A e \in E : <<e[2], e[1]>> \in E) <=> BothWays(F)
  <2>1. ASSUME \A e \in E : <<e[2], e[1]>> \in E, NEW f \in F, NEW a, NEW b, Leads(f, a, b)
        PROVE  \E h \in F : Leads(h, b, a)
    <3>1. <<a, b>> \in E
      BY <2>1, EdgesAre DEF E
    <3>2. <<b, a>> \in E
      BY <2>1, <3>1
    <3> QED
      BY <3>2, EdgesAre DEF E
  <2>2. ASSUME BothWays(F), NEW e \in E PROVE <<e[2], e[1]>> \in E
    <3>1. PICK f \in F : Leads(f, e[1], e[2])
      BY EdgesOf DEF E
    <3>2. \E h \in F : Leads(h, e[2], e[1])
      BY <2>2, <3>1 DEF BothWays
    <3> QED
      BY <3>2, EdgesAre DEF E
  <2> QED
    BY <2>1, <2>2 DEF BothWays
<1>2. Cardinality(E) = 3 * Cardinality(F) <=> OneWay(F)
  BY EdgesCount
<1> QED
  BY <1>1, <1>2, OutputsCount DEF Assembly!Oriented

\* A mesh is closed when every edge has two faces.
LEMMA ClosedIs ==
  ASSUME NEW F, \A f \in F : \A a, b : Leads(f, a, b) => TwoFaces(F, a, b)
  PROVE  Assembly!Closed(F)
<1>1. ASSUME NEW e \in Assembly!Edges(F)
      PROVE  Assembly!Cardinality({f \in F : {e[1], e[2]} \subseteq {f[1], f[2], f[3]}}) = 2
  <2> DEFINE H == {f \in F : {e[1], e[2]} \subseteq {f[1], f[2], f[3]}}
  <2>1. PICK f \in F : Leads(f, e[1], e[2])
    BY EdgesOf
  <2>2. TwoFaces(F, e[1], e[2])
    BY <2>1
  <2>3. PICK x \in F, y \in F : x # y /\ \A h \in F : {e[1], e[2]} \subseteq {h[1], h[2], h[3]} <=> h = x \/ h = y
    BY <2>2 DEF TwoFaces
  <2>4. H = {x} \cup {y}
    BY <2>3
  <2>5. Cardinality({x} \cup {y}) = 2
    <3>1. IsFiniteSet({x}) /\ Cardinality({x}) = 1
      BY FS_Singleton
    <3>2. Cardinality({x} \cup {y}) = IF y \in {x} THEN Cardinality({x}) ELSE Cardinality({x}) + 1
      BY <3>1, FS_AddElement
    <3> QED
      BY <2>3, <3>1, <3>2
  <2> HIDE DEF H
  <2>6. Assembly!Cardinality(H) = 2
    BY <2>4, <2>5, OutputsCount
  <2> QED
    BY <2>6 DEF H
<1> QED
  BY <1>1 DEF Assembly!Closed

\* A ring begins where those before it end.
LEMMA RingStartIs ==
  ASSUME NEW rings \in Seq(Nat)
  PROVE  \E at : Sums(at, rings) /\ \A r \in 1..(Len(rings) + 1) : Assembly!RingStart(rings, r) = at[r - 1]
<1> DEFINE m == Len(rings)
<1>1. m \in Nat /\ DOMAIN rings = 1..m
  OBVIOUS
<1>2. PICK at : Sums(at, rings)
  BY TotalIs
<1>3. ASSUME NEW r \in 1..(m + 1) PROVE Assembly!RingStart(rings, r) = at[r - 1]
  <2> DEFINE s == SubSeq(rings, 1, r - 1)
             l == r - 1
  <2>1. l \in Nat /\ l <= m
    BY <1>1
  <2>2. s \in Seq(Nat) /\ Len(s) = l /\ \A k \in 1..l : s[k] = rings[k]
    <3>1. s = [k \in 1..l |-> rings[k]]
      BY <1>1
    <3>2. \A k \in 1..l : rings[k] \in Nat
      BY <1>1, <2>1
    <3> HIDE DEF s, l
    <3>3. s \in [1..l -> Nat]
      BY <3>1, <3>2
    <3> QED
      BY <2>1, <3>1, <3>3
  <2>3. Assembly!RingStart(rings, r) = Exports!Total(s)
    BY DEF Assembly!RingStart, Assembly!FoldLeft, Assembly!MapThenFoldSet, Assembly!Max,
           Exports!Total, Exports!FoldLeft, Exports!MapThenFoldSet, Exports!Max
  <2> HIDE DEF s, l
  <2>4. PICK b : Sums(b, s) /\ Exports!Total(s) = b[l]
    BY <2>2, TotalIs
  <2>5. /\ b[0] = 0 /\ \A k \in 1..l : b[k] = b[k - 1] + rings[k]
        /\ at[0] = 0 /\ \A k \in 1..m : at[k] = at[k - 1] + rings[k]
    BY <1>2, <2>2, <2>4 DEF Sums
  <2> DEFINE A == {k \in Nat : k <= l => b[k] = at[k]}
  <2>6. 0 \in A
    BY <2>5
  <2>7. ASSUME NEW k \in Nat, k \in A PROVE k + 1 \in A
    <3> SUFFICES ASSUME k + 1 <= l PROVE b[k + 1] = at[k + 1]
      OBVIOUS
    <3>1. k + 1 \in 1..l /\ k + 1 \in 1..m /\ k + 1 - 1 = k /\ b[k] = at[k]
      BY <1>1, <2>1, <2>7
    <3> QED
      BY <2>5, <3>1
  <2> HIDE DEF A
  <2>8. l \in A
    BY <2>1, <2>6, <2>7, InductionOnSet
  <2> QED
    BY <2>1, <2>3, <2>4, <2>8 DEF A, l
<1> QED
  BY <1>2, <1>3

\* The walls stand on the outline and on the holes.
LEMMA PrismIs ==
  ASSUME NEW rings \in Seq(Nat), \A r \in DOMAIN rings : rings[r] >= 3, NEW at, Sums(at, rings),
         \A r \in 1..(Len(rings) + 1) : Assembly!RingStart(rings, r) = at[r - 1],
         NEW next, RingsNext(rings, at, at[Len(rings)], next), NEW T
  PROVE  /\ Border(rings) = {<<v, next[v]>> : v \in 0..(at[Len(rings)] - 1)}
         /\ Assembly!ExtrudePolygonMesh(rings, T) = Prism(T, next, at[Len(rings)])
         /\ Assembly!RingStart(rings, Len(rings) + 1) = at[Len(rings)]
<1> DEFINE m == Len(rings)
           n == at[m]
           V == 0..(n - 1)
           b0(r, i) == Assembly!RingStart(rings, r) + i
           b1(r, i) == Assembly!RingStart(rings, r) + ((i + 1) % rings[r])
<1>1. /\ m \in Nat /\ at \in [0..m -> Nat] /\ at[0] = 0 /\ DOMAIN rings = 1..m
      /\ \A k \in 1..m : at[k] = at[k - 1] + rings[k] /\ rings[k] \in Nat /\ rings[k] >= 3
  BY DEF Sums
<1>2. /\ \A v \in 0..(n - 1) : \E r \in 1..m : at[r - 1] <= v /\ v < at[r]
      /\ \A r \in 1..m : 0 <= at[r - 1] /\ at[r] <= at[m]
  BY RingsAre
<1>3. \A r \in 1..m : Assembly!RingStart(rings, r) = at[r - 1]
  BY <1>1
<1>4. Assembly!RingStart(rings, m + 1) = n
  BY <1>1
<1>5. \A r \in 1..m : \A v \in V : at[r - 1] <= v /\ v < at[r] => next[v] = at[r - 1] + After(v - at[r - 1], rings[r])
  BY DEF RingsNext
<1> HIDE DEF m
<1>6. n \in Nat /\ \A k \in 1..m : at[k - 1] \in Nat /\ at[k] \in Nat
  <2>1. m \in 0..m /\ \A k \in 1..m : k - 1 \in 0..m /\ k \in 0..m
    BY <1>1
  <2> QED
    BY <1>1, <2>1
<1>7. ASSUME NEW r \in 1..m, NEW i \in 0..(rings[r] - 1)
      PROVE  b0(r, i) \in V /\ b1(r, i) = next[b0(r, i)]
  <2> DEFINE a == at[r - 1]
             l == rings[r]
             v == a + i
  <2>1. a \in Nat /\ l \in Nat /\ l >= 1 /\ at[r] = a + l /\ at[r] <= n
    BY <1>1, <1>2, <1>6 DEF n
  <2>2. v \in V /\ a <= v /\ v < at[r] /\ v - a = i
    <3> HIDE DEF a, n
    <3>1. i \in Int /\ 0 <= i /\ i < l
      BY <2>1
    <3> HIDE DEF l
    <3> QED
      BY <2>1, <3>1, <1>6
  <2>3. next[v] = a + After(i, l)
    BY <1>5, <2>2
  <2>4. (i + 1) % l = After(i, l)
    BY <2>1, AfterIs
  <2> QED
    BY <1>3, <2>2, <2>3, <2>4
<1>8. ASSUME NEW v \in V PROVE \E r \in 1..m : \E i \in 0..(rings[r] - 1) : b0(r, i) = v
  <2>1. PICK r \in 1..m : at[r - 1] <= v /\ v < at[r]
    BY <1>2
  <2>2. v - at[r - 1] \in 0..(rings[r] - 1) /\ at[r - 1] + (v - at[r - 1]) = v
    <3>1. at[r] = at[r - 1] + rings[r] /\ at[r - 1] \in Nat /\ rings[r] \in Nat /\ v \in Int
      BY <1>1, <1>6
    <3> QED
      BY <2>1, <3>1
  <2>3. b0(r, v - at[r - 1]) = v
    BY <1>3, <2>2
  <2> QED
    BY <2>2, <2>3
<1> HIDE DEF V, n
<1>9. Border(rings) = {<<v, next[v]>> : v \in V}
  <2>1. Border(rings) = UNION {{<<b0(r, i), b1(r, i)>> : i \in 0..(rings[r] - 1)} : r \in 1..m}
    BY <1>1 DEF Border
  <2> HIDE DEF b0, b1
  <2>2. ASSUME NEW e \in Border(rings) PROVE e \in {<<v, next[v]>> : v \in V}
    <3>1. PICK r \in 1..m : e \in {<<b0(r, i), b1(r, i)>> : i \in 0..(rings[r] - 1)}
      BY <2>1
    <3>2. PICK i \in 0..(rings[r] - 1) : e = <<b0(r, i), b1(r, i)>>
      BY <3>1
    <3> QED
      BY <1>7, <3>2
  <2>3. ASSUME NEW v \in V PROVE <<v, next[v]>> \in Border(rings)
    <3>1. PICK r \in 1..m : \E i \in 0..(rings[r] - 1) : b0(r, i) = v
      BY <1>8
    <3>2. PICK i \in 0..(rings[r] - 1) : b0(r, i) = v
      BY <3>1
    <3>3. <<v, next[v]>> = <<b0(r, i), b1(r, i)>>
      BY <1>7, <3>2
    <3>4. <<v, next[v]>> \in {<<b0(r, j), b1(r, j)>> : j \in 0..(rings[r] - 1)}
      BY <3>3
    <3> DEFINE S(q) == {<<b0(q, j), b1(q, j)>> : j \in 0..(rings[q] - 1)}
    <3>5. <<v, next[v]>> \in S(r) /\ Border(rings) = UNION {S(q) : q \in 1..m}
      BY <2>1, <3>4
    <3> HIDE DEF S
    <3> QED
      BY <3>5
  <2> QED
    BY <2>2, <2>3
<1>10. UNION {UNION {{<<b0(r, i), b1(r, i), b1(r, i) + n>>, <<b0(r, i), b1(r, i) + n, b0(r, i) + n>>} :
                i \in 0..(rings[r] - 1)} : r \in 1..m}
       = {NearFace(next, n, v) : v \in V} \cup {FarFace(next, n, v) : v \in V}
  <2> DEFINE W(r, i) == {<<b0(r, i), b1(r, i), b1(r, i) + n>>, <<b0(r, i), b1(r, i) + n, b0(r, i) + n>>}
             U(r) == UNION {W(r, i) : i \in 0..(rings[r] - 1)}
             A == UNION {U(r) : r \in 1..m}
             B == {NearFace(next, n, v) : v \in V} \cup {FarFace(next, n, v) : v \in V}
  <2>1. ASSUME NEW r \in 1..m, NEW i \in 0..(rings[r] - 1)
        PROVE  W(r, i) = {NearFace(next, n, b0(r, i)), FarFace(next, n, b0(r, i))} /\ b0(r, i) \in V
    <3>1. b1(r, i) = next[b0(r, i)] /\ b0(r, i) \in V
      BY <1>7
    <3> HIDE DEF b0, b1
    <3> QED
      BY <3>1 DEF NearFace, FarFace
  <2> HIDE DEF W, b0, b1
  <2>2. ASSUME NEW x \in A PROVE x \in B
    <3>1. PICK r \in 1..m : x \in U(r)
      OBVIOUS
    <3>2. PICK i \in 0..(rings[r] - 1) : x \in W(r, i)
      BY <3>1
    <3> QED
      BY <2>1, <3>2
  <2>3. ASSUME NEW x \in B PROVE x \in A
    <3>1. PICK v \in V : x = NearFace(next, n, v) \/ x = FarFace(next, n, v)
      BY <2>3
    <3>2. PICK r \in 1..m : \E i \in 0..(rings[r] - 1) : b0(r, i) = v
      BY <1>8
    <3>3. PICK i \in 0..(rings[r] - 1) : b0(r, i) = v
      BY <3>2
    <3>4. x \in W(r, i)
      BY <2>1, <3>1, <3>3
    <3>5. x \in U(r)
      BY <3>4
    <3> QED
      BY <3>5
  <2>4. A = B
    <3> HIDE DEF A, B
    <3> QED
      BY <2>2, <2>3
  <2> QED
    BY <2>4 DEF W
<1>11. Assembly!ExtrudePolygonMesh(rings, T) =
         {LowFace(t) : t \in T} \cup {HighFace(t, n) : t \in T}
           \cup UNION {UNION {{<<b0(r, i), b1(r, i), b1(r, i) + n>>, <<b0(r, i), b1(r, i) + n, b0(r, i) + n>>} :
                i \in 0..(rings[r] - 1)} : r \in 1..m}
  <2>1. Assembly!RingStart(rings, Len(rings) + 1) = n
    BY <1>4 DEF m
  <2>2. Assembly!ExtrudePolygonMesh(rings, T) =
          {<<t[1], t[3], t[2]>> : t \in T} \cup {<<t[1] + n, t[2] + n, t[3] + n>> : t \in T}
           \cup UNION {UNION {{<<b0(r, i), b1(r, i), b1(r, i) + n>>, <<b0(r, i), b1(r, i) + n, b0(r, i) + n>>} :
                i \in 0..(rings[r] - 1)} : r \in DOMAIN rings}
    BY <2>1 DEF Assembly!ExtrudePolygonMesh
  <2> HIDE DEF b0, b1
  <2> QED
    BY <2>2, <1>1 DEF LowFace, HighFace
<1>12. Assembly!ExtrudePolygonMesh(rings, T) = Prism(T, next, n)
  <2> DEFINE X == UNION {UNION {{<<b0(r, i), b1(r, i), b1(r, i) + n>>, <<b0(r, i), b1(r, i) + n, b0(r, i) + n>>} :
                i \in 0..(rings[r] - 1)} : r \in 1..m}
             P == {LowFace(t) : t \in T} \cup {HighFace(t, n) : t \in T}
             N == {NearFace(next, n, v) : v \in V}
             M == {FarFace(next, n, v) : v \in V}
  <2>1. X = N \cup M
    BY <1>10
  <2>2. Assembly!ExtrudePolygonMesh(rings, T) = P \cup X
    BY <1>11
  <2>3. Prism(T, next, n) = (P \cup N) \cup M
    BY DEF Prism, V
  <2> HIDE DEF X, P, N, M
  <2> QED
    BY <2>1, <2>2, <2>3
<1> QED
  BY <1>4, <1>9, <1>12 DEF n, m, V

\* A prism is closed, whichever way its outline runs.
LEMMA PrismIsClosed ==
  ASSUME NEW n \in Nat, NEW next, Circuit(next, n), NEW T, NEW ccw \in BOOLEAN, Fills(T, next, n, ccw)
  PROVE  Assembly!Closed(Prism(T, next, n))
<1> DEFINE F == Prism(T, next, n)
           V == 0..(n - 1)
<1>1. T \in SUBSET Triples(n) /\ next \in [V -> V]
  BY DEF Fills, Circuit
<1>2. \A t \in T : \A a, b \in V : Leads(t, a, b) => next[a] = b \/ next[b] = a \/ \E s \in T : Leads(s, b, a)
  BY DEF Fills
<1>3. /\ \A v \in V : /\ TwoFaces(F, v, next[v]) /\ TwoFaces(F, next[v], v)
                      /\ TwoFaces(F, v + n, next[v] + n) /\ TwoFaces(F, next[v] + n, v + n)
                      /\ TwoFaces(F, next[v], next[v] + n) /\ TwoFaces(F, next[v] + n, next[v])
                      /\ TwoFaces(F, v, next[v] + n) /\ TwoFaces(F, next[v] + n, v)
      /\ \A s, t \in T : \A a, b \in V :
           Leads(s, a, b) /\ Leads(t, b, a) /\ next[a] # b /\ next[b] # a
             => TwoFaces(F, a, b) /\ TwoFaces(F, a + n, b + n)
  BY PrismShares
<1>4. \A v \in V : v \in Nat /\ next[v] \in V /\ \E w \in V : next[w] = v
  BY DEF Circuit
<1>5. ASSUME NEW f \in F, NEW a, NEW b, Leads(f, a, b) PROVE TwoFaces(F, a, b)
  <2>1. \/ RunsLow(f, T, n, a, b) \/ RunsHigh(f, T, n, a, b)
        \/ RunsNear(f, next, n, a, b) \/ RunsFar(f, next, n, a, b)
    BY <1>1, <1>5, PrismRuns
  <2> HIDE DEF F
  <2>2. ASSUME RunsLow(f, T, n, a, b) PROVE TwoFaces(F, a, b)
    <3>1. a \in V /\ b \in V /\ \E t \in T : Leads(t, b, a)
      BY <2>2 DEF RunsLow
    <3>2. next[a] = b \/ next[b] = a \/ \E s \in T : Leads(s, a, b)
      BY <1>2, <3>1
    <3> QED
      BY <1>3, <3>1, <3>2
  <2>3. ASSUME RunsHigh(f, T, n, a, b) PROVE TwoFaces(F, a, b)
    <3> DEFINE p == a - n
               q == b - n
    <3>1. a \in Nat /\ b \in Nat /\ p \in V /\ q \in V /\ \E t \in T : Leads(t, p, q)
      BY <2>3 DEF RunsHigh
    <3>2. a = p + n /\ b = q + n
      BY <3>1
    <3> HIDE DEF p, q
    <3>3. next[p] = q \/ next[q] = p \/ \E s \in T : Leads(s, q, p)
      BY <1>2, <3>1
    <3> QED
      BY <1>3, <3>1, <3>2, <3>3
  <2>4. ASSUME RunsNear(f, next, n, a, b) PROVE TwoFaces(F, a, b)
    <3>1. PICK v \in V : \/ a = v /\ b = next[v]
                         \/ a = next[v] /\ b = next[v] + n
                         \/ a = next[v] + n /\ b = v
      BY <2>4 DEF RunsNear
    <3> QED
      BY <1>3, <3>1
  <2>5. ASSUME RunsFar(f, next, n, a, b) PROVE TwoFaces(F, a, b)
    <3>1. PICK v \in V : \/ a = v /\ b = next[v] + n
                         \/ a = next[v] + n /\ b = v + n
                         \/ a = v + n /\ b = v
      BY <2>5 DEF RunsFar
    <3>2. PICK w \in V : next[w] = v
      BY <1>4
    <3>3. TwoFaces(F, v + n, v)
      BY <1>3, <3>2
    <3> QED
      BY <1>3, <3>1, <3>3
  <2> QED
    BY <2>1, <2>2, <2>3, <2>4, <2>5
<1> QED
  BY <1>5, ClosedIs

\* Its faces run along each edge once each way just when the outline is counter-clockwise.
LEMMA PrismIsOriented ==
  ASSUME NEW n \in Nat, n > 0, NEW next, Circuit(next, n), NEW T, NEW ccw \in BOOLEAN, Fills(T, next, n, ccw)
  PROVE  Assembly!Oriented(Prism(T, next, n)) <=> ccw
<1> DEFINE F == Prism(T, next, n)
<1>1. T \in SUBSET Triples(n) /\ (\A t \in T : HasCorners(t)) /\ next \in [0..(n - 1) -> 0..(n - 1)]
  BY DEF Fills, Circuit
<1>2. IsFiniteSet(F) /\ \A f \in F : HasCorners(f)
  BY <1>1, PrismHasFaces
<1>3. Assembly!Oriented(F) <=> OneWay(F) /\ BothWays(F)
  <2> HIDE DEF F
  <2> QED
    BY <1>2, OrientedIs
<1>4. ASSUME ccw PROVE OneWay(F) /\ BothWays(F)
  <2>1. ccw = TRUE
    BY <1>4
  <2> QED
    BY <2>1, PrismRunsOneWay, PrismRunsBothWays
<1>5. ASSUME ~ccw PROVE ~OneWay(F)
  <2>1. 0 \in 0..(n - 1) /\ next[0] \in 0..(n - 1)
    BY <1>1
  <2>2. PICK t \in T : Leads(t, next[0], 0)
    BY <1>5, <2>1 DEF Fills
  <2>3. Leads(LowFace(t), 0, next[0]) /\ Leads(NearFace(next, n, 0), 0, next[0])
    BY <1>1, <2>1, <2>2, FacesRun
  <2>4. LowFace(t) # NearFace(next, n, 0)
    BY <1>1, <2>1, FacesDiffer
  <2>5. LowFace(t) \in F /\ NearFace(next, n, 0) \in F
    BY <2>1 DEF Prism
  <2> QED
    BY <2>3, <2>4, <2>5 DEF OneWay
<1> QED
  BY <1>3, <1>4, <1>5

\* A polygon extruded is closed, and its faces agree when its outline is counter-clockwise.
LEMMA ExtrusionIsClosed ==
  ASSUME NEW rings, NEW triangles, NEW ccw \in BOOLEAN, Triangulates(rings, triangles, ccw)
  PROVE  /\ Assembly!Closed(Assembly!ExtrudePolygonMesh(rings, triangles))
         /\ Assembly!Oriented(Assembly!ExtrudePolygonMesh(rings, triangles)) <=> ccw
<1> DEFINE m == Len(rings)
           T == triangles
           Goes(a, b) == \E t \in T : Leads(t, a, b)
<1>1. rings \in Seq(Nat) /\ rings # <<>> /\ (\A r \in DOMAIN rings : rings[r] >= 3) /\ DOMAIN rings = 1..m /\ m \in Nat /\ m >= 1
  BY DEF Triangulates
<1>2. PICK at : Sums(at, rings) /\ \A r \in 1..(Len(rings) + 1) : Assembly!RingStart(rings, r) = at[r - 1]
  BY <1>1, RingStartIs
<1> DEFINE n == at[m]
<1>3. PICK next : Circuit(next, n) /\ RingsNext(rings, at, n, next)
  BY <1>1, <1>2, RingsTurn
<1>4. /\ Border(rings) = {<<v, next[v]>> : v \in 0..(n - 1)}
      /\ Assembly!ExtrudePolygonMesh(rings, triangles) = Prism(triangles, next, n)
      /\ Assembly!RingStart(rings, Len(rings) + 1) = n
  BY <1>1, <1>2, <1>3, PrismIs
<1>5. n \in Nat /\ n > 0
  <2>1. 1 \in 1..m /\ at[1] = at[0] + rings[1] /\ at[0] = 0 /\ rings[1] >= 3
    BY <1>1, <1>2 DEF Sums
  <2>2. at[1] <= n
    <3>1. \A r \in 1..Len(rings) : at[r] <= at[Len(rings)]
      BY <1>1, <1>2, RingsAre
    <3> QED
      BY <2>1, <3>1
  <2>3. n \in Nat
    BY <1>3 DEF Circuit
  <2>4. rings[1] \in Nat
    BY <1>1, <2>1
  <2> QED
    BY <2>1, <2>2, <2>3, <2>4
<1>6. \A k \in 1..3 : (k % 3) + 1 = Next3(k)
  BY DEF Next3
<1>7. \A a, b : (\E t \in T : \E k \in 1..3 : t[k] = a /\ t[(k % 3) + 1] = b) <=> Goes(a, b)
  BY <1>6 DEF Leads
<1> HIDE DEF n
<1>8. T \in SUBSET Triples(n) /\ \A t \in T : HasCorners(t)
  BY <1>4 DEF Triangulates, Triples, HasCorners
<1>9. OneWay(T)
  <2>1. \A s, t \in T : \A i, j \in 1..3 : s[i] = t[j] /\ s[(i % 3) + 1] = t[(j % 3) + 1] => s = t
    BY DEF Triangulates
  <2> SUFFICES ASSUME NEW s \in T, NEW t \in T, NEW a, NEW b, Leads(s, a, b), Leads(t, a, b) PROVE s = t
    BY DEF OneWay
  <2>2. PICK i \in 1..3 : s[i] = a /\ s[Next3(i)] = b
    BY DEF Leads
  <2>3. PICK j \in 1..3 : t[j] = a /\ t[Next3(j)] = b
    BY DEF Leads
  <2> QED
    BY <1>6, <2>1, <2>2, <2>3
<1>10. ASSUME NEW v \in 0..(n - 1) PROVE (Goes(v, next[v]) <=> ccw) /\ (Goes(next[v], v) <=> ~ccw)
  <2>1. <<v, next[v]>> \in Border(rings)
    BY <1>4
  <2>2. \A e \in Border(rings) :
          /\ (\E t \in T : \E k \in 1..3 : t[k] = e[1] /\ t[(k % 3) + 1] = e[2]) <=> ccw
          /\ (\E t \in T : \E k \in 1..3 : t[k] = e[2] /\ t[(k % 3) + 1] = e[1]) <=> ~ccw
    BY DEF Triangulates
  <2>3. <<v, next[v]>>[1] = v /\ <<v, next[v]>>[2] = next[v]
    OBVIOUS
  <2> HIDE DEF Goes
  <2>4. \A e \in Border(rings) : (Goes(e[1], e[2]) <=> ccw) /\ (Goes(e[2], e[1]) <=> ~ccw)
    BY <1>7, <2>2
  <2> QED
    BY <2>1, <2>3, <2>4
<1>11. ASSUME NEW t \in T, NEW a \in 0..(n - 1), NEW b \in 0..(n - 1), Leads(t, a, b)
       PROVE  next[a] = b \/ next[b] = a \/ Goes(b, a)
  <2>1. PICK k \in 1..3 : t[k] = a /\ t[(k % 3) + 1] = b
    BY <1>6, <1>11 DEF Leads
  <2>2. \/ <<t[k], t[(k % 3) + 1]>> \in Border(rings) \/ <<t[(k % 3) + 1], t[k]>> \in Border(rings)
        \/ \E s \in T : \E j \in 1..3 : s[j] = t[(k % 3) + 1] /\ s[(j % 3) + 1] = t[k]
    BY DEF Triangulates
  <2> HIDE DEF Goes
  <2>3. <<a, b>> \in Border(rings) \/ <<b, a>> \in Border(rings) \/ Goes(b, a)
    BY <1>7, <2>1, <2>2
  <2>4. \A p, q, r, s : <<p, q>> = <<r, s>> => p = r /\ q = s
    OBVIOUS
  <2> QED
    BY <1>4, <2>3, <2>4
<1>12. Fills(T, next, n, ccw)
  BY <1>8, <1>9, <1>10, <1>11 DEF Fills
<1>13. Assembly!Closed(Prism(T, next, n)) /\ (Assembly!Oriented(Prism(T, next, n)) <=> ccw)
  BY <1>3, <1>5, <1>12, PrismIsClosed, PrismIsOriented DEF n
<1> QED
  BY <1>4, <1>13

\* A cylinder is the prism of a fan.
LEMMA CylinderIsClosed ==
  ASSUME NEW s \in Nat, s >= 3
  PROVE  /\ Assembly!Closed(Assembly!MeshCylinder(s)) /\ Assembly!Oriented(Assembly!MeshCylinder(s))
         /\ Assembly!MeshCylinder(s) \subseteq Triples(2 * s)
         /\ IsFiniteSet(Assembly!MeshCylinder(s)) /\ \A f \in Assembly!MeshCylinder(s) : HasCorners(f)
<1> DEFINE V == 0..(s - 1)
           next == [v \in V |-> After(v, s)]
           I == 1..(s - 2)
           fan(i) == <<0, i, i + 1>>
           T == {fan(i) : i \in I}
<1>1. \A v \in V : next[v] = (IF v = s - 1 THEN 0 ELSE v + 1) /\ next[v] \in V
  BY DEF After
<1>2. Circuit(next, s)
  <2>1. next \in [V -> V]
    BY <1>1
  <2> HIDE DEF next
  <2>2. \A v, w \in V : next[v] = next[w] => v = w
    BY <1>1
  <2>3. \A v \in V : next[v] # v /\ next[next[v]] # v
    BY <1>1
  <2>4. ASSUME NEW v \in V PROVE \E w \in V : next[w] = v
    <3> DEFINE w == IF v = 0 THEN s - 1 ELSE v - 1
    <3>1. w \in V /\ next[w] = v
      BY <1>1
    <3> QED
      BY <3>1
  <2> QED
    BY <2>1, <2>2, <2>3, <2>4 DEF Circuit
<1> HIDE DEF next
<1>3. \A i \in I : fan(i)[1] = 0 /\ fan(i)[2] = i /\ fan(i)[3] = i + 1 /\ fan(i) \in Triples(s) /\ HasCorners(fan(i))
  BY DEF Triples, HasCorners
<1>4. \A i \in I : \A a, b : Leads(fan(i), a, b) <=> (a = 0 /\ b = i) \/ (a = i /\ b = i + 1) \/ (a = i + 1 /\ b = 0)
  <2> SUFFICES ASSUME NEW i \in I, NEW a, NEW b
               PROVE  Leads(fan(i), a, b) <=> (a = 0 /\ b = i) \/ (a = i /\ b = i + 1) \/ (a = i + 1 /\ b = 0)
    OBVIOUS
  <2> HIDE DEF fan
  <2> QED
    BY <1>3, LeadsIs
<1> HIDE DEF fan
<1>5. OneWay(T)
  <2> SUFFICES ASSUME NEW i \in I, NEW j \in I, NEW a, NEW b, Leads(fan(i), a, b), Leads(fan(j), a, b) PROVE i = j
    BY DEF OneWay
  <2> QED
    BY <1>4
<1>6. ASSUME NEW v \in V PROVE (\E t \in T : Leads(t, v, next[v])) /\ \A t \in T : ~Leads(t, next[v], v)
  <2> DEFINE i == IF v = 0 THEN 1 ELSE IF v = s - 1 THEN s - 2 ELSE v
  <2>1. i \in I /\ Leads(fan(i), v, next[v])
    BY <1>1, <1>4
  <2>2. \A j \in I : ~Leads(fan(j), next[v], v)
    BY <1>1, <1>4
  <2> HIDE DEF i
  <2> QED
    BY <2>1, <2>2
<1>7. ASSUME NEW t \in T, NEW a \in V, NEW b \in V, Leads(t, a, b)
      PROVE  next[a] = b \/ next[b] = a \/ \E u \in T : Leads(u, b, a)
  <2>1. PICK i \in I : t = fan(i)
    OBVIOUS
  <2>2. (a = 0 /\ b = i) \/ (a = i /\ b = i + 1) \/ (a = i + 1 /\ b = 0)
    BY <1>4, <1>7, <2>1
  <2>3. CASE a = 0 /\ b = i /\ i # 1
    <3>1. i - 1 \in I /\ Leads(fan(i - 1), b, a)
      BY <1>4, <2>3
    <3> QED
      BY <3>1
  <2>4. CASE a = i + 1 /\ b = 0 /\ i # s - 2
    <3>1. i + 1 \in I /\ Leads(fan(i + 1), b, a)
      BY <1>4, <2>4
    <3> QED
      BY <3>1
  <2>5. CASE a = 0 /\ b = i /\ i = 1
    BY <1>1, <2>5
  <2>6. CASE a = i + 1 /\ b = 0 /\ i = s - 2
    BY <1>1, <2>6
  <2>7. CASE a = i /\ b = i + 1
    BY <1>1, <2>7
  <2> QED
    BY <2>2, <2>3, <2>4, <2>5, <2>6, <2>7
<1>8. T \in SUBSET Triples(s) /\ \A t \in T : HasCorners(t)
  BY <1>3
<1>9. Fills(T, next, s, TRUE)
  <2> HIDE DEF T
  <2> QED
    BY <1>5, <1>6, <1>7, <1>8 DEF Fills
<1>10. Assembly!MeshCylinder(s) = Prism(T, next, s)
  <2> DEFINE j(i) == (i + 1) % s
             S(i) == {<<i, j(i), s + j(i)>>, <<i, s + j(i), s + i>>}
             L == {<<0, i + 1, i>> : i \in I}
             H == {<<s, s + i, s + i + 1>> : i \in I}
  <2>1. Assembly!MeshCylinder(s) = (UNION {S(i) : i \in V}) \cup L \cup H
    BY DEF Assembly!MeshCylinder
  <2>2. ASSUME NEW i \in V PROVE S(i) = {NearFace(next, s, i), FarFace(next, s, i)}
    <3>1. j(i) = next[i]
      <4>1. (i + 1) % s = After(i, s)
        BY AfterIs
      <4> QED
        BY <1>1, <4>1 DEF After
    <3>2. s + next[i] = next[i] + s /\ s + i = i + s
      BY <1>1
    <3> HIDE DEF j
    <3> QED
      BY <3>1, <3>2 DEF NearFace, FarFace
  <2>3. L = {LowFace(t) : t \in T}
    <3>1. \A i \in I : LowFace(fan(i)) = <<0, i + 1, i>>
      BY <1>3 DEF LowFace
    <3> QED
      BY <3>1
  <2>4. H = {HighFace(t, s) : t \in T}
    <3>1. ASSUME NEW i \in I PROVE HighFace(fan(i), s) = <<s, s + i, s + i + 1>>
      <4>1. 0 + s = s /\ i + s = s + i /\ (i + 1) + s = s + i + 1
        OBVIOUS
      <4> QED
        BY <1>3, <4>1 DEF HighFace
    <3> QED
      BY <3>1
  <2> HIDE DEF S, L, H, T
  <2>5. UNION {S(i) : i \in V} = {NearFace(next, s, v) : v \in V} \cup {FarFace(next, s, v) : v \in V}
    BY <2>2
  <2> DEFINE N == {NearFace(next, s, v) : v \in V}
             M == {FarFace(next, s, v) : v \in V}
             A == {LowFace(t) : t \in T}
             B == {HighFace(t, s) : t \in T}
             U == UNION {S(i) : i \in V}
  <2>6. Assembly!MeshCylinder(s) = U \cup L \cup H
    BY <2>1
  <2>8. L = A /\ H = B
    BY <2>3, <2>4
  <2>9. U = N \cup M
    BY <2>5
  <2>7. Prism(T, next, s) = A \cup B \cup N \cup M
    BY DEF Prism
  <2> HIDE DEF A, B, N, M, U
  <2> QED
    BY <2>6, <2>7, <2>8, <2>9
<1>11. Assembly!Closed(Prism(T, next, s)) /\ Assembly!Oriented(Prism(T, next, s))
  <2> HIDE DEF T
  <2>1. s > 0
    OBVIOUS
  <2> QED
    BY <1>2, <1>9, <2>1, PrismIsClosed, PrismIsOriented
<1>12. Prism(T, next, s) \subseteq Triples(2 * s)
  <2> DEFINE W == 0..(2 * s - 1)
  <2>1. \A v \in V : v \in W /\ v + s \in W
    OBVIOUS
  <2>2. \A t \in T : t[1] \in V /\ t[2] \in V /\ t[3] \in V
    BY <1>8 DEF Triples
  <2> HIDE DEF W, V, T
  <2>3. \A t \in T : LowFace(t) \in W \X W \X W /\ HighFace(t, s) \in W \X W \X W
    BY <2>1, <2>2 DEF LowFace, HighFace
  <2>4. \A v \in V : NearFace(next, s, v) \in W \X W \X W /\ FarFace(next, s, v) \in W \X W \X W
    BY <1>1, <2>1 DEF NearFace, FarFace
  <2>5. \A f \in Prism(T, next, s) : f \in W \X W \X W
    BY <2>3, <2>4 DEF Prism, V
  <2> QED
    BY <2>5 DEF Triples, W
<1>13. IsFiniteSet(Prism(T, next, s)) /\ \A f \in Prism(T, next, s) : HasCorners(f)
  <2> HIDE DEF T
  <2> QED
    BY <1>2, <1>8, PrismHasFaces
<1> QED
  BY <1>10, <1>11, <1>12, <1>13

\* A ribbon has two faces for each piece of its path, and no edge of one is an edge of
\* another the same way.
LEMMA RibbonHasFaces ==
  ASSUME NEW n \in Nat, n >= 1
  PROVE  /\ Assembly!Cardinality(Assembly!MeshRibbonAlongPath(n)) = 2 * (n - 1)
         /\ Assembly!Cardinality(Assembly!Edges(Assembly!MeshRibbonAlongPath(n))) = 6 * (n - 1)
<1> DEFINE m == n - 1
           I == 0..(m - 1)
           F == Assembly!MeshRibbonAlongPath(n)
           x == [i \in I |-> <<i, i + 1, n + i + 1>>]
           y == [i \in I |-> <<i, n + i + 1, n + i>>]
           X == {x[i] : i \in I}
           Y == {y[i] : i \in I}
<1>1. F = X \cup Y
  <2> DEFINE S(i) == {<<i, i + 1, n + i + 1>>, <<i, n + i + 1, n + i>>}
  <2>1. F = UNION {S(i) : i \in 0..(n - 2)}
    BY DEF Assembly!MeshRibbonAlongPath
  <2>2. \A i \in I : x[i] = <<i, i + 1, n + i + 1>> /\ y[i] = <<i, n + i + 1, n + i>>
    OBVIOUS
  <2>3. \A i : i \in 0..(n - 2) <=> i \in I
    OBVIOUS
  <2> HIDE DEF x, y, F, I
  <2>4. \A i \in I : S(i) = {x[i], y[i]}
    BY <2>2
  <2> HIDE DEF S
  <2>5. ASSUME NEW f \in F PROVE f \in X \cup Y
    <3>1. PICK i \in 0..(n - 2) : f \in S(i)
      BY <2>1
    <3> QED
      BY <2>3, <2>4, <3>1
  <2>6. ASSUME NEW i \in I PROVE x[i] \in F /\ y[i] \in F
    BY <2>1, <2>3, <2>4
  <2> QED
    BY <2>5, <2>6
<1>2. \A i \in I : /\ x[i][1] = i /\ x[i][2] = i + 1 /\ x[i][3] = n + i + 1
                   /\ y[i][1] = i /\ y[i][2] = n + i + 1 /\ y[i][3] = n + i
  OBVIOUS
<1>3. x \in [I -> X] /\ y \in [I -> Y]
  OBVIOUS
<1> HIDE DEF x, y, F
<1>4. IsFiniteSet(X) /\ Cardinality(X) = n - 1 /\ IsFiniteSet(Y) /\ Cardinality(Y) = n - 1
  <2>1. m \in Nat
    OBVIOUS
  <2>2. \A i, j \in I : x[i] = x[j] => i = j
    BY <1>2
  <2>5. \A i, j \in I : y[i] = y[j] => i = j
    BY <1>2
  <2>6. x \in [I -> X]
    BY <1>3
  <2>7. y \in [I -> Y]
    BY <1>3
  <2>8. (\A z \in X : \E i \in I : z = x[i]) /\ (\A z \in Y : \E i \in I : z = y[i])
    OBVIOUS
  <2> HIDE DEF m, X, Y
  <2>3. IsFiniteSet(X) /\ Cardinality(X) = m
    BY <2>1, <2>2, <2>6, <2>8, OneEach
  <2>4. IsFiniteSet(Y) /\ Cardinality(Y) = m
    BY <2>1, <2>5, <2>7, <2>8, OneEach
  <2> QED
    BY <2>3, <2>4 DEF m
<1>5. X \cap Y = {}
  <2>1. \A i, j \in I : x[i] # y[j]
    <3> SUFFICES ASSUME NEW i \in I, NEW j \in I, x[i] = y[j] PROVE FALSE
      OBVIOUS
    <3>1. i + 1 = n + j + 1
      BY <1>2
    <3> QED
      BY <3>1
  <2> QED
    BY <2>1
<1>6. IsFiniteSet(F) /\ Cardinality(F) = 2 * (n - 1)
  <2> HIDE DEF X, Y
  <2>1. /\ IsFiniteSet(X \cup Y)
        /\ Cardinality(X \cup Y) = Cardinality(X) + Cardinality(Y) - Cardinality(X \cap Y)
    BY <1>4, FS_Union
  <2>2. Cardinality(X \cap Y) = 0
    BY <1>5, FS_EmptySet
  <2> QED
    BY <1>1, <1>4, <2>1, <2>2
<1>7. \A f \in F : HasCorners(f)
  BY <1>1, <1>2 DEF HasCorners
<1>8. ASSUME NEW i \in I, NEW a, NEW b
      PROVE  /\ Leads(x[i], a, b) <=> (a = i /\ b = i + 1) \/ (a = i + 1 /\ b = n + i + 1) \/ (a = n + i + 1 /\ b = i)
             /\ Leads(y[i], a, b) <=> (a = i /\ b = n + i + 1) \/ (a = n + i + 1 /\ b = n + i) \/ (a = n + i /\ b = i)
  BY <1>2, LeadsIs
<1>9. OneWay(F)
  <2>1. ASSUME NEW i \in I, NEW j \in I, NEW a, NEW b
        PROVE  /\ Leads(x[i], a, b) /\ Leads(x[j], a, b) => i = j
               /\ Leads(y[i], a, b) /\ Leads(y[j], a, b) => i = j
               /\ ~(Leads(x[i], a, b) /\ Leads(y[j], a, b))
    <3>1. n >= 2 /\ i \in Int /\ j \in Int
      OBVIOUS
    <3>2. /\ Leads(x[i], a, b) <=> (a = i /\ b = i + 1) \/ (a = i + 1 /\ b = n + i + 1) \/ (a = n + i + 1 /\ b = i)
          /\ Leads(y[i], a, b) <=> (a = i /\ b = n + i + 1) \/ (a = n + i + 1 /\ b = n + i) \/ (a = n + i /\ b = i)
      BY <1>8
    <3>3. /\ Leads(x[j], a, b) <=> (a = j /\ b = j + 1) \/ (a = j + 1 /\ b = n + j + 1) \/ (a = n + j + 1 /\ b = j)
          /\ Leads(y[j], a, b) <=> (a = j /\ b = n + j + 1) \/ (a = n + j + 1 /\ b = n + j) \/ (a = n + j /\ b = j)
      BY <1>8
    <3> HIDE DEF I
    <3>4. Leads(x[i], a, b) /\ Leads(x[j], a, b) => i = j
      BY <3>1, <3>2, <3>3
    <3>5. Leads(y[i], a, b) /\ Leads(y[j], a, b) => i = j
      BY <3>1, <3>2, <3>3
    <3>6. ~(Leads(x[i], a, b) /\ Leads(y[j], a, b))
      BY <3>1, <3>2, <3>3
    <3> QED
      BY <3>4, <3>5, <3>6
  <2> SUFFICES ASSUME NEW f \in F, NEW g \in F, NEW a, NEW b, Leads(f, a, b), Leads(g, a, b) PROVE f = g
    BY DEF OneWay
  <2>2. PICK i \in I : f = x[i] \/ f = y[i]
    BY <1>1
  <2>3. PICK j \in I : g = x[j] \/ g = y[j]
    BY <1>1
  <2> QED
    BY <2>1, <2>2, <2>3
<1>10. Cardinality(Assembly!Edges(F)) = 3 * (2 * (n - 1))
  BY <1>6, <1>7, <1>9, EdgesCount
<1>11. 3 * (2 * (n - 1)) = 6 * (n - 1)
  OBVIOUS
<1>12. Cardinality(Assembly!Edges(F)) = 6 * (n - 1)
  BY <1>10, <1>11
<1> QED
  BY <1>6, <1>12, OutputsCount DEF F

\* Meshes that share no vertex stay oriented together.
LEMMA TogetherOriented ==
  ASSUME NEW N \in Nat, NEW F \in SUBSET Triples(N), IsFiniteSet(F),
         \A f \in F : HasCorners(f), Assembly!Oriented(F)
  PROVE  Assembly!Oriented(Assembly!CombineMeshes(<<N, N>>, <<F, F>>))
<1> DEFINE A == From(F, 0)
           B == From(F, N)
<1>1. OneWay(F) /\ BothWays(F)
  BY OrientedIs
<1>2. /\ IsFiniteSet(A) /\ (\A f \in A : HasCorners(f)) /\ OneWay(A) /\ BothWays(A)
      /\ \A f \in A : \A a, b : Leads(f, a, b) => a \in 0..(0 + N - 1)
  BY <1>1, FromIs
<1>3. /\ IsFiniteSet(B) /\ (\A f \in B : HasCorners(f)) /\ OneWay(B) /\ BothWays(B)
      /\ \A f \in B : \A a, b : Leads(f, a, b) => a \in N..(N + N - 1)
  BY <1>1, FromIs
<1>4. Assembly!RingStart(<<N, N>>, 1) = 0 /\ Assembly!RingStart(<<N, N>>, 2) = N
  <2>1. <<N, N>> \in Seq(Nat) /\ Len(<<N, N>>) = 2 /\ <<N, N>>[1] = N
    OBVIOUS
  <2>2. PICK at : Sums(at, <<N, N>>) /\ \A r \in 1..(Len(<<N, N>>) + 1) : Assembly!RingStart(<<N, N>>, r) = at[r - 1]
    BY <2>1, RingStartIs
  <2>3. at[0] = 0 /\ \A k \in 1..2 : at[k] = at[k - 1] + <<N, N>>[k]
    BY <2>1, <2>2 DEF Sums
  <2>4. 1 \in 1..2 /\ 1 - 1 = 0 /\ 2 - 1 = 1 /\ 1 \in 1..(2 + 1) /\ 2 \in 1..(2 + 1)
    OBVIOUS
  <2> QED
    BY <2>1, <2>2, <2>3, <2>4
<1>5. Assembly!CombineMeshes(<<N, N>>, <<F, F>>) = A \cup B
  <2> DEFINE M(i) == {[k \in 1..3 |-> f[k] + Assembly!RingStart(<<N, N>>, i)] : f \in <<F, F>>[i]}
             C == Assembly!CombineMeshes(<<N, N>>, <<F, F>>)
  <2>1. C = UNION {M(i) : i \in DOMAIN <<N, N>>}
    BY DEF Assembly!CombineMeshes
  <2>2. DOMAIN <<N, N>> = {1, 2}
    OBVIOUS
  <2>3. <<F, F>>[1] = F /\ <<F, F>>[2] = F
    OBVIOUS
  <2>4. M(1) = A
    BY <1>4, <2>3 DEF From
  <2>5. M(2) = B
    BY <1>4, <2>3 DEF From
  <2> HIDE DEF M, A, B, C
  <2>6. \A x : x \in C <=> x \in M(1) \/ x \in M(2)
    <3> DEFINE D == DOMAIN <<N, N>>
    <3>1. C = UNION {M(i) : i \in D} /\ D = {1, 2}
      BY <2>1, <2>2
    <3> HIDE DEF D
    <3>2. \A x : x \in C <=> \E i \in D : x \in M(i)
      BY <3>1
    <3> QED
      BY <3>1, <3>2
  <2> QED
    BY <2>4, <2>5, <2>6 DEF C
<1> HIDE DEF A, B
<1>6. IsFiniteSet(A \cup B) /\ \A f \in A \cup B : HasCorners(f)
  BY <1>2, <1>3, FS_Union
<1>7. OneWay(A \cup B)
  <2> SUFFICES ASSUME NEW f \in A \cup B, NEW g \in A \cup B, NEW a, NEW b, Leads(f, a, b), Leads(g, a, b) PROVE f = g
    BY DEF OneWay
  <2>1. ~(f \in A /\ g \in B) /\ ~(f \in B /\ g \in A)
    BY <1>2, <1>3
  <2>2. CASE f \in A /\ g \in A
    BY <1>2, <2>2 DEF OneWay
  <2>3. CASE f \in B /\ g \in B
    BY <1>3, <2>3 DEF OneWay
  <2> QED
    BY <2>1, <2>2, <2>3
<1>8. BothWays(A \cup B)
  BY <1>2, <1>3 DEF BothWays
<1>9. Assembly!Oriented(A \cup B)
  <2> DEFINE C == A \cup B
  <2> HIDE DEF C
  <2>1. Assembly!Oriented(C)
    BY <1>6, <1>7, <1>8, OrientedIs DEF C
  <2> QED
    BY <2>1 DEF C
<1> QED
  BY <1>5, <1>9

\* Solids are closed, wires are strips.
LEMMA SolidsAlwaysClosed ==
  ASSUME NEW rings, NEW triangles, NEW ccw \in BOOLEAN, Triangulates(rings, triangles, ccw),
         NEW segments \in Nat, segments >= 3
  PROVE  Assembly!SolidsAreClosed(rings, triangles, ccw, segments)
<1> DEFINE pole == Assembly!MeshCylinder(segments)
           prism == Assembly!ExtrudePolygonMesh(rings, triangles)
<1>1. Assembly!Closed(prism) /\ (ccw => Assembly!Oriented(prism))
  BY ExtrusionIsClosed
<1>2. /\ Assembly!Closed(pole) /\ Assembly!Oriented(pole) /\ pole \subseteq Triples(2 * segments)
      /\ IsFiniteSet(pole) /\ \A f \in pole : HasCorners(f)
  BY CylinderIsClosed
<1>3. /\ Assembly!Cardinality(Assembly!MeshRibbonAlongPath(segments)) = 2 * (segments - 1)
      /\ Assembly!Cardinality(Assembly!Edges(Assembly!MeshRibbonAlongPath(segments))) = 6 * (segments - 1)
  <2>1. segments >= 1
    OBVIOUS
  <2> QED
    BY <2>1, RibbonHasFaces
<1> HIDE DEF pole, prism
<1>4. Assembly!Oriented(Assembly!CombineMeshes(<<2 * segments, 2 * segments>>, <<pole, pole>>))
  <2> DEFINE N == 2 * segments
  <2>1. N \in Nat
    OBVIOUS
  <2>2. pole \in SUBSET Triples(N)
    BY <1>2
  <2> HIDE DEF N
  <2>3. Assembly!Oriented(Assembly!CombineMeshes(<<N, N>>, <<pole, pole>>))
    BY <1>2, <2>1, <2>2, TogetherOriented
  <2> QED
    BY <2>3 DEF N
<1> QED
  BY <1>1, <1>2, <1>3, <1>4 DEF Assembly!SolidsAreClosed, pole, prism
=============================================================================
