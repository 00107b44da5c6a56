-------------------------------- MODULE Sums --------------------------------
(***************************************************************************)
(* Sums of the values of a function over a finite set, as the models take   *)
(* them with SumFunctionOnSet: the sum of the empty set, of a set with one  *)
(* element more, of two functions that agree.  The induction they need is   *)
(* on the finite subsets of a set: a nonempty set of them has a smallest.   *)
(***************************************************************************)
EXTENDS Integers, FiniteSets, Functions, FiniteSetTheorems, TLAPS

(* Among some subsets of a finite set there is one that contains no other. *)
LEMMA SmallestSubset ==
  ASSUME NEW S, IsFiniteSet(S), NEW B \in SUBSET (SUBSET S), B # {}
  PROVE  \E T \in B : \A U \in B : U \subseteq T => U = T
<1>1. IsWellFoundedOn(StrictSubsetOrdering(S), FiniteSubsetsOf(S))
  BY FS_StrictSubsetOrderingWellFounded
<1>2. B \subseteq FiniteSubsetsOf(S)
  BY FS_FiniteSubsetsOfFinite
<1>3. \E T \in B : \A U \in B : <<U, T>> \notin StrictSubsetOrdering(S)
  BY <1>1, <1>2, WFMin
<1> QED
  BY <1>3 DEF StrictSubsetOrdering

(* Induction over the subsets of a finite set, one element more at a time. *)
LEMMA SetInduction ==
  ASSUME NEW S, IsFiniteSet(S), NEW G \in SUBSET (SUBSET S), {} \in G,
         \A T \in G : \A x \in S \ T : T \cup {x} \in G
  PROVE  S \in G
<1> SUFFICES ASSUME S \notin G PROVE FALSE
  OBVIOUS
<1> DEFINE B == (SUBSET S) \ G
<1>1. PICK T \in B : \A U \in B : U \subseteq T => U = T
  <2>1. B \in SUBSET (SUBSET S) /\ B # {}
    OBVIOUS
  <2> HIDE DEF B
  <2> QED
    BY <2>1, SmallestSubset
<1>2. PICK x : x \in T
  BY <1>1
<1>3. T \ {x} \in G
  BY <1>1, <1>2
<1>4. T = (T \ {x}) \cup {x} /\ x \in S \ (T \ {x})
  BY <1>1, <1>2
<1>5. (T \ {x}) \cup {x} \in G
  BY <1>3, <1>4
<1> QED
  BY <1>1, <1>4, <1>5

(***************************************************************************)
(* Recursion over the subsets of a finite set, as the folds of the models   *)
(* define it: one[s] is the element that s handles last.  The function that *)
(* is so defined exists; the proof builds it for the subsets of up to n      *)
(* elements.                                                                *)
(***************************************************************************)
Folds(g, step, one, base, S) ==
    g = [s \in SUBSET S |-> IF s = {} THEN base ELSE step[<<one[s], g[s \ {one[s]}]>>]]

Small(S, n) == {s \in SUBSET S : Cardinality(s) <= n}
FoldsSmall(g, step, one, base, S, n) ==
    g = [s \in Small(S, n) |-> IF s = {} THEN base ELSE step[<<one[s], g[s \ {one[s]}]>>]]

LEMMA FoldGrows ==
  ASSUME NEW S, IsFiniteSet(S), NEW step, NEW one, NEW base, NEW n \in Nat, NEW g,
         \A s \in SUBSET S : s # {} => one[s] \in s, FoldsSmall(g, step, one, base, S, n)
  PROVE  \E h : FoldsSmall(h, step, one, base, S, n + 1)
<1> DEFINE h == [s \in Small(S, n + 1) |->
                   IF s = {} THEN base ELSE step[<<one[s], g[s \ {one[s]}]>>]]
<1>1. \A s \in SUBSET S : IsFiniteSet(s) /\ Cardinality(s) \in Nat
  BY FS_Subset, FS_CardinalityType
<1>2. Small(S, n) \subseteq Small(S, n + 1)
  BY <1>1 DEF Small
<1>3. \A s \in Small(S, n) : h[s] = g[s]
  BY <1>2 DEF FoldsSmall
<1>4. \A s \in Small(S, n + 1) : s # {} => s \ {one[s]} \in Small(S, n)
  BY <1>1, FS_RemoveElement DEF Small
<1>5. \A s \in Small(S, n + 1) : s # {} => h[s \ {one[s]}] = g[s \ {one[s]}]
  BY <1>3, <1>4
<1>6. h = [s \in Small(S, n + 1) |->
             IF s = {} THEN base ELSE step[<<one[s], h[s \ {one[s]}]>>]]
  BY <1>5
<1> HIDE DEF h
<1> QED
  BY <1>6 DEF FoldsSmall

LEMMA FoldExists ==
  ASSUME NEW S, IsFiniteSet(S), NEW step, NEW one, NEW base,
         \A s \in SUBSET S : s # {} => one[s] \in s
  PROVE  \E g : Folds(g, step, one, base, S)
<1> DEFINE G == {T \in SUBSET S : \E g : FoldsSmall(g, step, one, base, S, Cardinality(T))}
<1>1. {} \in G
  <2>1. FoldsSmall([s \in Small(S, 0) |-> base], step, one, base, S, 0)
    <3>1. \A s \in Small(S, 0) : s = {}
      BY FS_EmptySet, FS_Subset, FS_CardinalityType DEF Small
    <3> QED
      BY <3>1 DEF FoldsSmall
  <2> QED
    BY <2>1, FS_EmptySet
<1>2. ASSUME NEW T \in G, NEW x \in S \ T PROVE T \cup {x} \in G
  <2>1. IsFiniteSet(T) /\ Cardinality(T) \in Nat /\ Cardinality(T \cup {x}) = Cardinality(T) + 1
    BY <1>2, FS_Subset, FS_CardinalityType, FS_AddElement
  <2>2. \E h : FoldsSmall(h, step, one, base, S, Cardinality(T) + 1)
    BY <1>2, <2>1, FoldGrows
  <2> QED
    BY <1>2, <2>1, <2>2
<1>3. S \in G
  <2> HIDE DEF G
  <2> QED
    BY <1>1, <1>2, SetInduction DEF G
<1>4. Small(S, Cardinality(S)) = SUBSET S
  BY FS_Subset DEF Small
<1> QED
  BY <1>3, <1>4 DEF FoldsSmall, Folds

(***************************************************************************)
(* Sums.                                                                    *)
(***************************************************************************)
\* What SumFunctionOnSet defines: a sum for every subset, one chosen element at a time.
One(s) == CHOOSE x \in s : TRUE
Adds(g, f, S) == g = [s \in SUBSET S |-> IF s = {} THEN 0 ELSE f[One(s)] + g[s \ {One(s)}]]
Ints(f, S) == \A x \in S : f[x] \in Int

LEMMA OneInside == ASSUME NEW s, s # {} PROVE One(s) \in s
BY DEF One

LEMMA SumIs ==
  ASSUME NEW f, NEW S
  PROVE  SumFunctionOnSet(f, S) = (CHOOSE g : Adds(g, f, S))[S]
BY DEF SumFunctionOnSet, FoldFunctionOnSet, MapThenFoldSet, Adds, One

LEMMA AddsExists ==
  ASSUME NEW S, IsFiniteSet(S), NEW f, Ints(f, S)
  PROVE  \E g : Adds(g, f, S)
<1> DEFINE step == [p \in S \X Int |-> f[p[1]] + p[2]]
           one == [s \in SUBSET S |-> One(s)]
<1>1. \A s \in SUBSET S : s # {} => one[s] \in s
  BY OneInside
<1>2. PICK g : Folds(g, step, one, 0, S)
  <2> HIDE DEF one, step
  <2> QED
    BY <1>1, FoldExists
<1> DEFINE B == {s \in SUBSET S : g[s] \notin Int}
<1>3. \A s \in SUBSET S : g[s] = IF s = {} THEN 0 ELSE step[<<One(s), g[s \ {One(s)}]>>]
  <2> HIDE DEF step
  <2> QED
    BY <1>2 DEF Folds
<1>4. ASSUME NEW s \in SUBSET S, s # {}, g[s \ {One(s)}] \in Int
      PROVE  g[s] = f[One(s)] + g[s \ {One(s)}] /\ g[s] \in Int
  <2>1. One(s) \in S /\ f[One(s)] \in Int
    BY <1>4, OneInside DEF Ints
  <2>2. g[s] = step[<<One(s), g[s \ {One(s)}]>>]
    BY <1>3, <1>4
  <2>3. step[<<One(s), g[s \ {One(s)}]>>] = f[One(s)] + g[s \ {One(s)}]
    BY <1>4, <2>1
  <2> HIDE DEF step
  <2> QED
    BY <1>4, <2>1, <2>2, <2>3
<1>5. B = {}
  <2> SUFFICES ASSUME B # {} PROVE FALSE
    OBVIOUS
  <2>1. PICK s \in B : \A u \in B : u \subseteq s => u = s
    <3>1. B \in SUBSET (SUBSET S)
      OBVIOUS
    <3> HIDE DEF B
    <3> QED
      BY <3>1, SmallestSubset
  <2>2. s # {} /\ s \in SUBSET S
    <3>1. g[{}] \in Int
      <4>1. g[{}] = 0
        BY <1>3
      <4> QED
        BY <4>1
    <3>2. s \in SUBSET S /\ g[s] \notin Int
      BY <2>1
    <3> QED
      BY <3>1, <3>2
  <2>3. g[s \ {One(s)}] \in Int
    BY <2>1, <2>2, OneInside
  <2> QED
    BY <1>4, <2>1, <2>2, <2>3
<1>6. \A s \in SUBSET S : s # {} => g[s] = f[One(s)] + g[s \ {One(s)}]
  BY <1>4, <1>5
<1>7. g = [s \in SUBSET S |-> g[s]] /\ g[{}] = 0
  <2> HIDE DEF step, one
  <2> QED
    BY <1>2, <1>3 DEF Folds
<1> HIDE DEF step, one, B
<1> QED
  BY <1>6, <1>7 DEF Adds

LEMMA AddsHolds ==
  ASSUME NEW S, IsFiniteSet(S), NEW f, Ints(f, S)
  PROVE  \E g : Adds(g, f, S) /\ SumFunctionOnSet(f, S) = g[S]
BY AddsExists, SumIs

\* The functions of two finite sets agree on their common subsets.
LEMMA AddsAgree ==
  ASSUME NEW S, IsFiniteSet(S), NEW T \in SUBSET S, NEW f, NEW g, NEW h,
         Adds(g, f, S), Adds(h, f, T)
  PROVE  \A s \in SUBSET T : g[s] = h[s]
<1> DEFINE B == {s \in SUBSET T : g[s] # h[s]}
<1> SUFFICES ASSUME B # {} PROVE FALSE
  OBVIOUS
<1>1. IsFiniteSet(T)
  BY FS_Subset
<1>2. PICK s \in B : \A u \in B : u \subseteq s => u = s
  <2>1. B \in SUBSET (SUBSET T)
    OBVIOUS
  <2> HIDE DEF B
  <2> QED
    BY <1>1, <2>1, SmallestSubset
<1>3. s # {}
  BY <1>2 DEF Adds
<1>4. One(s) \in s /\ g[s \ {One(s)}] = h[s \ {One(s)}]
  BY <1>2, <1>3, OneInside
<1>5. g[s] = f[One(s)] + g[s \ {One(s)}] /\ h[s] = f[One(s)] + h[s \ {One(s)}]
  BY <1>2, <1>3 DEF Adds
<1> QED
  BY <1>2, <1>4, <1>5

(* The sum of nothing is zero. *)
LEMMA SumEmpty == ASSUME NEW f PROVE SumFunctionOnSet(f, {}) = 0
<1>1. PICK g : Adds(g, f, {}) /\ SumFunctionOnSet(f, {}) = g[{}]
  BY FS_EmptySet, AddsHolds DEF Ints
<1> QED
  BY <1>1 DEF Adds

LEMMA SumTakesOne ==
  ASSUME NEW S, IsFiniteSet(S), S # {}, NEW f, Ints(f, S)
  PROVE  SumFunctionOnSet(f, S) = f[One(S)] + SumFunctionOnSet(f, S \ {One(S)})
<1> DEFINE T == S \ {One(S)}
<1>1. PICK g : Adds(g, f, S) /\ SumFunctionOnSet(f, S) = g[S]
  BY AddsHolds
<1>2. IsFiniteSet(T) /\ T \in SUBSET S /\ Ints(f, T)
  BY FS_RemoveElement DEF Ints
<1>3. PICK h : Adds(h, f, T) /\ SumFunctionOnSet(f, T) = h[T]
  BY <1>2, AddsHolds
<1>4. g[S] = f[One(S)] + g[T]
  BY <1>1 DEF Adds
<1>5. g[T] = h[T]
  BY <1>1, <1>2, <1>3, AddsAgree
<1> QED
  BY <1>1, <1>3, <1>4, <1>5

(* A sum of integers is one, ... *)
LEMMA SumType ==
  ASSUME NEW S, IsFiniteSet(S), NEW f, Ints(f, S)
  PROVE  SumFunctionOnSet(f, S) \in Int
<1> DEFINE B == {s \in SUBSET S : SumFunctionOnSet(f, s) \notin Int}
<1> SUFFICES ASSUME B # {} PROVE FALSE
  OBVIOUS
<1>2. PICK s \in B : \A u \in B : u \subseteq s => u = s
  <2>1. B \in SUBSET (SUBSET S)
    OBVIOUS
  <2> HIDE DEF B
  <2> QED
    BY <2>1, SmallestSubset
<1>3. s # {} /\ IsFiniteSet(s)
  <2>1. SumFunctionOnSet(f, {}) \in Int
    BY SumEmpty
  <2>2. SumFunctionOnSet(f, s) \notin Int
    BY <1>2
  <2>3. IsFiniteSet(s)
    BY <1>2, FS_Subset
  <2> QED
    BY <2>1, <2>2, <2>3
<1>4. One(s) \in s
  BY <1>3, OneInside
<1>5. SumFunctionOnSet(f, s \ {One(s)}) \in Int
  BY <1>2, <1>4
<1> QED
  <2>1. SumFunctionOnSet(f, s) = f[One(s)] + SumFunctionOnSet(f, s \ {One(s)})
    <3>1. Ints(f, s)
      BY <1>2 DEF Ints
    <3> QED
      BY <1>3, <3>1, SumTakesOne
  <2>2. f[One(s)] \in Int
    <3>1. One(s) \in S
      BY <1>2, <1>4
    <3> QED
      BY <3>1 DEF Ints
  <2>3. SumFunctionOnSet(f, s) \in Int
    BY <1>5, <2>1, <2>2
  <2> QED
    BY <1>2, <2>3

(* ... which takes any of the elements apart, ... *)
LEMMA SumRemove ==
  ASSUME NEW S, IsFiniteSet(S), NEW f, Ints(f, S), NEW y \in S
  PROVE  SumFunctionOnSet(f, S) = f[y] + SumFunctionOnSet(f, S \ {y})
<1> DEFINE Sum(s) == SumFunctionOnSet(f, s)
           B == {s \in SUBSET S : \E x \in s : Sum(s) # f[x] + Sum(s \ {x})}
<1> SUFFICES ASSUME B # {} PROVE FALSE
  OBVIOUS
<1>0. \A s \in SUBSET S : Ints(f, s)
  BY DEF Ints
<1>1. \A s \in SUBSET S : IsFiniteSet(s) /\ Sum(s) \in Int
  BY <1>0, FS_Subset, SumType
<1>2. PICK s \in B : \A u \in B : u \subseteq s => u = s
  <2>1. B \in SUBSET (SUBSET S)
    OBVIOUS
  <2> HIDE DEF B
  <2> QED
    BY <2>1, SmallestSubset
<1>3. PICK x \in s : Sum(s) # f[x] + Sum(s \ {x})
  BY <1>2
<1> DEFINE o == One(s)
<1>4. o \in s /\ Sum(s) = f[o] + Sum(s \ {o})
  <2>1. s # {} /\ IsFiniteSet(s) /\ Ints(f, s)
    BY <1>0, <1>1, <1>2, <1>3
  <2> QED
    BY <2>1, OneInside, SumTakesOne
<1>5. o # x
  BY <1>3, <1>4
<1>6. s \ {o} \notin B /\ s \ {x} \notin B /\ s \ {o} \in SUBSET S /\ s \ {x} \in SUBSET S
  BY <1>2, <1>3, <1>4
<1>7. Sum(s \ {o}) = f[x] + Sum((s \ {o}) \ {x})
  BY <1>3, <1>5, <1>6
<1>8. Sum(s \ {x}) = f[o] + Sum((s \ {x}) \ {o})
  BY <1>4, <1>5, <1>6
<1>9. (s \ {o}) \ {x} = (s \ {x}) \ {o}
  OBVIOUS
<1>10. f[o] \in Int /\ f[x] \in Int /\ Sum((s \ {x}) \ {o}) \in Int
  <2>1. o \in S /\ x \in S /\ (s \ {x}) \ {o} \in SUBSET S
    BY <1>2, <1>3, <1>4
  <2> QED
    BY <1>1, <2>1 DEF Ints
<1>11. \A a, b, c \in Int : a + (b + c) = b + (a + c)
  OBVIOUS
<1>12. f[o] + (f[x] + Sum((s \ {x}) \ {o})) = f[x] + (f[o] + Sum((s \ {x}) \ {o}))
  BY <1>10, <1>11
<1> HIDE DEF Sum, o
<1> QED
  BY <1>3, <1>4, <1>7, <1>8, <1>9, <1>12

(* ... and grows by the value of one more. *)
LEMMA SumAdd ==
  ASSUME NEW S, IsFiniteSet(S), NEW f, NEW y, y \notin S, Ints(f, S \cup {y})
  PROVE  SumFunctionOnSet(f, S \cup {y}) = f[y] + SumFunctionOnSet(f, S)
<1>1. IsFiniteSet(S \cup {y}) /\ (S \cup {y}) \ {y} = S
  BY FS_AddElement
<1> QED
  BY <1>1, SumRemove

(* A sum of naturals is one. *)
LEMMA SumNat ==
  ASSUME NEW S, IsFiniteSet(S), NEW f, \A x \in S : f[x] \in Nat
  PROVE  SumFunctionOnSet(f, S) \in Nat
<1> DEFINE G == {T \in SUBSET S : SumFunctionOnSet(f, T) \in Nat}
<1>1. {} \in G
  <2>1. SumFunctionOnSet(f, {}) \in Nat
    BY SumEmpty
  <2> QED
    BY <2>1
<1>2. ASSUME NEW T \in G, NEW x \in S \ T PROVE T \cup {x} \in G
  <2>1. IsFiniteSet(T) /\ Ints(f, T \cup {x}) /\ f[x] \in Nat /\ SumFunctionOnSet(f, T) \in Nat
    BY <1>2, FS_Subset DEF Ints
  <2>2. SumFunctionOnSet(f, T \cup {x}) = f[x] + SumFunctionOnSet(f, T)
    BY <1>2, <2>1, SumAdd
  <2>3. SumFunctionOnSet(f, T \cup {x}) \in Nat
    BY <2>1, <2>2
  <2> QED
    BY <1>2, <2>3
<1>3. S \in G
  <2> HIDE DEF G
  <2> QED
    BY <1>1, <1>2, SetInduction DEF G
<1> QED
  BY <1>3

(* Functions that agree on a set have the same sum over it. *)
LEMMA SumSame ==
  ASSUME NEW S, IsFiniteSet(S), NEW f, NEW g, Ints(f, S), \A x \in S : f[x] = g[x]
  PROVE  SumFunctionOnSet(f, S) = SumFunctionOnSet(g, S)
<1> DEFINE G == {T \in SUBSET S : SumFunctionOnSet(f, T) = SumFunctionOnSet(g, T)}
<1>1. {} \in G
  BY SumEmpty
<1>2. ASSUME NEW T \in G, NEW x \in S \ T PROVE T \cup {x} \in G
  <2>1. IsFiniteSet(T) /\ Ints(f, T \cup {x}) /\ Ints(g, T \cup {x})
    BY <1>2, FS_Subset DEF Ints
  <2>2. /\ SumFunctionOnSet(f, T \cup {x}) = f[x] + SumFunctionOnSet(f, T)
        /\ SumFunctionOnSet(g, T \cup {x}) = g[x] + SumFunctionOnSet(g, T)
    BY <1>2, <2>1, SumAdd
  <2>3. SumFunctionOnSet(f, T \cup {x}) = SumFunctionOnSet(g, T \cup {x})
    BY <1>2, <2>2
  <2> QED
    BY <1>2, <2>3
<1>3. S \in G
  <2> HIDE DEF G
  <2> QED
    BY <1>1, <1>2, SetInduction DEF G
<1> QED
  BY <1>3

(* Sums of two functions are ordered as the functions are. *)
LEMMA SumAtMost ==
  ASSUME NEW S, IsFiniteSet(S), NEW f, NEW g, Ints(f, S), Ints(g, S), \A x \in S : f[x] <= g[x]
  PROVE  SumFunctionOnSet(f, S) <= SumFunctionOnSet(g, S)
<1> DEFINE G == {T \in SUBSET S : SumFunctionOnSet(f, T) <= SumFunctionOnSet(g, T)}
<1>1. {} \in G
  BY SumEmpty
<1>2. ASSUME NEW T \in G, NEW x \in S \ T PROVE T \cup {x} \in G
  <2>1. T \in SUBSET S /\ IsFiniteSet(T) /\ SumFunctionOnSet(f, T) <= SumFunctionOnSet(g, T)
    BY FS_Subset
  <2>2. Ints(f, T \cup {x}) /\ Ints(g, T \cup {x}) /\ Ints(f, T) /\ Ints(g, T)
    BY <2>1 DEF Ints
  <2>3. /\ SumFunctionOnSet(f, T \cup {x}) = f[x] + SumFunctionOnSet(f, T)
        /\ SumFunctionOnSet(g, T \cup {x}) = g[x] + SumFunctionOnSet(g, T)
    BY <2>1, <2>2, SumAdd
  <2>4. SumFunctionOnSet(f, T) \in Int /\ SumFunctionOnSet(g, T) \in Int
    BY <2>1, <2>2, SumType
  <2>5. f[x] \in Int /\ g[x] \in Int /\ f[x] <= g[x]
    BY DEF Ints
  <2>6. SumFunctionOnSet(f, T \cup {x}) <= SumFunctionOnSet(g, T \cup {x})
    BY <2>1, <2>3, <2>4, <2>5
  <2> QED BY <2>1, <2>6
<1>3. G \in SUBSET (SUBSET S)
  OBVIOUS
<1> HIDE DEF G
<1>4. S \in G
  BY <1>1, <1>2, <1>3, SetInduction
<1> QED BY <1>4 DEF G

(* Elements whose value is zero do not count. *)
LEMMA SumZeros ==
  ASSUME NEW S, IsFiniteSet(S), NEW f, Ints(f, S), NEW R \in SUBSET S,
         \A x \in S \ R : f[x] = 0
  PROVE  SumFunctionOnSet(f, S) = SumFunctionOnSet(f, R)
<1> DEFINE G == {T \in SUBSET S : SumFunctionOnSet(f, T) = SumFunctionOnSet(f, T \cap R)}
<1>1. {} \in G
  <2>1. {} \cap R = {}
    OBVIOUS
  <2> QED
    BY <2>1
<1>2. ASSUME NEW T \in G, NEW x \in S \ T PROVE T \cup {x} \in G
  <2>1. /\ IsFiniteSet(T) /\ IsFiniteSet(T \cap R)
        /\ Ints(f, T \cup {x}) /\ Ints(f, (T \cap R) \cup {x}) /\ Ints(f, T)
    BY <1>2, FS_Subset DEF Ints
  <2>2. SumFunctionOnSet(f, T \cup {x}) = f[x] + SumFunctionOnSet(f, T)
    BY <1>2, <2>1, SumAdd
  <2>3. SumFunctionOnSet(f, T) \in Int
    BY <2>1, SumType
  <2>4. SumFunctionOnSet(f, T) = SumFunctionOnSet(f, T \cap R)
    BY <1>2
  <2>5. CASE x \in R
    <3>1. (T \cup {x}) \cap R = (T \cap R) \cup {x}
      BY <2>5
    <3>2. SumFunctionOnSet(f, (T \cap R) \cup {x}) = f[x] + SumFunctionOnSet(f, T \cap R)
      BY <1>2, <2>1, SumAdd
    <3>3. SumFunctionOnSet(f, T \cup {x}) = SumFunctionOnSet(f, (T \cup {x}) \cap R)
      BY <2>2, <2>4, <3>1, <3>2
    <3> QED
      BY <1>2, <3>3
  <2>6. CASE x \notin R
    <3>1. (T \cup {x}) \cap R = T \cap R /\ f[x] = 0
      BY <1>2, <2>6
    <3>2. SumFunctionOnSet(f, T \cup {x}) = SumFunctionOnSet(f, (T \cup {x}) \cap R)
      BY <2>2, <2>3, <2>4, <3>1
    <3> QED
      BY <1>2, <3>2
  <2> QED
    BY <2>5, <2>6
<1>3. S \in G
  <2> HIDE DEF G
  <2> QED
    BY <1>1, <1>2, SetInduction DEF G
<1>4. S \cap R = R
  OBVIOUS
<1> QED
  BY <1>3, <1>4

(* The sum of two disjoint sets is the sum of their sums. *)
LEMMA SumUnion ==
  ASSUME NEW S, IsFiniteSet(S), NEW R, IsFiniteSet(R), S \cap R = {}, NEW f, Ints(f, S \cup R)
  PROVE  SumFunctionOnSet(f, S \cup R) = SumFunctionOnSet(f, S) + SumFunctionOnSet(f, R)
<1> DEFINE G == {T \in SUBSET R : SumFunctionOnSet(f, S \cup T)
                                     = SumFunctionOnSet(f, S) + SumFunctionOnSet(f, T)}
<1>0. SumFunctionOnSet(f, S) \in Int
  BY SumType DEF Ints
<1>1. {} \in G
  <2>1. S \cup {} = S
    OBVIOUS
  <2>2. SumFunctionOnSet(f, S \cup {}) = SumFunctionOnSet(f, S) + SumFunctionOnSet(f, {})
    BY <1>0, <2>1, SumEmpty
  <2> QED
    BY <2>2
<1>2. ASSUME NEW T \in G, NEW x \in R \ T PROVE T \cup {x} \in G
  <2>1. /\ IsFiniteSet(T) /\ IsFiniteSet(S \cup T) /\ x \notin S \cup T /\ x \notin T
        /\ Ints(f, T \cup {x}) /\ Ints(f, (S \cup T) \cup {x}) /\ Ints(f, T)
        /\ f[x] \in Int
    BY <1>2, FS_Subset, FS_Union DEF Ints
  <2>2. /\ SumFunctionOnSet(f, T \cup {x}) = f[x] + SumFunctionOnSet(f, T)
        /\ SumFunctionOnSet(f, (S \cup T) \cup {x}) = f[x] + SumFunctionOnSet(f, S \cup T)
    BY <2>1, SumAdd
  <2>3. SumFunctionOnSet(f, T) \in Int
    BY <2>1, SumType
  <2>4. SumFunctionOnSet(f, S \cup T) = SumFunctionOnSet(f, S) + SumFunctionOnSet(f, T)
    BY <1>2
  <2>5. (S \cup T) \cup {x} = S \cup (T \cup {x})
    OBVIOUS
  <2>6. \A a, b, c \in Int : a + (b + c) = b + (a + c)
    OBVIOUS
  <2>7. f[x] + (SumFunctionOnSet(f, S) + SumFunctionOnSet(f, T))
          = SumFunctionOnSet(f, S) + (f[x] + SumFunctionOnSet(f, T))
    BY <1>0, <2>1, <2>3, <2>6
  <2>8. SumFunctionOnSet(f, S \cup (T \cup {x}))
          = SumFunctionOnSet(f, S) + SumFunctionOnSet(f, T \cup {x})
    BY <2>2, <2>4, <2>5, <2>7
  <2> QED
    BY <1>2, <2>8
<1>3. R \in G
  <2> HIDE DEF G
  <2> QED
    BY <1>1, <1>2, SetInduction DEF G
<1> QED
  BY <1>3

(* A sum may be taken over the images of its elements. *)
LEMMA SumImage ==
  ASSUME NEW S, IsFiniteSet(S), NEW h, NEW f, NEW g,
         \A x \in S : f[h[x]] = g[x] /\ g[x] \in Int,
         \A x, y \in S : h[x] = h[y] => x = y
  PROVE  /\ IsFiniteSet({h[x] : x \in S})
         /\ SumFunctionOnSet(f, {h[x] : x \in S}) = SumFunctionOnSet(g, S)
<1> DEFINE Im(T) == {h[x] : x \in T}
           G == {T \in SUBSET S : /\ IsFiniteSet(Im(T))
                                  /\ SumFunctionOnSet(f, Im(T)) = SumFunctionOnSet(g, T)}
<1>1. {} \in G
  <2>1. Im({}) = {}
    OBVIOUS
  <2> QED
    BY <2>1, SumEmpty, FS_EmptySet
<1>2. ASSUME NEW T \in G, NEW x \in S \ T PROVE T \cup {x} \in G
  <2>1. /\ IsFiniteSet(T) /\ IsFiniteSet(Im(T)) /\ h[x] \notin Im(T)
        /\ Ints(g, T \cup {x}) /\ Ints(f, Im(T) \cup {h[x]})
    BY <1>2, FS_Subset DEF Ints
  <2>2. /\ SumFunctionOnSet(g, T \cup {x}) = g[x] + SumFunctionOnSet(g, T)
        /\ SumFunctionOnSet(f, Im(T) \cup {h[x]}) = f[h[x]] + SumFunctionOnSet(f, Im(T))
    BY <1>2, <2>1, SumAdd
  <2>3. Im(T \cup {x}) = Im(T) \cup {h[x]}
    OBVIOUS
  <2>4. IsFiniteSet(Im(T \cup {x}))
    <3>1. IsFiniteSet(Im(T) \cup {h[x]})
      <4> DEFINE I == Im(T)
      <4>1. IsFiniteSet(I)
        BY <2>1
      <4> HIDE DEF I
      <4> QED
        BY <4>1, FS_AddElement
    <3> QED
      BY <2>3, <3>1
  <2>5. SumFunctionOnSet(f, Im(T \cup {x})) = SumFunctionOnSet(g, T \cup {x})
    <3> HIDE DEF Im
    <3> QED
      BY <1>2, <2>2, <2>3
  <2> HIDE DEF Im
  <2> QED
    BY <1>2, <2>4, <2>5
<1>3. S \in G
  <2> HIDE DEF G
  <2> QED
    BY <1>1, <1>2, SetInduction DEF G
<1> QED
  BY <1>3

(* The sum of the negated values is the negated sum. *)
LEMMA SumNegated ==
  ASSUME NEW S, IsFiniteSet(S), NEW f, NEW g, Ints(f, S), \A x \in S : g[x] = -f[x]
  PROVE  SumFunctionOnSet(g, S) = -SumFunctionOnSet(f, S)
<1> DEFINE G == {T \in SUBSET S : SumFunctionOnSet(g, T) = -SumFunctionOnSet(f, T)}
<1>1. {} \in G
  <2>1. SumFunctionOnSet(g, {}) = -SumFunctionOnSet(f, {})
    BY SumEmpty
  <2> QED
    BY <2>1
<1>2. ASSUME NEW T \in G, NEW x \in S \ T PROVE T \cup {x} \in G
  <2>1. /\ IsFiniteSet(T) /\ Ints(f, T) /\ Ints(f, T \cup {x}) /\ Ints(g, T \cup {x})
        /\ f[x] \in Int /\ g[x] = -f[x]
    BY <1>2, FS_Subset DEF Ints
  <2>2. /\ SumFunctionOnSet(f, T \cup {x}) = f[x] + SumFunctionOnSet(f, T)
        /\ SumFunctionOnSet(g, T \cup {x}) = g[x] + SumFunctionOnSet(g, T)
    BY <1>2, <2>1, SumAdd
  <2>3. SumFunctionOnSet(f, T) \in Int /\ SumFunctionOnSet(g, T) = -SumFunctionOnSet(f, T)
    BY <1>2, <2>1, SumType
  <2>4. SumFunctionOnSet(g, T \cup {x}) = -SumFunctionOnSet(f, T \cup {x})
    BY <2>1, <2>2, <2>3
  <2> QED
    BY <1>2, <2>4
<1>3. S \in G
  <2> HIDE DEF G
  <2> QED
    BY <1>1, <1>2, SetInduction DEF G
<1> QED
  BY <1>3
=============================================================================
