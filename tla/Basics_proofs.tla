----------------------------- MODULE Basics_proofs -----------------------------
(***************************************************************************)
(* What the proofs about several components need of the operators the      *)
(* models are built from: induction over the naturals in a form that needs *)
(* no operator as a parameter, what the folds of the community modules     *)
(* compute for every list (sums, concatenations, Only), and the address    *)
(* arithmetic of the paged cache.                                          *)
(***************************************************************************)
EXTENDS Paging, Queues, SequenceTheorems, FiniteSetTheorems, WellFoundedInduction, TLAPS

-----------------------------------------------------------------------------
(* Sums. *)

\* The fold that SumFunction runs over the subsets of S.
Picked(s) == CHOOSE y \in s : TRUE

IsFold(f, S, g) ==
    g = [s \in SUBSET S |-> IF s = {} THEN 0 ELSE f[Picked(s)] + g[s \ {Picked(s)}]]

AnyOrder(f, S, g) == \A s \in SUBSET S : \A x \in s : g[s] = f[x] + g[s \ {x}]

\* Induction over the naturals, for a set.
LEMMA SetInduction ==
    ASSUME NEW K, K \subseteq Nat, 0 \in K, \A k \in K : k + 1 \in K
    PROVE  \A k \in Nat : k \in K
<1> SUFFICES ASSUME Nat \ K # {} PROVE FALSE
  OBVIOUS
<1>1. PICK m \in Nat \ K : \A y \in Nat \ K : ~(<<y, m>> \in OpToRel(<, Nat))
  BY NatLessThanWellFounded, WFMin
<1>2. m - 1 \in Nat /\ (m - 1) + 1 = m /\ m - 1 < m
  <2>1. m \in Nat /\ m # 0
    BY <1>1
  <2> QED
    BY <2>1
<1>3. m - 1 \notin Nat \ K
  BY <1>1, <1>2 DEF OpToRel
<1> QED
  BY <1>1, <1>2, <1>3

\* Taking an element out of a finite set.
LEMMA RemovedCardinality ==
    ASSUME NEW S, IsFiniteSet(S), NEW s \in SUBSET S, NEW x \in s
    PROVE  /\ Cardinality(s) \in Nat /\ Cardinality(s \ {x}) \in Nat
           /\ Cardinality(s) = Cardinality(s \ {x}) + 1
<1>1. IsFiniteSet(s)
  BY FS_Subset
<1>2. IsFiniteSet(s \ {x}) /\ Cardinality(s \ {x}) = Cardinality(s) - 1
  BY <1>1, FS_RemoveElement
<1>3. Cardinality(s) \in Nat /\ Cardinality(s \ {x}) \in Nat
  BY <1>1, <1>2, FS_CardinalityType
<1> QED
  BY <1>2, <1>3

\* A set without elements, by its cardinality.
LEMMA NoElements ==
    ASSUME NEW S, IsFiniteSet(S), NEW s \in SUBSET S
    PROVE  Cardinality(s) \in Nat /\ (Cardinality(s) = 0 <=> s = {})
BY FS_Subset, FS_CardinalityType, FS_EmptySet

\* The fold is well defined over a finite set.
LEMMA FoldExists ==
    ASSUME NEW S, IsFiniteSet(S), NEW f \in [S -> Nat]
    PROVE  \E g \in [SUBSET S -> Nat] : IsFold(f, S, g)
<1> DEFINE Upto(k, g) == \A s \in SUBSET S : Cardinality(s) <= k =>
                            g[s] = IF s = {} THEN 0 ELSE f[Picked(s)] + g[s \ {Picked(s)}]
           K == {k \in Nat : \E g \in [SUBSET S -> Nat] : Upto(k, g)}
<1>0. \A s \in SUBSET S : s # {} => Picked(s) \in s /\ f[Picked(s)] \in Nat
  BY DEF Picked
<1>1. 0 \in K
  <2>1. PICK g \in [SUBSET S -> Nat] : g = [s \in SUBSET S |-> 0]
    OBVIOUS
  <2>2. \A s \in SUBSET S : Cardinality(s) <= 0 => s = {}
    BY NoElements
  <2> QED
    BY <2>1, <2>2
<1>2. ASSUME NEW k \in K PROVE k + 1 \in K
  <2>1. PICK g \in [SUBSET S -> Nat] : Upto(k, g)
    OBVIOUS
  <2>2. PICK h \in [SUBSET S -> Nat] :
           h = [s \in SUBSET S |-> IF Cardinality(s) <= k THEN g[s]
                                   ELSE f[Picked(s)] + g[s \ {Picked(s)}]]
    <3>1. \A s \in SUBSET S : ~(Cardinality(s) <= k) => s # {}
      BY NoElements
    <3>2. \A s \in SUBSET S : ~(Cardinality(s) <= k) =>
             f[Picked(s)] + g[s \ {Picked(s)}] \in Nat
      BY <1>0, <3>1
    <3> QED
      BY <3>2
  <2>3. ASSUME NEW s \in SUBSET S, Cardinality(s) <= k + 1
        PROVE  h[s] = IF s = {} THEN 0 ELSE f[Picked(s)] + h[s \ {Picked(s)}]
    <3>1. CASE s = {}
      BY <2>1, <2>2, <3>1, NoElements
    <3>2. CASE s # {}
      <4>1. Picked(s) \in s
        BY <1>0, <3>2
      <4>2. /\ Cardinality(s) \in Nat /\ Cardinality(s \ {Picked(s)}) \in Nat
            /\ Cardinality(s) = Cardinality(s \ {Picked(s)}) + 1
        BY <4>1, RemovedCardinality
      <4>3. Cardinality(s \ {Picked(s)}) <= k
        BY <2>3, <4>2
      <4>4. h[s \ {Picked(s)}] = g[s \ {Picked(s)}]
        BY <2>2, <4>3
      <4>5. h[s] = f[Picked(s)] + g[s \ {Picked(s)}]
        BY <2>1, <2>2, <3>2
      <4> QED
        BY <3>2, <4>4, <4>5
    <3> QED
      BY <3>1, <3>2
  <2>4. k + 1 \in Nat /\ Upto(k + 1, h)
    BY <2>3
  <2> QED
    BY <2>2, <2>4
<1> HIDE DEF K, Upto
<1>3. Cardinality(S) \in K
  <2>1. Cardinality(S) \in Nat
    BY FS_CardinalityType
  <2>2. K \subseteq Nat
    BY DEF K
  <2> QED
    BY <1>1, <1>2, <2>1, <2>2, SetInduction
<1>4. PICK g \in [SUBSET S -> Nat] : Upto(Cardinality(S), g)
  BY <1>3 DEF K
<1>5. \A s \in SUBSET S : Cardinality(s) <= Cardinality(S)
  BY FS_Subset
<1>6. \A s \in SUBSET S : g[s] = IF s = {} THEN 0 ELSE f[Picked(s)] + g[s \ {Picked(s)}]
  BY <1>4, <1>5 DEF Upto
<1> QED
  BY <1>6 DEF IsFold

\* It does not matter which element is added last.
LEMMA FoldAnyOrder ==
    ASSUME NEW S, IsFiniteSet(S), NEW f \in [S -> Nat],
           NEW g \in [SUBSET S -> Nat], IsFold(f, S, g)
    PROVE  AnyOrder(f, S, g)
<1> DEFINE K == {k \in Nat : \A s \in SUBSET S : Cardinality(s) <= k =>
                                \A x \in s : g[s] = f[x] + g[s \ {x}]}
<1>0. \A s \in SUBSET S : s # {} =>
         Picked(s) \in s /\ g[s] = f[Picked(s)] + g[s \ {Picked(s)}]
  BY DEF Picked, IsFold
<1>1. 0 \in K
  <2>1. \A s \in SUBSET S : Cardinality(s) <= 0 => s = {}
    BY NoElements
  <2> QED
    BY <2>1
<1>2. ASSUME NEW k \in K PROVE k + 1 \in K
  <2> SUFFICES ASSUME NEW s \in SUBSET S, Cardinality(s) <= k + 1, NEW x \in s
               PROVE  g[s] = f[x] + g[s \ {x}]
    OBVIOUS
  <2>1. PICK c \in s : c = Picked(s) /\ g[s] = f[c] + g[s \ {c}]
    BY <1>0
  <2>2. CASE c # x
    <3>1. Cardinality(s \ {c}) <= k /\ Cardinality(s \ {x}) <= k
      BY RemovedCardinality
    <3>2. x \in s \ {c} /\ c \in s \ {x} /\ (s \ {c}) \ {x} = (s \ {x}) \ {c}
      BY <2>2
    <3>3. g[s \ {c}] = f[x] + g[(s \ {c}) \ {x}]
      BY <3>1, <3>2
    <3>4. g[s \ {x}] = f[c] + g[(s \ {x}) \ {c}]
      BY <3>1, <3>2
    <3>5. PICK a \in Nat, b \in Nat, d \in Nat :
             a = f[x] /\ b = f[c] /\ d = g[(s \ {x}) \ {c}]
      OBVIOUS
    <3>6. g[s] = b + (a + d) /\ f[x] + g[s \ {x}] = a + (b + d)
      BY <2>1, <3>2, <3>3, <3>4, <3>5
    <3>7. b + (a + d) = a + (b + d)
      OBVIOUS
    <3> QED
      BY <3>6, <3>7
  <2> QED
    BY <2>1, <2>2
<1> HIDE DEF K
<1>3. \A k \in Nat : k \in K
  <2>1. K \subseteq Nat
    BY DEF K
  <2> QED
    BY <1>1, <1>2, <2>1, SetInduction
<1>4. \A s \in SUBSET S : Cardinality(s) \in Nat /\ Cardinality(s) <= Cardinality(s)
  BY NoElements
<1> QED
  BY <1>3, <1>4 DEF K, AnyOrder

\* Folds over a set and over a larger one agree on what they share.
LEMMA FoldsAgree ==
    ASSUME NEW S, IsFiniteSet(S), NEW f, NEW g, IsFold(f, S, g),
           NEW T, S \subseteq T, NEW f2, NEW g2, IsFold(f2, T, g2),
           \A x \in S : f[x] = f2[x]
    PROVE  \A s \in SUBSET S : g[s] = g2[s]
<1> DEFINE K == {k \in Nat : \A s \in SUBSET S : Cardinality(s) <= k => g[s] = g2[s]}
<1>0. /\ g[{}] = 0 /\ g2[{}] = 0
      /\ \A s \in SUBSET S : s # {} =>
            /\ Picked(s) \in s /\ f[Picked(s)] = f2[Picked(s)]
            /\ g[s] = f[Picked(s)] + g[s \ {Picked(s)}]
            /\ g2[s] = f2[Picked(s)] + g2[s \ {Picked(s)}]
  <2>1. \A s \in SUBSET S : s # {} => Picked(s) \in s
    BY DEF Picked
  <2> QED
    BY <2>1 DEF IsFold
<1>1. 0 \in K
  <2>1. \A s \in SUBSET S : Cardinality(s) <= 0 => s = {}
    BY NoElements
  <2> QED
    BY <1>0, <2>1
<1>2. ASSUME NEW k \in K PROVE k + 1 \in K
  <2> SUFFICES ASSUME NEW s \in SUBSET S, Cardinality(s) <= k + 1 PROVE g[s] = g2[s]
    OBVIOUS
  <2>1. CASE s = {}
    BY <1>0, <2>1
  <2>2. CASE s # {}
    <3>1. Cardinality(s \ {Picked(s)}) <= k
      <4>1. Picked(s) \in s
        BY <1>0, <2>2
      <4>2. /\ Cardinality(s) \in Nat /\ Cardinality(s \ {Picked(s)}) \in Nat
            /\ Cardinality(s) = Cardinality(s \ {Picked(s)}) + 1
        BY <4>1, RemovedCardinality
      <4> QED
        BY <4>2
    <3>2. g[s \ {Picked(s)}] = g2[s \ {Picked(s)}]
      BY <3>1
    <3> QED
      BY <1>0, <2>2, <3>2
  <2> QED
    BY <2>1, <2>2
<1> HIDE DEF K
<1>3. \A k \in Nat : k \in K
  <2>1. K \subseteq Nat
    BY DEF K
  <2> QED
    BY <1>1, <1>2, <2>1, SetInduction
<1>4. \A s \in SUBSET S : Cardinality(s) \in Nat /\ Cardinality(s) <= Cardinality(s)
  BY NoElements
<1> QED
  BY <1>3, <1>4 DEF K

\* SumFunction is such a fold.
LEMMA SumIsFold ==
    ASSUME NEW S, IsFiniteSet(S), NEW f \in [S -> Nat]
    PROVE  \E g \in [SUBSET S -> Nat] : IsFold(f, S, g) /\ SumFunction(f) = g[S]
<1> DEFINE c == CHOOSE g : IsFold(f, S, g)
<1>1. SumFunction(f) = c[S]
  BY DEF IsFold, Picked, SumFunction, SumFunctionOnSet, FoldFunctionOnSet, MapThenFoldSet
<1>2. PICK g \in [SUBSET S -> Nat] : IsFold(f, S, g)
  BY FoldExists
<1>3. IsFold(f, S, c)
  BY <1>2
<1> HIDE DEF c
<1>4. g[S] = c[S]
  BY <1>2, <1>3, FoldsAgree
<1> QED
  BY <1>1, <1>2, <1>4

\* The sum over a list, and over the list with one more element.
LEMMA SumAppend ==
    ASSUME NEW n \in Nat, NEW f \in [1 .. n -> Nat], NEW h \in [1 .. (n + 1) -> Nat],
           \A i \in 1 .. n : h[i] = f[i]
    PROVE  /\ SumFunction(f) \in Nat
           /\ SumFunction(h) = SumFunction(f) + h[n + 1]
<1> DEFINE S == 1 .. n
           T == 1 .. (n + 1)
<1>1. /\ IsFiniteSet(S) /\ IsFiniteSet(T) /\ S \subseteq T
      /\ n + 1 \in T /\ T \ {n + 1} = S
  <2>1. IsFiniteSet(S) /\ IsFiniteSet(T)
    BY FS_Interval
  <2> QED
    BY <2>1
<1> HIDE DEF S, T
<1>2. PICK g \in [SUBSET S -> Nat] : IsFold(f, S, g) /\ SumFunction(f) = g[S]
  BY <1>1, SumIsFold DEF S
<1>3. PICK g2 \in [SUBSET T -> Nat] : IsFold(h, T, g2) /\ SumFunction(h) = g2[T]
  BY <1>1, SumIsFold DEF T
<1>4. g2[T] = h[n + 1] + g2[S]
  <2>1. AnyOrder(h, T, g2)
    <3>1. h \in [T -> Nat]
      BY DEF T
    <3>2. IsFiniteSet(T)
      BY <1>1
    <3>3. IsFold(h, T, g2)
      BY <1>3
    <3> QED
      BY <3>1, <3>2, <3>3, FoldAnyOrder
  <2> QED
    BY <2>1, <1>1 DEF AnyOrder
<1>5. g[S] = g2[S]
  <2>1. \A x \in S : f[x] = h[x]
    BY DEF S
  <2> QED
    BY SMTT(30), <2>1, <1>1, <1>2, <1>3, FoldsAgree
<1>6. g[S] \in Nat /\ h[n + 1] \in Nat
  BY <1>1, <1>2 DEF T
<1> QED
  BY <1>2, <1>3, <1>4, <1>5, <1>6

\* The sum over the empty list.
LEMMA SumEmpty ==
    ASSUME NEW f \in [1 .. 0 -> Nat]
    PROVE  SumFunction(f) = 0
<1>1. IsFiniteSet({}) /\ 1 .. 0 = {}
  BY FS_EmptySet
<1>2. PICK g \in [SUBSET {} -> Nat] : IsFold(f, {}, g) /\ SumFunction(f) = g[{}]
  BY <1>1, SumIsFold
<1> QED
  BY <1>2 DEF IsFold
-----------------------------------------------------------------------------
(* Folds over lists. *)

\* A fold that takes the largest index last, with the step of each index.
IsListFold(F, b, S, g) ==
    g = [s \in SUBSET S |-> IF s = {} THEN b ELSE F[Max(s)][g[s \ {Max(s)}]]]

\* A set of indices has a largest one.
LEMMA MaxIndex ==
    ASSUME NEW n \in Nat, NEW s \in SUBSET (1 .. n), s # {}
    PROVE  Max(s) \in s /\ \A y \in s : Max(s) >= y
<1> DEFINE K == {k \in Nat : \A t \in SUBSET (1 .. k) : t # {} => \E x \in t : \A y \in t : x >= y}
<1>1. 0 \in K
  <2>1. \A t \in SUBSET (1 .. 0) : t = {}
    OBVIOUS
  <2> QED
    BY <2>1
<1>2. ASSUME NEW k \in K PROVE k + 1 \in K
  <2> SUFFICES ASSUME NEW t \in SUBSET (1 .. (k + 1)), t # {} PROVE \E x \in t : \A y \in t : x >= y
    OBVIOUS
  <2>1. CASE k + 1 \in t
    BY <2>1
  <2>2. CASE k + 1 \notin t
    <3>1. t \in SUBSET (1 .. k)
      BY <2>2
    <3> QED
      BY <3>1
  <2> QED
    BY <2>1, <2>2
<1> HIDE DEF K
<1>3. n \in K
  <2>1. K \subseteq Nat
    BY DEF K
  <2> QED
    BY <1>1, <1>2, <2>1, SetInduction
<1>4. \E x \in s : \A y \in s : x >= y
  BY <1>3 DEF K
<1> QED
  BY <1>4 DEF Max

\* The largest of the first indices.
LEMMA MaxOfFirst ==
    ASSUME NEW n \in Nat, NEW k \in 1 .. n
    PROVE  Max(1 .. k) = k /\ (1 .. k) \ {k} = 1 .. (k - 1) /\ 1 .. k # {}
           /\ 1 .. k \in SUBSET (1 .. n) /\ 1 .. (k - 1) \in SUBSET (1 .. n)
<1>1. 1 .. k \in SUBSET (1 .. n) /\ k \in 1 .. k /\ 1 .. (k - 1) \in SUBSET (1 .. n)
      /\ (1 .. k) \ {k} = 1 .. (k - 1)
  OBVIOUS
<1>2. Max(1 .. k) \in 1 .. k /\ Max(1 .. k) >= k
  BY <1>1, MaxIndex
<1> QED
  BY <1>1, <1>2

\* Such a fold exists.
LEMMA ListFoldExists ==
    ASSUME NEW n \in Nat, NEW T, NEW b \in T, NEW F \in [1 .. n -> [T -> T]]
    PROVE  \E g \in [SUBSET (1 .. n) -> T] : IsListFold(F, b, 1 .. n, g)
<1> DEFINE S == 1 .. n
           Rest(s) == s \ {Max(s)}
           Upto(k, g) == \A s \in SUBSET S : Cardinality(s) <= k =>
                            g[s] = IF s = {} THEN b ELSE F[Max(s)][g[Rest(s)]]
           K == {k \in Nat : \E g \in [SUBSET S -> T] : Upto(k, g)}
<1>0. IsFiniteSet(S) /\ \A s \in SUBSET S : s # {} => Max(s) \in s /\ F[Max(s)] \in [T -> T]
  <2>1. IsFiniteSet(S)
    BY FS_Interval
  <2>2. ASSUME NEW s \in SUBSET S, s # {} PROVE Max(s) \in s /\ F[Max(s)] \in [T -> T]
    <3>1. Max(s) \in s
      BY <2>2, MaxIndex
    <3> QED
      BY <3>1
  <2> QED
    BY <2>1, <2>2
<1>00. \A s \in SUBSET S : Rest(s) \in SUBSET S
  OBVIOUS
<1> HIDE DEF S
<1>1. 0 \in K
  <2>1. PICK g \in [SUBSET S -> T] : g = [s \in SUBSET S |-> b]
    OBVIOUS
  <2>2. \A s \in SUBSET S : Cardinality(s) <= 0 => s = {}
    BY <1>0, NoElements
  <2> QED
    BY <2>1, <2>2
<1>2. ASSUME NEW k \in K PROVE k + 1 \in K
  <2>1. PICK g \in [SUBSET S -> T] : Upto(k, g)
    OBVIOUS
  <2> DEFINE h == [s \in SUBSET S |-> IF Cardinality(s) <= k THEN g[s] ELSE F[Max(s)][g[Rest(s)]]]
  <2> HIDE DEF Rest
  <2>2. h \in [SUBSET S -> T]
    <3>1. \A s \in SUBSET S : ~(Cardinality(s) <= k) => s # {}
      BY <1>0, NoElements
    <3>2. \A s \in SUBSET S : ~(Cardinality(s) <= k) => F[Max(s)][g[Rest(s)]] \in T
      BY <1>0, <1>00, <3>1
    <3> QED
      BY <3>2
  <2>3. ASSUME NEW s \in SUBSET S, Cardinality(s) <= k + 1
        PROVE  h[s] = IF s = {} THEN b ELSE F[Max(s)][h[Rest(s)]]
    <3>1. CASE s = {}
      BY <1>0, <2>1, <3>1, NoElements
    <3>2. CASE s # {}
      <4>2. /\ Cardinality(s) \in Nat /\ Cardinality(Rest(s)) \in Nat
            /\ Cardinality(s) = Cardinality(Rest(s)) + 1
        BY <1>0, <3>2, RemovedCardinality DEF Rest
      <4>3. Cardinality(Rest(s)) <= k
        BY <2>3, <4>2
      <4>4. h[Rest(s)] = g[Rest(s)]
        BY <1>00, <4>3
      <4>5. h[s] = F[Max(s)][g[Rest(s)]]
        BY <2>1, <3>2
      <4> QED
        BY <3>2, <4>4, <4>5
    <3> QED
      BY <3>1, <3>2
  <2> HIDE DEF h
  <2>4. k + 1 \in Nat /\ Upto(k + 1, h)
    BY <2>3
  <2> QED
    BY <2>2, <2>4
<1> HIDE DEF K, Upto
<1>3. Cardinality(S) \in K
  <2>1. Cardinality(S) \in Nat
    BY <1>0, FS_CardinalityType
  <2>2. K \subseteq Nat
    BY DEF K
  <2> QED
    BY <1>1, <1>2, <2>1, <2>2, SetInduction
<1>4. PICK g \in [SUBSET S -> T] : Upto(Cardinality(S), g)
  BY <1>3 DEF K
<1>5. \A s \in SUBSET S : Cardinality(s) <= Cardinality(S)
  BY <1>0, FS_Subset
<1>6. \A s \in SUBSET S : g[s] = IF s = {} THEN b ELSE F[Max(s)][g[Rest(s)]]
  BY <1>4, <1>5 DEF Upto
<1> QED
  BY <1>6 DEF IsListFold, S

-----------------------------------------------------------------------------
(* The elements of a list that are in a set. *)

\* h[k] is what Only keeps of the first k elements of q.
KeepsOf(h, q, S, T) ==
    /\ h \in [0 .. Len(q) -> Seq(T)]
    /\ h[0] = <<>> /\ Only(q, S) = h[Len(q)]
    /\ \A k \in 1 .. Len(q) : h[k] = IF q[k] \in S THEN Append(h[k - 1], q[k]) ELSE h[k - 1]

\* Only looks at one element after the other.
LEMMA OnlySteps ==
    ASSUME NEW T, NEW S, NEW q \in Seq(T)
    PROVE  \E h : KeepsOf(h, q, S, T)
<1> DEFINE n == Len(q)
           U == Seq(T)
           F == [i \in 1 .. n |-> [t \in U |-> IF q[i] \in S THEN Append(t, q[i]) ELSE t]]
           P(g) == g = [s \in SUBSET (1 .. n) |->
                          IF s = {} THEN <<>>
                          ELSE IF q[Max(s)] \in S THEN Append(g[s \ {Max(s)}], q[Max(s)])
                          ELSE g[s \ {Max(s)}]]
           c == CHOOSE g : P(g)
<1>0. n \in Nat /\ DOMAIN q = 1 .. n /\ \A i \in 1 .. n : q[i] \in T
  OBVIOUS
<1>1. Only(q, S) = c[1 .. n]
  BY <1>0 DEF Only, FoldLeft, MapThenFoldSet
<1>2. \E g : P(g)
  <2>1. F \in [1 .. n -> [U -> U]] /\ <<>> \in U
    BY <1>0
  <2>2. PICK g \in [SUBSET (1 .. n) -> U] : IsListFold(F, <<>>, 1 .. n, g)
    BY <1>0, <2>1, ListFoldExists
  <2>3. ASSUME NEW s \in SUBSET (1 .. n), s # {}
        PROVE  F[Max(s)][g[s \ {Max(s)}]] =
                  IF q[Max(s)] \in S THEN Append(g[s \ {Max(s)}], q[Max(s)]) ELSE g[s \ {Max(s)}]
    <3>1. Max(s) \in 1 .. n /\ s \ {Max(s)} \in SUBSET (1 .. n)
      BY <1>0, <2>3, MaxIndex
    <3>2. g[s \ {Max(s)}] \in U
      BY <3>1
    <3> QED
      BY <3>1, <3>2
  <2> HIDE DEF F
  <2>4. P(g)
    BY <2>2, <2>3 DEF IsListFold
  <2> QED
    BY <2>4
<1>3. P(c)
  BY <1>2
<1> HIDE DEF c, n
<1> DEFINE h == [k \in 0 .. n |-> c[1 .. k]]
<1>4. h[0] = <<>>
  <2>1. 1 .. 0 = {} /\ {} \in SUBSET (1 .. n)
    OBVIOUS
  <2> QED
    BY <1>0, <1>3, <2>1
<1>5. ASSUME NEW k \in 1 .. n
      PROVE  h[k] = IF q[k] \in S THEN Append(h[k - 1], q[k]) ELSE h[k - 1]
  <2>1. /\ Max(1 .. k) = k /\ (1 .. k) \ {k} = 1 .. (k - 1) /\ 1 .. k # {}
        /\ 1 .. k \in SUBSET (1 .. n)
    BY <1>0, MaxOfFirst
  <2>2. k - 1 \in 0 .. n /\ k \in 0 .. n
    BY <1>0
  <2>3. c[1 .. k] = IF q[k] \in S THEN Append(c[1 .. (k - 1)], q[k]) ELSE c[1 .. (k - 1)]
    BY <1>3, <2>1
  <2> QED
    BY <2>2, <2>3
<1>6. Only(q, S) = h[n]
  BY <1>0, <1>1
<1> HIDE DEF h
<1>7. \A k \in 0 .. n : h[k] \in U
  <2> DEFINE K == {k \in Nat : k <= n => h[k] \in U}
  <2>1. 0 \in K
    <3>1. <<>> \in U
      OBVIOUS
    <3> HIDE DEF U
    <3> QED
      BY <1>4, <3>1
  <2>2. ASSUME NEW k \in K PROVE k + 1 \in K
    <3> SUFFICES ASSUME k + 1 <= n PROVE h[k + 1] \in U
      OBVIOUS
    <3>1. k + 1 \in 1 .. n /\ (k + 1) - 1 = k /\ h[k] \in U
      BY <1>0
    <3>2. q[k + 1] \in T
      BY <1>0, <3>1
    <3>3. \A u \in U : Append(u, q[k + 1]) \in U
      BY <3>2
    <3> HIDE DEF U
    <3>4. h[k + 1] = IF q[k + 1] \in S THEN Append(h[k], q[k + 1]) ELSE h[k]
      BY <1>5, <3>1
    <3> QED
      BY <3>1, <3>3, <3>4
  <2> HIDE DEF K
  <2>3. K \subseteq Nat
    BY DEF K
  <2>4. \A k \in Nat : k \in K
    BY <2>1, <2>2, <2>3, SetInduction
  <2> QED
    BY <1>0, <2>4 DEF K
<1>8. h \in [0 .. n -> U]
  BY <1>7 DEF h
<1> QED
  BY <1>4, <1>5, <1>6, <1>8 DEF n, KeepsOf

\* Nothing is kept of nothing.
LEMMA OnlyEmpty ==
    ASSUME NEW S
    PROVE  Only(<<>>, S) = <<>>
<1>1. <<>> \in Seq({}) /\ Len(<<>>) = 0
  OBVIOUS
<1>2. PICK f : KeepsOf(f, <<>>, S, {})
  BY <1>1, OnlySteps
<1> QED
  BY <1>1, <1>2 DEF KeepsOf

\* An element that is put at the end.
LEMMA OnlyAppend ==
    ASSUME NEW T, NEW S, NEW q \in Seq(T), NEW e \in T
    PROVE  /\ Only(q, S) \in Seq(T)
           /\ Only(Append(q, e), S) = IF e \in S THEN Append(Only(q, S), e) ELSE Only(q, S)
<1> DEFINE n == Len(q)
           a == Append(q, e)
<1>0. /\ n \in Nat /\ a \in Seq(T) /\ Len(a) = n + 1 /\ a[n + 1] = e
      /\ \A i \in 1 .. n : a[i] = q[i]
  OBVIOUS
<1>h. PICK h : KeepsOf(h, q, S, T)
  BY OnlySteps
<1>1. /\ h \in [0 .. n -> Seq(T)] /\ h[0] = <<>> /\ Only(q, S) = h[n]
      /\ \A k \in 1 .. n : h[k] = IF q[k] \in S THEN Append(h[k - 1], q[k]) ELSE h[k - 1]
  BY <1>h DEF KeepsOf
<1>g. PICK g : KeepsOf(g, a, S, T)
  BY <1>0, OnlySteps
<1> HIDE DEF n, a
<1>2. /\ g \in [0 .. (n + 1) -> Seq(T)] /\ g[0] = <<>> /\ Only(a, S) = g[n + 1]
      /\ \A k \in 1 .. (n + 1) : g[k] = IF a[k] \in S THEN Append(g[k - 1], a[k]) ELSE g[k - 1]
  BY <1>g, <1>0 DEF KeepsOf
<1> DEFINE K == {k \in Nat : k <= n => g[k] = h[k]}
<1>4. 0 \in K
  BY <1>1, <1>2
<1>5. ASSUME NEW k \in K PROVE k + 1 \in K
  <2> SUFFICES ASSUME k + 1 <= n PROVE g[k + 1] = h[k + 1]
    OBVIOUS
  <2>1. k + 1 \in 1 .. n /\ k + 1 \in 1 .. (n + 1) /\ (k + 1) - 1 = k /\ g[k] = h[k]
    BY <1>0
  <2> QED
    BY ZenonT(30), <1>0, <1>1, <1>2, <2>1
<1> HIDE DEF K
<1>6. g[n] = h[n]
  <2>1. K \subseteq Nat
    BY DEF K
  <2>2. n \in K
    BY <1>0, <1>4, <1>5, <2>1, SetInduction
  <2> QED
    BY <1>0, <2>2 DEF K
<1>7. g[n + 1] = IF e \in S THEN Append(g[n], e) ELSE g[n]
  <2>1. n + 1 \in 1 .. (n + 1) /\ (n + 1) - 1 = n
    BY <1>0
  <2> QED
    BY <1>0, <1>2, <2>1
<1>8. h[n] \in Seq(T)
  BY <1>0, <1>1
<1> QED
  BY <1>1, <1>2, <1>6, <1>7, <1>8 DEF a

\* Appending to a list that has something in front.
LEMMA PutBehind ==
    ASSUME NEW T, NEW e \in T, NEW s \in Seq(T), NEW x \in T
    PROVE  Append(<<e>> \o s, x) = <<e>> \o Append(s, x)
<1> DEFINE a == Append(<<e>> \o s, x)
           b == <<e>> \o Append(s, x)
<1>1. a \in Seq(T) /\ b \in Seq(T) /\ Len(a) = Len(b) /\ Len(s) \in Nat /\ Len(a) = Len(s) + 2
  OBVIOUS
<1>2. ASSUME NEW i \in 1 .. (Len(s) + 2) PROVE a[i] = b[i]
  OBVIOUS
<1> HIDE DEF a, b
<1>3. a = b
  BY <1>1, <1>2, SeqEqual
<1> QED
  BY <1>3 DEF a, b

\* An element that is taken from the front.
LEMMA OnlyTail ==
    ASSUME NEW T, NEW S, NEW q \in Seq(T), q # <<>>
    PROVE  IF Head(q) \in S
           THEN Only(q, S) # <<>> /\ Head(Only(q, S)) = Head(q) /\ Only(Tail(q), S) = Tail(Only(q, S))
           ELSE Only(Tail(q), S) = Only(q, S)
<1> DEFINE n == Len(q)
           t == Tail(q)
           e == Head(q)
           U == Seq(T)
<1>0. /\ n \in Nat /\ n >= 1 /\ t \in Seq(T) /\ Len(t) = n - 1 /\ e = q[1] /\ e \in T
      /\ \A i \in 1 .. (n - 1) : t[i] = q[i + 1]
  OBVIOUS
<1>h. PICK h : KeepsOf(h, q, S, T)
  BY OnlySteps
<1>1. /\ h \in [0 .. n -> U] /\ h[0] = <<>> /\ Only(q, S) = h[n]
      /\ \A k \in 1 .. n : h[k] = IF q[k] \in S THEN Append(h[k - 1], q[k]) ELSE h[k - 1]
  BY <1>h DEF KeepsOf
<1>g. PICK g : KeepsOf(g, t, S, T)
  BY <1>0, OnlySteps
<1> HIDE DEF n, t, e
<1>2. /\ g \in [0 .. (n - 1) -> U] /\ g[0] = <<>> /\ Only(t, S) = g[n - 1]
      /\ \A k \in 1 .. (n - 1) : g[k] = IF t[k] \in S THEN Append(g[k - 1], t[k]) ELSE g[k - 1]
  BY <1>g, <1>0 DEF KeepsOf
<1> DEFINE K == {k \in Nat : k <= n - 1 =>
                    h[k + 1] = IF e \in S THEN <<e>> \o g[k] ELSE g[k]}
<1>3. 0 \in K
  <2>1. 1 \in 1 .. n /\ 1 - 1 = 0 /\ 0 + 1 = 1
    BY <1>0
  <2>2. h[1] = IF q[1] \in S THEN Append(h[0], q[1]) ELSE h[0]
    BY <1>1, <2>1
  <2>3. Append(<<>>, e) = <<e>> \o <<>>
    BY <1>0
  <2> QED
    BY <1>0, <1>1, <1>2, <2>1, <2>2, <2>3
<1>4. ASSUME NEW k \in K PROVE k + 1 \in K
  <2> SUFFICES ASSUME k + 1 <= n - 1
               PROVE  h[k + 2] = IF e \in S THEN <<e>> \o g[k + 1] ELSE g[k + 1]
    OBVIOUS
  <2>1. /\ k + 1 \in 1 .. (n - 1) /\ k + 2 \in 1 .. n /\ (k + 1) - 1 = k /\ (k + 2) - 1 = k + 1
        /\ k \in 0 .. (n - 1) /\ k + 1 \in 1 .. n /\ (k + 1) + 1 = k + 2
    BY <1>0
  <2>2. h[k + 1] = IF e \in S THEN <<e>> \o g[k] ELSE g[k]
    BY <1>0, <2>1
  <2>3. h[k + 2] = IF q[k + 2] \in S THEN Append(h[k + 1], q[k + 2]) ELSE h[k + 1]
    BY <1>1, <2>1
  <2>4. g[k + 1] = IF q[k + 2] \in S THEN Append(g[k], q[k + 2]) ELSE g[k]
    BY <1>0, <1>2, <2>1
  <2>5. ASSUME e \in S, q[k + 2] \in S
        PROVE  Append(<<e>> \o g[k], q[k + 2]) = <<e>> \o Append(g[k], q[k + 2])
    <3>1. q[k + 2] \in T
      BY <2>1 DEF n
    <3>2. g[k] \in Seq(T)
      BY <1>2, <2>1
    <3>3. e \in T
      BY <1>0
    <3>4. PICK u \in Seq(T) : u = g[k]
      BY <3>2
    <3>5. PICK x \in T : x = q[k + 2]
      BY <3>1
    <3>6. Append(<<e>> \o u, x) = <<e>> \o Append(u, x)
      BY <3>3, PutBehind
    <3> QED
      BY <3>4, <3>5, <3>6, Zenon
  <2> QED
    BY <2>2, <2>3, <2>4, <2>5
<1> HIDE DEF K
<1>5. h[n] = IF e \in S THEN <<e>> \o g[n - 1] ELSE g[n - 1]
  <2>1. K \subseteq Nat
    BY DEF K
  <2>2. n - 1 \in Nat /\ (n - 1) + 1 = n
    BY <1>0
  <2>3. n - 1 \in K
    BY <1>3, <1>4, <2>1, <2>2, SetInduction
  <2> QED
    BY <2>2, <2>3 DEF K
<1>6. g[n - 1] \in U
  BY <1>0, <1>2
<1>7. CASE e \in S
  <2>1. PICK u \in Seq(T) : u = g[n - 1]
    BY <1>6
  <2>2. e \in T
    BY <1>0
  <2>3. <<e>> \o u # <<>> /\ Head(<<e>> \o u) = e /\ Tail(<<e>> \o u) = u
    BY <2>2
  <2> QED
    BY <1>1, <1>2, <1>5, <1>7, <2>1, <2>3 DEF t, e
<1>8. CASE e \notin S
  BY <1>1, <1>2, <1>5, <1>8 DEF t, e
<1> QED
  BY <1>7, <1>8 DEF e

-----------------------------------------------------------------------------
(* Addresses in the paged cache. *)

\* A slot number determines its block and its offset.
LEMMA SlotParts ==
    ASSUME NEW b \in Nat, NEW c \in Nat,
           NEW o \in 0 .. (BlockSize - 1), NEW q \in 0 .. (BlockSize - 1),
           b * BlockSize + o = c * BlockSize + q
    PROVE  b = c /\ o = q
<1> USE Geometry
<1>1. ASSUME NEW x \in Nat, NEW y \in Nat, x < y
      PROVE  x * BlockSize + BlockSize <= y * BlockSize
  <2>1. PICK d \in Nat : y = x + 1 + d
    <3>1. y - x - 1 \in Nat /\ y = x + 1 + (y - x - 1)
      BY <1>1
    <3> QED
      BY <3>1
  <2>2. y * BlockSize = x * BlockSize + BlockSize + d * BlockSize
    BY <2>1
  <2>3. d * BlockSize \in Nat
    OBVIOUS
  <2>4. x * BlockSize \in Nat
    OBVIOUS
  <2> QED
    BY <2>2, <2>3, <2>4
<1>2. b * BlockSize \in Nat /\ c * BlockSize \in Nat
  OBVIOUS
<1>3. ~(b < c) /\ ~(c < b)
  BY <1>1, <1>2
<1>4. b = c
  BY <1>3
<1> QED
  BY <1>4, <1>2

\* A position splits into a logical block and an offset.
LEMMA PositionParts ==
    ASSUME NEW p \in Nat
    PROVE  /\ p \div BlockSize \in Nat
           /\ p % BlockSize \in 0 .. (BlockSize - 1)
           /\ p = (p \div BlockSize) * BlockSize + (p % BlockSize)
BY Geometry

\* The positions a table has room for fall into its blocks.
LEMMA PositionInTable ==
    ASSUME NEW n \in Nat, NEW p \in 0 .. (n * BlockSize - 1)
    PROVE  (p \div BlockSize) + 1 \in 1 .. n
<1> DEFINE k == p \div BlockSize
<1>0. n * BlockSize \in Nat /\ p \in Nat
  BY Geometry
<1>1. k \in Nat /\ k * BlockSize <= p
  BY <1>0, PositionParts, Geometry
<1> HIDE DEF k
<1>2. ASSUME k >= n PROVE FALSE
  <2>1. PICK d \in Nat : k = n + d
    <3>1. k - n \in Nat /\ k = n + (k - n)
      BY <1>1, <1>2
    <3> QED
      BY <3>1
  <2>2. k * BlockSize = n * BlockSize + d * BlockSize /\ d * BlockSize \in Nat
    BY <2>1, Geometry
  <2> QED
    BY <2>2, <1>0, <1>1
<1> QED
  BY <1>1, <1>2 DEF k

\* A larger number of blocks has room for more.
LEMMA RoomMonotonic ==
    ASSUME NEW a \in Nat, NEW b \in Nat, a <= b
    PROVE  a * BlockSize <= b * BlockSize /\ a * BlockSize \in Nat /\ b * BlockSize \in Nat
<1>1. PICK d \in Nat : b = a + d
  <2>1. b - a \in Nat /\ b = a + (b - a)
    OBVIOUS
  <2> QED
    BY <2>1
<1>2. b * BlockSize = a * BlockSize + d * BlockSize /\ d * BlockSize \in Nat
  BY <1>1, Geometry
<1>3. a * BlockSize \in Nat /\ b * BlockSize \in Nat
  BY Geometry
<1> QED
  BY <1>2, <1>3

\* As many blocks as CeilDiv says have room for t tokens.
LEMMA CeilDivRoom ==
    ASSUME NEW t \in Nat, NEW n \in Nat
    PROVE  /\ CeilDiv(t, BlockSize) \in Nat
           /\ CeilDiv(t, BlockSize) <= n <=> t <= n * BlockSize
<1> DEFINE k == (t + BlockSize - 1) \div BlockSize
           m == (t + BlockSize - 1) % BlockSize
<1>1. t + BlockSize - 1 \in Nat
  BY Geometry
<1>2. k \in Nat /\ m \in 0 .. (BlockSize - 1) /\ t + BlockSize - 1 = k * BlockSize + m
  BY <1>1, PositionParts
<1>3. CeilDiv(t, BlockSize) = k
  BY DEF CeilDiv
<1> HIDE DEF k, m
<1>4. k * BlockSize \in Nat /\ n * BlockSize \in Nat
  BY <1>2, Geometry
<1>5. ASSUME k <= n PROVE t <= n * BlockSize
  <2>1. k * BlockSize <= n * BlockSize
    BY <1>2, <1>5, RoomMonotonic
  <2> QED
    BY <2>1, <1>2, <1>4, Geometry
<1>6. ASSUME k > n PROVE t > n * BlockSize
  <2>1. (n + 1) * BlockSize <= k * BlockSize
    BY <1>2, <1>6, RoomMonotonic
  <2>2. (n + 1) * BlockSize = n * BlockSize + BlockSize
    BY Geometry
  <2> QED
    BY <2>1, <2>2, <1>2, <1>4, Geometry
<1> QED
  BY <1>2, <1>3, <1>4, <1>5, <1>6

\* Every position a table has room for has a slot of the physical cache.
LEMMA SlotInCache ==
    ASSUME NEW t \in Seq(Blocks), NEW p \in 0 .. (Room(t) - 1)
    PROVE  Slot(t, p) \in Slots
<1> DEFINE i == (p \div BlockSize) + 1
           o == p % BlockSize
<1>1. Len(t) \in Nat /\ DOMAIN t = 1 .. Len(t)
  OBVIOUS
<1>2. i \in 1 .. Len(t)
  BY <1>1, PositionInTable DEF Room
<1>3. t[i] \in 0 .. (NumBlocks - 1)
  <2> HIDE DEF i
  <2>1. t[i] \in Blocks
    BY <1>2, ElementOfSeq
  <2> QED
    BY <2>1 DEF Blocks
<1>4. p \in Nat
  BY <1>1, Geometry DEF Room
<1>5. o \in 0 .. (BlockSize - 1)
  BY <1>4, PositionParts
<1>6. Slot(t, p) = t[i] * BlockSize + o
  BY DEF Slot
<1> HIDE DEF i, o
<1>7. t[i] \in Nat /\ t[i] + 1 \in Nat /\ t[i] + 1 <= NumBlocks /\ NumBlocks \in Nat
  BY <1>3, Geometry
<1>8. (t[i] + 1) * BlockSize <= NumBlocks * BlockSize
  BY <1>7, RoomMonotonic
<1>9. (t[i] + 1) * BlockSize = t[i] * BlockSize + BlockSize
  BY <1>7, Geometry
<1>10. t[i] * BlockSize \in Nat /\ NumBlocks * BlockSize \in Nat
  BY <1>7, Geometry
<1> QED
  BY <1>5, <1>6, <1>8, <1>9, <1>10, Geometry DEF Slots

-----------------------------------------------------------------------------
(* Choices and concatenations. *)

\* A set of indices has a first one.
LEMMA FirstIndex ==
    ASSUME NEW S, S \subseteq Nat, S # {}
    PROVE  \E i \in S : \A j \in S : i <= j
<1> DEFINE A == Nat \ (Nat \ S)
<1>0. A = S
  OBVIOUS
<1>1. PICK m \in A : \A y \in A : ~(<<y, m>> \in OpToRel(<, Nat))
  BY <1>0, NatLessThanWellFounded, WFMin
<1>2. ASSUME NEW j \in A PROVE m <= j
  <2>1. m \in Nat /\ j \in Nat
    OBVIOUS
  <2>2. ~(j < m)
    BY <1>1, <2>1 DEF OpToRel
  <2> QED
    BY <2>1, <2>2
<1> QED
  BY <1>0, <1>2

\* A set of numbers with a bound has a largest one.
LEMMA LargestNumber ==
    ASSUME NEW S, S \subseteq Nat, S # {}, NEW n \in Nat, \A x \in S : x <= n
    PROVE  \E x \in S : \A y \in S : y <= x
<1> DEFINE B == {k \in Nat : \A x \in S : x <= k}
<1>1. PICK m \in B : \A k \in B : m <= k
  <2>1. B \subseteq Nat /\ n \in B
    OBVIOUS
  <2> HIDE DEF B
  <2> QED
    BY <2>1, FirstIndex
<1>2. ASSUME m \notin S PROVE FALSE
  <2>1. PICK x \in S : TRUE
    OBVIOUS
  <2>2. m > 0
    BY <1>2, <2>1
  <2>3. \A y \in S : y <= m - 1
    BY <1>2
  <2>4. m - 1 \in B
    BY <2>2, <2>3
  <2> QED
    BY <1>1, <2>2, <2>4
<1> QED
  BY <1>1, <1>2

\* Everything that Only keeps is in the set.
LEMMA OnlyKept ==
    ASSUME NEW T, NEW S, NEW q \in Seq(T)
    PROVE  Only(q, S) \in Seq(T) /\ \A i \in DOMAIN Only(q, S) : Only(q, S)[i] \in S
<1> DEFINE n == Len(q)
<1>h. PICK h : KeepsOf(h, q, S, T)
  BY OnlySteps
<1>1. /\ h \in [0 .. n -> Seq(T)] /\ h[0] = <<>> /\ Only(q, S) = h[n] /\ n \in Nat
      /\ \A k \in 1 .. n : h[k] = IF q[k] \in S THEN Append(h[k - 1], q[k]) ELSE h[k - 1]
      /\ \A k \in 1 .. n : q[k] \in T
  BY <1>h DEF KeepsOf
<1> HIDE DEF n
<1> DEFINE K == {k \in Nat : k <= n => \A i \in DOMAIN h[k] : h[k][i] \in S}
<1>2. 0 \in K
  BY <1>1
<1>3. ASSUME NEW k \in K PROVE k + 1 \in K
  <2> SUFFICES ASSUME k + 1 <= n, NEW i \in DOMAIN h[k + 1] PROVE h[k + 1][i] \in S
    OBVIOUS
  <2>1. /\ k + 1 \in 1 .. n /\ (k + 1) - 1 = k /\ k \in 0 .. n
        /\ \A j \in DOMAIN h[k] : h[k][j] \in S
    BY <1>1
  <2>2. h[k + 1] = IF q[k + 1] \in S THEN Append(h[k], q[k + 1]) ELSE h[k]
    BY <1>1, <2>1
  <2>3. PICK u \in Seq(T) : u = h[k]
    BY <1>1, <2>1
  <2>4. PICK e \in T : e = q[k + 1]
    BY <1>1, <2>1
  <2>5. \A j \in DOMAIN Append(u, e) : Append(u, e)[j] = e \/ (j \in DOMAIN u /\ Append(u, e)[j] = u[j])
    OBVIOUS
  <2> QED
    BY <2>1, <2>2, <2>3, <2>4, <2>5
<1>4. n \in K
  <2> HIDE DEF K
  <2>1. K \subseteq Nat
    BY DEF K
  <2> QED
    BY <1>1, <1>2, <1>3, <2>1, SetInduction
<1> QED
  BY <1>1, <1>4

\* What Only keeps of a list are elements of the list.
LEMMA OnlyFrom ==
    ASSUME NEW T, NEW S, NEW q \in Seq(T)
    PROVE  /\ Only(q, S) \in Seq(T)
           /\ \A i \in DOMAIN Only(q, S) :
                 Only(q, S)[i] \in S /\ \E j \in DOMAIN q : q[j] = Only(q, S)[i]
           /\ (\A j \in DOMAIN q : q[j] \notin S) => Only(q, S) = <<>>
<1> DEFINE R == {q[j] : j \in DOMAIN q}
<1>1. q \in Seq(R)
  OBVIOUS
<1>2. Only(q, S) \in Seq(R) /\ \A i \in DOMAIN Only(q, S) : Only(q, S)[i] \in S
  <2> HIDE DEF R
  <2> QED
    BY <1>1, OnlyKept
<1>3. PICK u \in Seq(R) : u = Only(q, S)
  BY <1>2
<1>4. \A i \in DOMAIN u : u[i] \in R
  <2> HIDE DEF R
  <2> QED
    OBVIOUS
<1>5. (\A j \in DOMAIN q : q[j] \notin S) => u = <<>>
  <2>1. ASSUME u # <<>> PROVE 1 \in DOMAIN u
    <3> HIDE DEF R
    <3> QED
      BY <2>1
  <2> QED
    BY <1>2, <1>3, <1>4, <2>1
<1> QED
  BY <1>2, <1>3, <1>4, <1>5, OnlyKept

\* A list in two parts: what is put behind it, and what is taken off its front, or
\* moved from the front of the second part to the end of the first.
LEMMA TwoParts ==
    ASSUME NEW T, NEW s \in Seq(T), NEW t \in Seq(T), NEW e \in T
    PROVE  /\ s \o t \in Seq(T)
           /\ s \o Append(t, e) = Append(s \o t, e)
           /\ s # <<>> => s \o t # <<>> /\ Head(s \o t) = Head(s) /\ Tail(s \o t) = Tail(s) \o t
           /\ s = <<>> => s \o t = t
           /\ t # <<>> /\ Head(t) = e => Append(s, e) \o Tail(t) = s \o t
           /\ t # <<>> /\ Head(t) = e /\ (\A i \in DOMAIN s : s[i] = e)
                => s \o t # <<>> /\ Head(s \o t) = e /\ Tail(s \o t) = s \o Tail(t)
<1>1. s \o t \in Seq(T) /\ s \o Append(t, e) = Append(s \o t, e) /\ (s = <<>> => s \o t = t)
  OBVIOUS
<1>2. ASSUME s # <<>>
      PROVE  s \o t # <<>> /\ Head(s \o t) = Head(s) /\ Tail(s \o t) = Tail(s) \o t
  BY <1>2
<1>3. ASSUME t # <<>>, Head(t) = e PROVE Append(s, e) \o Tail(t) = s \o t
  BY <1>3
<1>4. ASSUME t # <<>>, Head(t) = e, \A i \in DOMAIN s : s[i] = e
      PROVE  s \o t # <<>> /\ Head(s \o t) = e /\ Tail(s \o t) = s \o Tail(t)
  <2>0. t # <<>> /\ Head(t) = e /\ (\A i \in DOMAIN s : s[i] = e)
    BY <1>4, Zenon
  <2>1. PICK u \in Seq(T) : u = Tail(t)
    <3>1. t # <<>>
      BY <2>0, Zenon
    <3> QED
      BY <3>1, HeadTailProperties
  <2>2. Len(t) \in Nat /\ Len(u) \in Nat /\ Len(s) \in Nat /\ DOMAIN s = 1 .. Len(s)
    OBVIOUS
  <2>3. Len(t) = Len(u) + 1 /\ t[1] = e /\ \A i \in 1 .. Len(u) : t[i + 1] = u[i]
    <3>1. t # <<>> /\ Head(t) = e
      BY <2>0, Zenon
    <3> QED
      BY <2>1, <3>1
  <2>4. \A i \in 1 .. Len(s) : s[i] = e
    BY <2>0, <2>2, Zenon
  <2>5. PICK w \in Seq(T) : w = s \o t
    BY <1>1
  <2>6. /\ Len(w) = Len(s) + Len(t)
        /\ \A i \in 1 .. (Len(s) + Len(t)) : w[i] = IF i <= Len(s) THEN s[i] ELSE t[i - Len(s)]
    BY <2>5, ConcatProperties
  <2>7. PICK v \in Seq(T) : v = s \o u
    BY ConcatProperties
  <2>8. /\ Len(v) = Len(s) + Len(u)
        /\ \A i \in 1 .. (Len(s) + Len(u)) : v[i] = IF i <= Len(s) THEN s[i] ELSE u[i - Len(s)]
    BY <2>7, ConcatProperties
  <2>a. PICK a \in Nat : a = Len(s)
    BY <2>2, Zenon
  <2>b. PICK b \in Nat : b = Len(u)
    BY <2>2, Zenon
  <2>9. a = Len(s) /\ b = Len(u)
    BY <2>a, <2>b, Zenon
  <2>10. /\ Len(t) = b + 1 /\ Len(w) = a + b + 1 /\ Len(v) = a + b
    BY <2>3, <2>6, <2>8, <2>9
  <2>11. w[1] = e
    <3>1. 1 \in 1 .. (Len(s) + Len(t))
      BY <2>9, <2>10
    <3>2. w[1] = IF 1 <= a THEN s[1] ELSE t[1 - a]
      BY <2>6, <2>9, <3>1
    <3>3. CASE 1 <= a
      BY <2>4, <2>9, <3>2, <3>3
    <3>4. CASE ~(1 <= a)
      BY <2>3, <2>9, <3>2, <3>4
    <3> QED
      BY <3>3, <3>4
  <2>12. ASSUME NEW i \in 1 .. (a + b) PROVE w[i + 1] = v[i]
    <3>1. /\ i + 1 \in 1 .. (Len(s) + Len(t)) /\ i \in 1 .. (Len(s) + Len(u))
      BY <2>9, <2>10
    <3>2. /\ w[i + 1] = IF i + 1 <= a THEN s[i + 1] ELSE t[(i + 1) - a]
          /\ v[i] = IF i <= a THEN s[i] ELSE u[i - a]
      BY <2>6, <2>8, <2>9, <3>1
    <3>3. CASE i + 1 <= a
      <4>1. i \in 1 .. Len(s) /\ i + 1 \in 1 .. Len(s) /\ i <= a
        BY <2>9, <3>3
      <4> QED
        BY <2>4, <3>2, <3>3, <4>1
    <3>4. CASE i = a
      <4>1. i \in 1 .. Len(s) /\ ~(i + 1 <= a) /\ (i + 1) - a = 1 /\ i <= a
        BY <2>9, <3>4
      <4> QED
        BY <2>3, <2>4, <3>2, <4>1
    <3>5. CASE i > a
      <4>0. i - a \in 1 .. Len(u)
        BY <2>9, <3>5
      <4>1. PICK d \in 1 .. Len(u) : d = i - a
        BY <4>0, Zenon
      <4>2. ~(i + 1 <= a) /\ ~(i <= a) /\ (i + 1) - a = d + 1
        BY <3>5, <4>1
      <4> QED
        BY <2>3, <3>2, <4>1, <4>2
    <3> QED
      BY <3>3, <3>4, <3>5
  <2>13. w # <<>>
    BY <2>10
  <2>14. PICK z \in Seq(T) : z = Tail(w)
    BY <2>13, HeadTailProperties
  <2>15. Len(z) = a + b /\ \A i \in 1 .. (a + b) : z[i] = w[i + 1]
    BY <2>10, <2>13, <2>14, HeadTailProperties
  <2>16. z = v
    <3>1. Len(z) = Len(v) /\ \A i \in 1 .. Len(z) : z[i] = v[i]
      BY <2>10, <2>12, <2>15
    <3> QED
      BY <3>1, SeqEqual
  <2>17. Head(w) = e
    BY <2>11, <2>13
  <2> QED
    BY <2>1, <2>5, <2>7, <2>13, <2>14, <2>16, <2>17
<1> QED
  BY <1>1, <1>2, <1>3, <1>4

\* h[k] is the concatenation of the first k lists.
Concatenates(h, qs, T) ==
    /\ h \in [0 .. Len(qs) -> Seq(T)] /\ h[0] = <<>>
    /\ \A k \in 1 .. Len(qs) : h[k] = h[k - 1] \o qs[k]

\* FlattenSeq puts one list after the other.
LEMMA FlattenSteps ==
    ASSUME NEW T, NEW qs \in Seq(Seq(T)), Len(qs) > 0
    PROVE  \E h : Concatenates(h, qs, T) /\ FlattenSeq(qs) = h[Len(qs)]
<1> DEFINE n == Len(qs)
           U == Seq(T)
           F == [i \in 1 .. n |-> [t \in U |-> t \o qs[i]]]
           P(g) == g = [i \in 1 .. n |-> IF i = 1 THEN qs[i] ELSE g[i - 1] \o qs[i]]
           c == CHOOSE g : P(g)
<1>0. n \in Nat /\ n >= 1 /\ \A i \in 1 .. n : qs[i] \in U
  OBVIOUS
<1>1. FlattenSeq(qs) = c[n]
  BY <1>0 DEF FlattenSeq
<1>2. PICK g \in [SUBSET (1 .. n) -> U] : IsListFold(F, <<>>, 1 .. n, g)
  <2>1. F \in [1 .. n -> [U -> U]]
    BY <1>0
  <2>2. <<>> \in U
    OBVIOUS
  <2> HIDE DEF F, U, n
  <2> QED
    BY <1>0, <2>1, <2>2, ListFoldExists
<1> DEFINE h == [k \in 0 .. n |-> g[1 .. k]]
<1>3. h[0] = <<>>
  <2>1. 1 .. 0 = {} /\ {} \in SUBSET (1 .. n) /\ 0 \in 0 .. n
    BY <1>0
  <2> HIDE DEF F
  <2> QED
    BY <1>2, <2>1 DEF IsListFold
<1>4. h \in [0 .. n -> U]
  <2>1. \A k \in 0 .. n : 1 .. k \in SUBSET (1 .. n)
    BY <1>0
  <2> HIDE DEF U
  <2> QED
    BY <2>1
<1>5. ASSUME NEW k \in 1 .. n PROVE h[k] = h[k - 1] \o qs[k]
  <2>1. /\ Max(1 .. k) = k /\ (1 .. k) \ {k} = 1 .. (k - 1) /\ 1 .. k # {}
        /\ 1 .. k \in SUBSET (1 .. n) /\ 1 .. (k - 1) \in SUBSET (1 .. n)
    BY <1>0, MaxOfFirst
  <2>2. k - 1 \in 0 .. n /\ k \in 0 .. n
    BY <1>0
  <2>3. g[1 .. k] = F[k][g[1 .. (k - 1)]]
    <3> HIDE DEF F
    <3> QED
      BY <1>2, <2>1 DEF IsListFold
  <2>4. g[1 .. (k - 1)] \in U
    BY <2>1
  <2>5. F[k][g[1 .. (k - 1)]] = g[1 .. (k - 1)] \o qs[k]
    <3> HIDE DEF U
    <3> QED
      BY <2>4
  <2> QED
    BY <2>2, <2>3, <2>5
<1> HIDE DEF h
<1>6. h[1] = qs[1]
  <2>1. PICK u \in Seq(T) : u = qs[1]
    BY <1>0
  <2>2. <<>> \o u = u
    OBVIOUS
  <2>3. h[1] = h[0] \o qs[1]
    <3>1. 1 \in 1 .. n /\ 1 - 1 = 0
      BY <1>0
    <3> QED
      BY <1>5, <3>1
  <2> QED
    BY <1>3, <2>1, <2>2, <2>3
<1>7. \E g2 : P(g2)
  <2>1. PICK f : f = [i \in 1 .. n |-> h[i]]
    OBVIOUS
  <2>2. ASSUME NEW i \in 1 .. n PROVE f[i] = IF i = 1 THEN qs[i] ELSE f[i - 1] \o qs[i]
    <3>1. CASE i = 1
      BY <1>6, <2>1, <3>1
    <3>2. CASE i # 1
      <4>1. i - 1 \in 1 .. n
        BY <1>0, <3>2
      <4>2. f[i - 1] = h[i - 1] /\ f[i] = h[i]
        BY <2>1, <4>1
      <4>3. h[i] = h[i - 1] \o qs[i]
        BY <1>5
      <4> QED
        BY <3>2, <4>2, <4>3
    <3> QED
      BY <3>1, <3>2
  <2>3. P(f)
    BY <2>1, <2>2
  <2> QED
    BY <2>3
<1>8. P(c)
  BY <1>7
<1> HIDE DEF c, n, U
<1> DEFINE K == {k \in Nat : k + 1 <= n => c[k + 1] = h[k + 1]}
<1>9. 0 \in K
  <2>1. 1 \in 1 .. n /\ 0 + 1 = 1
    BY <1>0
  <2> QED
    BY <1>6, <1>8, <2>1
<1>10. ASSUME NEW k \in K PROVE k + 1 \in K
  <2> SUFFICES ASSUME (k + 1) + 1 <= n PROVE c[(k + 1) + 1] = h[(k + 1) + 1]
    OBVIOUS
  <2>1. /\ (k + 1) + 1 \in 1 .. n /\ (k + 1) + 1 # 1 /\ ((k + 1) + 1) - 1 = k + 1
        /\ c[k + 1] = h[k + 1]
    BY <1>0
  <2>2. c[(k + 1) + 1] = c[k + 1] \o qs[(k + 1) + 1]
    BY <1>8, <2>1
  <2>3. h[(k + 1) + 1] = h[k + 1] \o qs[(k + 1) + 1]
    BY <1>5, <2>1
  <2> QED
    BY <2>1, <2>2, <2>3
<1>11. c[n] = h[n]
  <2> HIDE DEF K
  <2>1. K \subseteq Nat
    BY DEF K
  <2>2. n - 1 \in Nat /\ (n - 1) + 1 = n
    BY <1>0
  <2>3. n - 1 \in K
    BY <1>9, <1>10, <2>1, <2>2, SetInduction
  <2> QED
    BY <2>2, <2>3 DEF K
<1> QED
  BY <1>1, <1>3, <1>4, <1>5, <1>11 DEF Concatenates, n, U
=============================================================================
