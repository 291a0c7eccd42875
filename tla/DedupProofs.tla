------------------------------ MODULE DedupProofs ------------------------------
(***************************************************************************)
(* Proofs about Dedup, for slices of any length: de-duplication comes to   *)
(* an end and makes up no lines; of two slices in order it gives lines in  *)
(* order, never indexes out of range, and loses nothing of slices that     *)
(* overlap.                                                                *)
(***************************************************************************)
EXTENDS Dedup, FunctionTheorems, FiniteSetTheorems, SequenceTheorems,
        WellFoundedInduction, TLAPS

-----------------------------------------------------------------------------
(* Induction, with the property as the set of the numbers that have it.    *)

LEMMA LeastOf ==
  ASSUME NEW T \in SUBSET Nat, T # {} PROVE \E x \in T : \A y \in T : x <= y
<1>1. PICK x \in T : \A y \in T : <<y, x>> \notin OpToRel(<, Nat)
  BY NatLessThanWellFounded, WFMin
<1>2. \A y \in T : ~(y < x)
  BY <1>1 DEF OpToRel
<1> QED BY <1>2

LEMMA MinOf ==
  ASSUME NEW T \in SUBSET Nat, T # {} PROVE Min(T) \in T /\ \A y \in T : Min(T) <= y
BY LeastOf DEF Min

LEMMA MaxOf ==
  ASSUME NEW n \in Nat, NEW T \in SUBSET (1..n), T # {}
  PROVE  Max(T) \in T /\ \A y \in T : y <= Max(T)
<1> DEFINE Below == {n - x : x \in T}
<1>1. \A x \in T : x \in 1..n /\ n - x \in Nat
  OBVIOUS
<1>2. Below \in SUBSET Nat /\ Below # {}
  BY <1>1
<1>3. PICK b \in Below : \A y \in Below : b <= y
  <2> HIDE DEF Below
  <2> QED BY <1>2, LeastOf
<1>4. PICK x \in T : b = n - x
  BY <1>3
<1>5. \A y \in T : y <= x
  BY <1>1, <1>3, <1>4
<1> QED BY <1>4, <1>5 DEF Max

LEMMA Every ==
  ASSUME NEW D, \A n \in Nat : (\A k \in Nat : k < n => k \in D) => n \in D
  PROVE  Nat \subseteq D
<1> SUFFICES ASSUME Nat \ D # {} PROVE FALSE
  OBVIOUS
<1>1. PICK n \in Nat \ D : \A k \in Nat \ D : n <= k
  BY LeastOf
<1> QED BY <1>1

LEMMA Upward ==
  ASSUME NEW n \in Nat, NEW D, 0 \in D, \A k \in 0..(n - 1) : k \in D => k + 1 \in D
  PROVE  0..n \subseteq D
<1> SUFFICES ASSUME (0..n) \ D # {} PROVE FALSE
  OBVIOUS
<1>1. PICK k \in (0..n) \ D : \A l \in (0..n) \ D : k <= l
  <2>1. (0..n) \ D \in SUBSET Nat
    OBVIOUS
  <2> QED BY <2>1, LeastOf
<1>2. k # 0 /\ k - 1 \in 0..(n - 1) /\ k - 1 + 1 = k
  BY <1>1
<1> QED BY <1>1, <1>2

LEMMA Downward ==
  ASSUME NEW n \in Nat, NEW D, n \in D, \A k \in 1..n : k \in D => k - 1 \in D
  PROVE  0..n \subseteq D
<1> DEFINE E == {k \in 0..n : n - k \in D}
<1>1. 0 \in E
  OBVIOUS
<1>2. ASSUME NEW k \in 0..(n - 1), k \in E PROVE k + 1 \in E
  <2>1. n - k \in 1..n /\ n - (k + 1) = (n - k) - 1
    OBVIOUS
  <2> QED BY <1>2, <2>1
<1>3. 0..n \subseteq E
  <2> HIDE DEF E
  <2> QED BY <1>1, <1>2, Upward
<1>4. \A k \in 0..n : n - k \in E /\ n - (n - k) = k
  BY <1>3
<1> QED BY <1>4

-----------------------------------------------------------------------------
(* Recursive functions that the modules use have a value. *)

IsLoop(f, D, next, stop, v) ==
  f = [d \in D |-> IF d \in stop THEN v[d] ELSE f[next[d]]]

(* A loop: the function that follows next until it stops.  A point that    *)
(* never stops has some value, too.                                        *)
LEMMA LoopExists ==
  ASSUME NEW D, NEW next \in [D -> D], NEW stop \in SUBSET D, NEW v
  PROVE  \E f : IsLoop(f, D, next, stop, v)
<1> DEFINE Closed(C) == \A c \in C : c \notin stop => next[c] \in C
           Reach(d) == {c \in D : \A C \in SUBSET D : d \in C /\ Closed(C) => c \in C}
           Ends(d) == Reach(d) \cap stop
           f == [d \in D |-> v[CHOOSE e : e \in Ends(d)]]
<1>1. ASSUME NEW d \in stop PROVE Ends(d) = {d}
  <2>1. {d} \in SUBSET D /\ Closed({d})
    OBVIOUS
  <2> QED BY <2>1
<1>2. ASSUME NEW d \in D, d \notin stop PROVE Ends(d) = Ends(next[d])
  <2>1. next[d] \in D
    OBVIOUS
  <2>2. ASSUME NEW c \in Reach(next[d]) PROVE c \in Reach(d)
    BY <1>2, <2>1
  <2>3. ASSUME NEW c \in Reach(d), c # d PROVE c \in Reach(next[d])
    <3> SUFFICES ASSUME NEW C \in SUBSET D, next[d] \in C, Closed(C) PROVE c \in C
      OBVIOUS
    <3>1. C \cup {d} \in SUBSET D /\ Closed(C \cup {d})
      OBVIOUS
    <3> QED BY <2>3, <3>1
  <2> QED BY <1>2, <2>2, <2>3
<1> HIDE DEF Ends
<1>3. \A d \in D : f[d] = IF d \in stop THEN v[d] ELSE f[next[d]]
  BY <1>1, <1>2
<1>4. IsLoop(f, D, next, stop, v)
  BY <1>3 DEF IsLoop
<1> HIDE DEF f
<1> QED BY <1>4

IsFold(f, S, pick, base, G) ==
  \A s \in SUBSET S : f[s] = IF s = {} THEN base ELSE G[<<pick[s], f[s \ {pick[s]}]>>]

(* A fold over a finite set, one element at a time.                        *)
LEMMA FoldExists ==
  ASSUME NEW S, IsFiniteSet(S), NEW pick, \A s \in SUBSET S : s # {} => pick[s] \in s,
         NEW V, NEW base \in V, NEW G \in [S \X V -> V]
  PROVE  \E f \in [SUBSET S -> V] : IsFold(f, S, pick, base, G)
<1> DEFINE Small(k) == {s \in SUBSET S : Cardinality(s) <= k}
           Fold(k, f) == \A s \in Small(k) :
             f[s] = IF s = {} THEN base ELSE G[<<pick[s], f[s \ {pick[s]}]>>]
           D == {k \in Nat : \E f \in [Small(k) -> V] : Fold(k, f)}
<1>0. \A s \in SUBSET S : /\ IsFiniteSet(s) /\ Cardinality(s) \in Nat
                          /\ Cardinality(s) = 0 <=> s = {}
  BY FS_Subset, FS_CardinalityType, FS_EmptySet
<1>1. ASSUME NEW s \in SUBSET S, s # {}
      PROVE  /\ s \ {pick[s]} \in SUBSET S
             /\ Cardinality(s \ {pick[s]}) = Cardinality(s) - 1
  BY <1>0, <1>1, FS_RemoveElement
<1>2. \A k \in Nat : \A s \in Small(k + 1) : s # {} =>
        pick[s] \in S /\ s \ {pick[s]} \in Small(k)
  BY <1>0, <1>1
<1>3. \A k \in Nat : \A s \in Small(k) : s \in Small(k + 1) /\ s \in SUBSET S
  BY <1>0
<1>4. \A s \in Small(0) : s = {}
  BY <1>0
<1>5. Small(Cardinality(S)) = SUBSET S
  BY FS_Subset
<1> HIDE DEF Small
<1>6. 0 \in D
  <2> DEFINE f == [s \in Small(0) |-> base]
  <2>1. f \in [Small(0) -> V] /\ Fold(0, f)
    BY <1>4
  <2> HIDE DEF f
  <2> QED BY <2>1
<1>7. ASSUME NEW k \in Nat, k \in D PROVE k + 1 \in D
  <2>1. PICK f \in [Small(k) -> V] : Fold(k, f)
    BY <1>7
  <2> DEFINE g == [s \in Small(k + 1) |->
                     IF s = {} THEN base ELSE G[<<pick[s], f[s \ {pick[s]}]>>]]
  <2>2. \A s \in Small(k + 1) : s # {} => G[<<pick[s], f[s \ {pick[s]}]>>] \in V
    BY <1>2
  <2>3. g \in [Small(k + 1) -> V]
    BY <2>2
  <2>4. \A s \in Small(k) : g[s] = f[s]
    BY <1>3, <2>1
  <2>5. Fold(k + 1, g)
    BY <1>2, <2>4
  <2> HIDE DEF g, Fold
  <2>6. \E h \in [Small(k + 1) -> V] : Fold(k + 1, h)
    BY <2>3, <2>5
  <2> QED BY <2>6
<1>8. Cardinality(S) \in D
  <2>1. Cardinality(S) \in Nat
    BY FS_CardinalityType
  <2> HIDE DEF D
  <2>2. 0..Cardinality(S) \subseteq D
    BY <2>1, <1>6, <1>7, Upward
  <2> QED BY <2>1, <2>2
<1> QED BY <1>8, <1>5 DEF IsFold

IsFoldLeft(f, n, base, G) ==
  \A s \in SUBSET (1..n) : f[s] = IF s = {} THEN base ELSE G[<<Max(s), f[s \ {Max(s)}]>>]

IsFoldRight(f, n, base, G) ==
  \A s \in SUBSET (1..n) : f[s] = IF s = {} THEN base ELSE G[<<Min(s), f[s \ {Min(s)}]>>]

(* FoldLeft and FoldRight: the set of indices is the sequence's domain.    *)
LEMMA FoldLeftExists ==
  ASSUME NEW n \in Nat, NEW V, NEW base \in V, NEW G \in [(1..n) \X V -> V]
  PROVE  \E f \in [SUBSET (1..n) -> V] : IsFoldLeft(f, n, base, G)
<1> DEFINE pick == [s \in SUBSET (1..n) |-> Max(s)]
<1>1. \A s \in SUBSET (1..n) : s # {} => pick[s] \in s
  BY MaxOf
<1>2. IsFiniteSet(1..n)
  BY FS_Interval
<1>3. \A s \in SUBSET (1..n) : pick[s] = Max(s)
  OBVIOUS
<1> HIDE DEF pick
<1>4. PICK f \in [SUBSET (1..n) -> V] : IsFold(f, 1..n, pick, base, G)
  <2>1. \E f \in [SUBSET (1..n) -> V] : IsFold(f, 1..n, pick, base, G)
    BY <1>1, <1>2, FoldExists
  <2> QED BY <2>1
<1>5. IsFoldLeft(f, n, base, G)
  BY <1>3, <1>4 DEF IsFold, IsFoldLeft
<1> QED BY <1>5

LEMMA FoldRightExists ==
  ASSUME NEW n \in Nat, NEW V, NEW base \in V, NEW G \in [(1..n) \X V -> V]
  PROVE  \E f \in [SUBSET (1..n) -> V] : IsFoldRight(f, n, base, G)
<1> DEFINE pick == [s \in SUBSET (1..n) |-> Min(s)]
<1>1. \A s \in SUBSET (1..n) : s # {} => pick[s] \in s
  BY MinOf
<1>2. IsFiniteSet(1..n)
  BY FS_Interval
<1>3. \A s \in SUBSET (1..n) : pick[s] = Min(s)
  OBVIOUS
<1> HIDE DEF pick
<1>4. PICK f \in [SUBSET (1..n) -> V] : IsFold(f, 1..n, pick, base, G)
  <2>1. \E f \in [SUBSET (1..n) -> V] : IsFold(f, 1..n, pick, base, G)
    BY <1>1, <1>2, FoldExists
  <2> QED BY <2>1
<1>5. IsFoldRight(f, n, base, G)
  BY <1>3, <1>4 DEF IsFold, IsFoldRight
<1> QED BY <1>5

LEMMA LastOfInterval ==
  ASSUME NEW k \in Nat \ {0}
  PROVE  1..k # {} /\ Max(1..k) = k /\ (1..k) \ {k} = 1..(k - 1)
<1>1. 1..k # {}
  OBVIOUS
<1>2. Max(1..k) \in 1..k /\ \A y \in 1..k : y <= Max(1..k)
  BY <1>1, MaxOf
<1> QED BY <1>1, <1>2

LEMMA FirstOfInterval ==
  ASSUME NEW n \in Nat, NEW k \in 1..n
  PROVE  k..n # {} /\ Min(k..n) = k /\ (k..n) \ {k} = (k + 1)..n
<1>1. k..n # {} /\ k..n \in SUBSET Nat
  OBVIOUS
<1>2. Min(k..n) \in k..n /\ \A y \in k..n : Min(k..n) <= y
  BY <1>1, MinOf
<1> QED BY <1>1, <1>2

-----------------------------------------------------------------------------
(* Sorting. *)

LEMMA Smaller ==
  ASSUME NEW S, IsFiniteSet(S), NEW T \in SUBSET S, NEW x \in S, x \notin T
  PROVE  Cardinality(T) < Cardinality(S) /\ Cardinality(T) \in 0..(Cardinality(S) - 1)
<1>1. IsFiniteSet(T) /\ Cardinality(T) <= Cardinality(S) /\ Cardinality(T) # Cardinality(S)
  BY FS_Subset
<1>2. Cardinality(T) \in Nat /\ Cardinality(S) \in Nat
  BY <1>1, FS_CardinalityType
<1> QED BY <1>1, <1>2

\* R orders the elements of S.
Orders(R, S) ==
  /\ \A x \in S : <<x, x>> \notin R
  /\ \A x, y \in S : x # y => <<x, y>> \in R \/ <<y, x>> \in R
  /\ \A x, y, z \in S : <<x, y>> \in R /\ <<y, z>> \in R => <<x, z>> \in R

\* Each place of order holds the element that so many others come before.
Places(order, S, R) ==
  \A k \in 1..Cardinality(S) :
    (\E x \in S : Cardinality({y \in S : <<y, x>> \in R}) = k - 1)
      => /\ order[k] \in S
         /\ Cardinality({y \in S : <<y, order[k]>> \in R}) = k - 1

\* order has every element of S, before the greater ones.
Arranges(order, S, R) ==
  /\ Cardinality(S) \in Nat
  /\ \A k \in 1..Cardinality(S) : order[k] \in S
  /\ \A k, l \in 1..Cardinality(S) : k < l => <<order[k], order[l]>> \in R
  /\ \A x \in S : \E k \in 1..Cardinality(S) : order[k] = x

(* Every element is at one place, and the places are in the order.         *)
LEMMA ArrangedInOrder ==
  ASSUME NEW S, IsFiniteSet(S), NEW R, Orders(R, S), NEW order, Places(order, S, R)
  PROVE  Arranges(order, S, R)
<1> DEFINE n == Cardinality(S)
           before(x) == {y \in S : <<y, x>> \in R}
           rank == [x \in S |-> Cardinality(before(x))]
<1>1. n \in Nat
  BY FS_CardinalityType
<1>2. ASSUME NEW x \in S PROVE rank[x] \in 0..(n - 1)
  <2>1. before(x) \subseteq S /\ x \notin before(x)
    BY DEF Orders
  <2> QED BY <2>1, Smaller DEF rank
<1>3. ASSUME NEW x \in S, NEW y \in S, <<x, y>> \in R PROVE rank[x] < rank[y]
  <2>1. before(x) \subseteq before(y) /\ x \in before(y) \ before(x) /\ before(y) \subseteq S
    BY <1>3 DEF Orders
  <2>2. IsFiniteSet(before(y))
    BY <2>1, FS_Subset
  <2>3. rank[x] = Cardinality(before(x)) /\ rank[y] = Cardinality(before(y))
    OBVIOUS
  <2> HIDE DEF before, rank
  <2>4. Cardinality(before(x)) < Cardinality(before(y))
    BY <2>1, <2>2, Smaller
  <2> QED BY <2>3, <2>4
<1> HIDE DEF rank
<1>4. ASSUME NEW x \in S, NEW y \in S, rank[x] = rank[y] PROVE x = y
  <2>1. rank[x] \in Int /\ ~(rank[x] < rank[y]) /\ ~(rank[y] < rank[x])
    BY <1>2, <1>4
  <2>2. <<x, y>> \notin R /\ <<y, x>> \notin R
    BY <2>1, <1>3
  <2> QED BY <2>2 DEF Orders
<1>5. {rank[x] : x \in S} = 0..(n - 1)
  <2> DEFINE T == {rank[x] : x \in S}
             f == [x \in S |-> rank[x]]
  <2>1. T \subseteq 0..(n - 1)
    BY <1>2
  <2>2. IsFiniteSet(0..(n - 1)) /\ Cardinality(0..(n - 1)) = n
    <3>1. 0 \in Int /\ n - 1 \in Int /\ (IF 0 > n - 1 THEN 0 ELSE (n - 1) - 0 + 1) = n
      BY <1>1
    <3> HIDE DEF n
    <3> QED BY <3>1, FS_Interval
  <2>3. IsFiniteSet(T)
    BY <2>1, <2>2, FS_Subset
  <2>4. f \in Bijection(S, T)
    BY <1>4 DEF Bijection, Injection, Surjection, IsInjective
  <2>5. Cardinality(T) = n
    <3> HIDE DEF f, T
    <3> QED BY <2>3, <2>4, FS_Bijection DEF ExistsBijection
  <2> HIDE DEF T
  <2>6. T = 0..(n - 1)
    BY <2>1, <2>2, <2>5, FS_Subset
  <2> QED BY <2>6 DEF T
<1>6. ASSUME NEW k \in 1..n PROVE order[k] \in S /\ rank[order[k]] = k - 1
  <2>1. k - 1 \in 0..(n - 1)
    BY <1>1
  <2>2. \E x \in S : rank[x] = k - 1
    BY <1>5, <2>1
  <2>3. \A x \in S : rank[x] = Cardinality(before(x))
    BY DEF rank
  <2>4. (\E x \in S : Cardinality(before(x)) = k - 1)
           => order[k] \in S /\ Cardinality(before(order[k])) = k - 1
    BY DEF Places
  <2> HIDE DEF before
  <2> QED BY <2>2, <2>3, <2>4
<1>8. ASSUME NEW k \in 1..n, NEW l \in 1..n, k < l PROVE <<order[k], order[l]>> \in R
  <2>1. /\ order[k] \in S /\ order[l] \in S
        /\ rank[order[k]] = k - 1 /\ rank[order[l]] = l - 1
    BY <1>6
  <2>2. ~(rank[order[l]] < rank[order[k]]) /\ order[k] # order[l]
    BY <2>1, <1>8, <1>1
  <2> QED BY <2>1, <2>2, <1>3 DEF Orders
<1>9. ASSUME NEW x \in S PROVE \E k \in 1..n : order[k] = x
  <2>1. rank[x] + 1 \in 1..n /\ (rank[x] + 1) - 1 = rank[x]
    BY <1>1, <1>2
  <2>2. order[rank[x] + 1] \in S /\ rank[order[rank[x] + 1]] = rank[x]
    BY <2>1, <1>6
  <2> QED BY <2>1, <2>2, <1>4
<1> QED BY <1>1, <1>6, <1>8, <1>9 DEF Arranges

(* Numbers by size.                                                        *)
LEMMA NumbersInOrder ==
  ASSUME NEW S \in SUBSET Nat, IsFiniteSet(S)
  PROVE  LET n == Cardinality(S)
             order == Arranged(S, <)
         IN  /\ n \in Nat /\ order \in [1..n -> S]
             /\ \A k, l \in 1..n : k < l => order[k] < order[l]
             /\ \A x \in S : \E k \in 1..n : order[k] = x
<1> DEFINE R == {p \in S \X S : p[1] < p[2]}
<1>1. \A x, y \in S : <<x, y>> \in R <=> x < y
  OBVIOUS
<1> HIDE DEF R
<1>2. Orders(R, S)
  BY <1>1 DEF Orders
<1>3. Arranged(S, <) = [k \in 1..Cardinality(S) |->
        CHOOSE x \in S : Cardinality({y \in S : y < x}) = k - 1]
  BY DEF Arranged
<1>4. \A x \in S : {y \in S : <<y, x>> \in R} = {y \in S : y < x}
  BY <1>1
<1> DEFINE rank(x) == Cardinality({y \in S : y < x})
           order == [k \in 1..Cardinality(S) |-> CHOOSE x \in S : rank(x) = k - 1]
<1>5. ASSUME NEW k \in 1..Cardinality(S), \E x \in S : rank(x) = k - 1
      PROVE  order[k] \in S /\ rank(order[k]) = k - 1
  <2> HIDE DEF rank
  <2> QED BY <1>5
<1>6. Places(order, S, R)
  <2> HIDE DEF order
  <2> QED BY <1>4, <1>5 DEF Places
<1>7. Arranges(order, S, R)
  <2> HIDE DEF order
  <2> QED BY <1>2, <1>6, ArrangedInOrder
<1>8. order \in [1..Cardinality(S) -> S]
  BY <1>7 DEF Arranges
<1>9. \A k, l \in 1..Cardinality(S) : k < l => order[k] < order[l]
  BY <1>1, <1>7 DEF Arranges
<1> HIDE DEF order
<1>10. Arranged(S, <) = order
  BY <1>3 DEF order
<1> QED BY <1>7, <1>8, <1>9, <1>10 DEF Arranges

-----------------------------------------------------------------------------
(* Indices: the first line equal, the first difference, the first common    *)
(* line.  The lines of s are s[1], s[2], ...; indices are Go's.             *)

IsIndexOf(i, needle, list) ==
  /\ i \in -1..(Len(list) - 1)
  /\ i = -1 => \A j \in 1..Len(list) : list[j] # needle
  /\ i # -1 => list[i + 1] = needle
  /\ i # -1 => \A j \in 1..i : list[j] # needle

LEMMA LineIndex ==
  ASSUME NEW list \in Seq(Nat), NEW needle
  PROVE  IsIndexOf(findLineIndex(needle, list), needle, list)
<1> DEFINE n == Len(list)
           T == {i \in 0..(n - 1) : list[i + 1] = needle}
           i == findLineIndex(needle, list)
<1>0. n \in Nat
  OBVIOUS
<1>1. i = IF \E k \in 0..(n - 1) : list[k + 1] = needle
            THEN CHOOSE k \in 0..(n - 1) :
                   list[k + 1] = needle /\ \A j \in 0..(k - 1) : ~(list[j + 1] = needle)
            ELSE -1
  BY DEF findLineIndex, LeastIndex, At
<1> HIDE DEF i
<1>2. CASE T = {}
  <2>1. i = -1 /\ \A k \in 0..(n - 1) : list[k + 1] # needle
    BY <1>1, <1>2
  <2>2. \A j \in 1..n : j - 1 \in 0..(n - 1) /\ (j - 1) + 1 = j
    BY <1>0
  <2>3. \A j \in 1..n : list[j] # needle
    BY <2>1, <2>2
  <2> QED BY <1>0, <2>1, <2>3 DEF IsIndexOf, i
<1>3. CASE T # {}
  <2>1. T \in SUBSET Nat
    OBVIOUS
  <2>2. PICK k \in T : \A l \in T : k <= l
    BY <1>3, <2>1, LeastOf
  <2>3. \A j \in 0..(k - 1) : j \in 0..(n - 1) /\ ~(k <= j)
    BY <2>2
  <2>4. \A j \in 0..(k - 1) : ~(list[j + 1] = needle)
    BY <2>2, <2>3
  <2>5. /\ i \in 0..(n - 1) /\ list[i + 1] = needle
        /\ \A j \in 0..(i - 1) : ~(list[j + 1] = needle)
    BY <1>1, <2>2, <2>4
  <2>6. \A j \in 1..i : j - 1 \in 0..(i - 1) /\ (j - 1) + 1 = j
    BY <2>5
  <2>7. \A j \in 1..i : list[j] # needle
    BY <2>5, <2>6
  <2> QED BY <1>0, <2>5, <2>7 DEF IsIndexOf, i
<1> QED BY <1>2, <1>3

IsIssue(i, x, y) ==
  /\ i \in Nat \cup {-1}
  /\ i = -1 => \A j \in 1..Len(x) : j <= Len(y) => x[j] = y[j]
  /\ i # -1 => i < Len(x) /\ i < Len(y) /\ x[i + 1] # y[i + 1]
  /\ i # -1 => \A j \in 1..i : x[j] = y[j]

LEMMA Issue ==
  ASSUME NEW x \in Seq(Nat), NEW y \in Seq(Nat)
  PROVE  IsIssue(findFirstIssueIndex(x, y), x, y)
<1> DEFINE n == IF Len(x) < Len(y) THEN Len(x) ELSE Len(y)
           T == {i \in 0..(n - 1) : x[i + 1] # y[i + 1]}
           i == findFirstIssueIndex(x, y)
<1>0. n \in Nat /\ n <= Len(x) /\ n <= Len(y) /\ Len(x) \in Nat /\ Len(y) \in Nat
      /\ \A j \in 1..Len(x) : j <= Len(y) => j <= n
  OBVIOUS
<1>1. i = IF \E k \in 0..(n - 1) : x[k + 1] # y[k + 1]
            THEN CHOOSE k \in 0..(n - 1) :
                   x[k + 1] # y[k + 1] /\ \A j \in 0..(k - 1) : ~(x[j + 1] # y[j + 1])
            ELSE -1
  BY DEF findFirstIssueIndex, LeastIndex, At
<1> HIDE DEF i, n
<1>2. CASE T = {}
  <2>1. i = -1 /\ \A k \in 0..(n - 1) : x[k + 1] = y[k + 1]
    BY <1>1, <1>2
  <2>2. \A j \in 1..n : j - 1 \in 0..(n - 1) /\ (j - 1) + 1 = j
    BY <1>0
  <2>3. \A j \in 1..n : x[j] = y[j]
    BY <2>1, <2>2
  <2>4. \A j \in 1..Len(x) : j <= Len(y) => x[j] = y[j]
    BY <1>0, <2>3
  <2> QED BY <1>0, <2>1, <2>4 DEF IsIssue, i
<1>3. CASE T # {}
  <2>1. T \in SUBSET Nat
    BY <1>0
  <2>2. PICK k \in T : \A l \in T : k <= l
    BY <1>3, <2>1, LeastOf
  <2>3. \A j \in 0..(k - 1) : j \in 0..(n - 1) /\ ~(k <= j)
    <3>1. k \in 0..(n - 1)
      BY <2>2
    <3> HIDE DEF T
    <3> QED BY <1>0, <3>1
  <2>4. \A j \in 0..(k - 1) : ~(x[j + 1] # y[j + 1])
    BY <2>2, <2>3
  <2>5. /\ i \in 0..(n - 1) /\ x[i + 1] # y[i + 1]
        /\ \A j \in 0..(i - 1) : ~(x[j + 1] # y[j + 1])
    BY <1>1, <2>2, <2>4
  <2>6. \A j \in 1..i : j - 1 \in 0..(i - 1) /\ (j - 1) + 1 = j
    BY <1>0, <2>5
  <2>7. \A j \in 1..i : x[j] = y[j]
    BY <2>5, <2>6
  <2>8. i \in Nat /\ i # -1 /\ i < Len(x) /\ i < Len(y)
    <3> DEFINE lx == Len(x)
               ly == Len(y)
    <3>1. i \in 0..(n - 1)
      BY <2>5, Zenon
    <3>2. n \in Nat /\ n <= lx /\ n <= ly /\ lx \in Nat /\ ly \in Nat
      BY <1>0, Zenon
    <3> HIDE DEF lx, ly
    <3>3. i \in Nat /\ i # -1 /\ i < lx /\ i < ly
      BY ONLY <3>1, <3>2
    <3> QED BY <3>3, Zenon DEF lx, ly
  <2> QED BY <2>5, <2>7, <2>8 DEF IsIssue, i
<1> QED BY <1>2, <1>3

LEMMA IssueBounds ==
  ASSUME NEW x \in Seq(Nat), NEW y \in Seq(Nat), NEW i, IsIssue(i, x, y), i # -1
  PROVE  /\ Len(x) \in Nat /\ Len(y) \in Nat
         /\ i \in Nat /\ i < Len(x) /\ i < Len(y) /\ x[i + 1] # y[i + 1]
<1>1. i \in Nat \cup {-1}
  BY Zenon DEF IsIssue
<1>2. i < Len(x) /\ i < Len(y) /\ x[i + 1] # y[i + 1]
  BY Zenon DEF IsIssue
<1>3. Len(x) \in Nat /\ Len(y) \in Nat
  OBVIOUS
<1>4. i \in Nat
  BY <1>1
<1> QED BY <1>2, <1>3, <1>4, Zenon

IsMatch(m, a, b) ==
  /\ m.offset \in 0..Len(a) /\ m.index \in -1..(Len(b) - 1)
  /\ m.index = -1 => m.offset = Len(a)
  /\ m.index = -1 => \A j \in 1..Len(a), k \in 1..Len(b) : a[j] # b[k]
  /\ m.index # -1 => m.offset < Len(a) /\ a[m.offset + 1] = b[m.index + 1]
  /\ m.index # -1 => \A j \in 1..m.offset, k \in 1..Len(b) : a[j] # b[k]
  /\ m.index # -1 => \A k \in 1..m.index : b[k] # a[m.offset + 1]

LEMMA Match ==
  ASSUME NEW a \in Seq(Nat), NEW b \in Seq(Nat)
  PROVE  IsMatch(findNextMatching(a, b), a, b)
<1> DEFINE n == Len(a)
           find(i) == findLineIndex(At(a, i), b)
           T == {i \in 0..(n - 1) : find(i) # -1}
           m == findNextMatching(a, b)
           Least == IF \E k \in 0..(n - 1) : find(k) # -1
                      THEN CHOOSE k \in 0..(n - 1) :
                             find(k) # -1 /\ \A j \in 0..(k - 1) : ~(find(j) # -1)
                      ELSE -1
<1>0. n \in Nat /\ Len(b) \in Nat
  OBVIOUS
<1>1. m = IF Least = -1 THEN [offset |-> Len(a), index |-> -1]
                        ELSE [offset |-> Least, index |-> find(Least)]
  BY DEF findNextMatching, LeastIndex
<1>f. ASSUME NEW k \in 0..(n - 1) PROVE IsIndexOf(find(k), a[k + 1], b)
  BY LineIndex DEF At
<1> HIDE DEF m, find
<1>2. CASE T = {}
  <2>1. Least = -1 /\ \A k \in 0..(n - 1) : find(k) = -1
    BY <1>2
  <2>2. \A j \in 1..n : j - 1 \in 0..(n - 1) /\ (j - 1) + 1 = j
    BY <1>0
  <2>3. ASSUME NEW j \in 1..n PROVE \A k \in 1..Len(b) : a[j] # b[k]
    <3>1. IsIndexOf(-1, a[j], b)
      BY <2>1, <2>2, <1>f
    <3> QED BY <3>1 DEF IsIndexOf
  <2> QED BY <1>0, <1>1, <2>1, <2>3 DEF IsMatch, m
<1>3. CASE T # {}
  <2>1. T \in SUBSET Nat
    OBVIOUS
  <2>2. PICK k \in T : \A l \in T : k <= l
    BY <1>3, <2>1, LeastOf
  <2>3. \A j \in 0..(k - 1) : j \in 0..(n - 1) /\ ~(k <= j)
    BY <2>2
  <2>4. \A j \in 0..(k - 1) : ~(find(j) # -1)
    BY <2>2, <2>3
  <2>5. /\ Least \in 0..(n - 1) /\ find(Least) # -1
        /\ \A j \in 0..(Least - 1) : ~(find(j) # -1)
    BY <2>2, <2>4
  <2> HIDE DEF Least
  <2>6. m.offset = Least /\ m.index = find(Least)
    BY <1>0, <1>1, <2>5
  <2>7. \A j \in 1..Least : j - 1 \in 0..(Least - 1) /\ (j - 1) + 1 = j /\ j - 1 \in 0..(n - 1)
    BY <1>0, <2>5
  <2>8. ASSUME NEW j \in 1..Least PROVE \A l \in 1..Len(b) : a[j] # b[l]
    <3>1. IsIndexOf(-1, a[j], b)
      BY <2>5, <2>7, <1>f
    <3> QED BY <3>1 DEF IsIndexOf
  <2>9. IsIndexOf(find(Least), a[Least + 1], b)
    BY <2>5, <1>f
  <2>10. /\ find(Least) \in -1..(Len(b) - 1) /\ b[find(Least) + 1] = a[Least + 1]
         /\ \A l \in 1..find(Least) : b[l] # a[Least + 1]
    BY <2>5, <2>9 DEF IsIndexOf
  <2> HIDE DEF T
  <2>11. /\ m.offset \in 0..Len(a) /\ m.offset < Len(a) /\ m.index # -1
         /\ m.index \in -1..(Len(b) - 1)
    BY <1>0, <2>5, <2>6, <2>10
  <2>12. \A j \in 1..m.offset, l \in 1..Len(b) : a[j] # b[l]
    BY <2>6, <2>8
  <2>13. \A l \in 1..m.index : b[l] # a[m.offset + 1]
    BY <2>6, <2>10
  <2>14. a[m.offset + 1] = b[m.index + 1]
    BY <2>6, <2>10
  <2>15. IsMatch(m, a, b)
    BY <2>11, <2>12, <2>13, <2>14 DEF IsMatch
  <2> QED BY <2>15 DEF m
<1> QED BY <1>2, <1>3

-----------------------------------------------------------------------------
(* Slices of slices. *)

LEMMA FromShape ==
  ASSUME NEW s \in Seq(Nat), NEW i \in 0..Len(s)
  PROVE  /\ From(s, i) \in Seq(Nat) /\ Len(From(s, i)) = Len(s) - i
         /\ \A j \in 1..(Len(s) - i) : From(s, i)[j] = s[i + j]
<1> DEFINE n == Len(s)
<1>1. From(s, i) = SubSeq(s, i + 1, n) /\ n \in Nat
  BY DEF From
<1>2. /\ i + 1 \in 1..(n + 1) /\ n \in (i + 1 - 1)..n /\ i \in Nat
      /\ n - (i + 1) + 1 = n - i
      /\ \A j \in 1..(n - i) : i + 1 + j - 1 = i + j
  BY <1>1
<1>3. /\ SubSeq(s, i + 1, n) \in Seq(Nat)
      /\ Len(SubSeq(s, i + 1, n)) = n - (i + 1) + 1
      /\ \A j \in 1..(n - (i + 1) + 1) : SubSeq(s, i + 1, n)[j] = s[i + 1 + j - 1]
  <2> DEFINE m == i + 1
  <2>1. m \in 1..(Len(s) + 1) /\ n \in (m - 1)..Len(s)
    BY <1>2
  <2> HIDE DEF m, n
  <2>2. /\ SubSeq(s, m, n) \in Seq(Nat)
        /\ Len(SubSeq(s, m, n)) = n - m + 1
        /\ \A j \in 1..(n - m + 1) : SubSeq(s, m, n)[j] = s[m + j - 1]
    BY <2>1, SubSeqProperties
  <2> QED BY <2>2 DEF m
<1> HIDE DEF n
<1>4. \A j \in 1..(n - i) : SubSeq(s, i + 1, n)[j] = s[i + j]
  BY <1>2, <1>3
<1> QED BY <1>1, <1>2, <1>3, <1>4 DEF n

LEMMA UptoShape ==
  ASSUME NEW s \in Seq(Nat), NEW i \in 0..Len(s)
  PROVE  /\ Upto(s, i) \in Seq(Nat) /\ Len(Upto(s, i)) = i
         /\ \A j \in 1..i : Upto(s, i)[j] = s[j]
BY DEF Upto

IsJoined(s, u, v) ==
  /\ s \in Seq(Nat)
  /\ Len(s) = Len(u) + Len(v)
  /\ \A j \in 1..Len(u) : s[j] = u[j]
  /\ \A j \in 1..Len(v) : s[Len(u) + j] = v[j]

LEMMA JoinedShape ==
  ASSUME NEW u \in Seq(Nat), NEW v \in Seq(Nat) PROVE IsJoined(u \o v, u, v)
BY DEF IsJoined

\* The lines of x, with y's next o lines for x's next d at index i.
IsStitch(s, x, y, i, o, d) ==
  /\ s \in Seq(Nat)
  /\ Len(s) = Len(x) + o - d
  /\ \A j \in 1..i : s[j] = x[j]
  /\ \A j \in (i + 1)..(i + o) : s[j] = y[j]
  /\ \A j \in (i + o + 1)..(Len(x) + o - d) : s[j] = x[j - o + d]

LEMMA StitchShape ==
  ASSUME NEW x \in Seq(Nat), NEW y \in Seq(Nat), NEW i \in 0..Len(x), i <= Len(y),
         NEW o \in 0..(Len(y) - i), NEW d \in Int, 0 <= i + d, i + d <= Len(x)
  PROVE  IsStitch(Upto(x, i) \o SubSeq(y, i + 1, i + o) \o From(x, i + d), x, y, i, o, d)
<1> DEFINE u == Upto(x, i)
           v == SubSeq(y, i + 1, i + o)
           w == From(x, i + d)
           s == (u \o v) \o w
<1>1. u \in Seq(Nat) /\ Len(u) = i /\ \A j \in 1..i : u[j] = x[j]
  BY UptoShape
<1>2. v \in Seq(Nat) /\ Len(v) = o /\ \A j \in 1..o : v[j] = y[i + j]
  <2>1. i + 1 \in 1..(Len(y) + 1) /\ i + o \in 0..Len(y) /\ Len(y) \in Nat
    OBVIOUS
  <2>2. v \in Seq(Nat)
    BY <2>1
  <2>3. Len(v) = o
    BY <2>1
  <2>4. \A j \in 1..o : v[j] = y[i + j]
    BY <2>1
  <2> QED BY <2>2, <2>3, <2>4
<1>3. /\ w \in Seq(Nat) /\ Len(w) = Len(x) - (i + d)
      /\ \A j \in 1..(Len(x) - (i + d)) : w[j] = x[i + d + j]
  <2>1. i + d \in 0..Len(x)
    OBVIOUS
  <2> QED BY <2>1, FromShape
<1> HIDE DEF u, v, w
<1>4. IsJoined(u \o v, u, v) /\ u \o v \in Seq(Nat)
  BY <1>1, <1>2, JoinedShape
<1>5. IsJoined(s, u \o v, w)
  BY <1>3, <1>4, JoinedShape
<1>6. s \in Seq(Nat) /\ Len(u \o v) = i + o /\ Len(s) = Len(x) + o - d
  BY <1>1, <1>2, <1>3, <1>4, <1>5 DEF IsJoined
<1> HIDE DEF s
<1> DEFINE uv == u \o v
<1>7. /\ \A j \in 1..i : uv[j] = x[j]
      /\ \A j \in 1..o : uv[i + j] = y[i + j]
  BY <1>1, <1>2, <1>4 DEF IsJoined
<1>8. /\ \A j \in 1..(i + o) : s[j] = uv[j]
      /\ \A j \in 1..(Len(x) - (i + d)) : s[i + o + j] = x[i + d + j]
  BY <1>3, <1>5, <1>6 DEF IsJoined
<1> HIDE DEF uv
<1>9. \A j \in 1..i : s[j] = x[j]
  BY <1>7, <1>8
<1>10. \A j \in (i + 1)..(i + o) : s[j] = y[j]
  <2>1. \A j \in (i + 1)..(i + o) : j - i \in 1..o /\ i + (j - i) = j /\ j \in 1..(i + o)
    OBVIOUS
  <2> QED BY <1>7, <1>8, <2>1
<1>11. \A j \in (i + o + 1)..(Len(x) + o - d) : s[j] = x[j - o + d]
  <2>1. ASSUME NEW j \in (i + o + 1)..(Len(x) + o - d)
        PROVE  /\ j - i - o \in 1..(Len(x) - (i + d)) /\ i + o + (j - i - o) = j
               /\ i + d + (j - i - o) = j - o + d
    OBVIOUS
  <2> QED BY <1>8, <2>1
<1>12. IsStitch(s, x, y, i, o, d)
  BY <1>6, <1>9, <1>10, <1>11 DEF IsStitch
<1> QED BY <1>12 DEF s, u, v, w

\* Where y and x meet again after the issue at index i: y[i + o], x[i + d].
IsMeeting(m, y, x, i) ==
  /\ m.offset \in 0..(Len(y) - i) /\ m.index \in -1..(Len(x) - i - 1)
  /\ m.index = -1 => m.offset = Len(y) - i
  /\ m.index = -1 => \A j \in (i + 1)..Len(y), k \in (i + 1)..Len(x) : y[j] # x[k]
  /\ m.index # -1 => /\ m.offset < Len(y) - i
                     /\ y[i + m.offset + 1] = x[i + m.index + 1]
  /\ m.index # -1 =>
       \A j \in (i + 1)..(i + m.offset), k \in (i + 1)..Len(x) : y[j] # x[k]

LEMMA Meeting ==
  ASSUME NEW x \in Seq(Nat), NEW y \in Seq(Nat), NEW i \in 0..Len(x), i <= Len(y)
  PROVE  IsMeeting(findNextMatching(From(y, i), From(x, i)), y, x, i)
<1> DEFINE a == From(y, i)
           b == From(x, i)
           m == findNextMatching(a, b)
<1>0. Len(x) \in Nat /\ Len(y) \in Nat /\ i \in 0..Len(y)
  OBVIOUS
<1>1. /\ a \in Seq(Nat) /\ Len(a) = Len(y) - i
      /\ \A j \in 1..(Len(y) - i) : a[j] = y[i + j]
  BY <1>0, FromShape
<1>2. /\ b \in Seq(Nat) /\ Len(b) = Len(x) - i
      /\ \A j \in 1..(Len(x) - i) : b[j] = x[i + j]
  BY <1>0, FromShape
<1> HIDE DEF a, b
<1>3. IsMatch(m, a, b)
  BY <1>1, <1>2, Match
<1> HIDE DEF m
<1>4. m.offset \in 0..(Len(y) - i) /\ m.index \in -1..(Len(x) - i - 1)
  BY <1>1, <1>2, <1>3 DEF IsMatch
<1>5. /\ \A j \in (i + 1)..Len(y) : j - i \in 1..(Len(y) - i) /\ i + (j - i) = j
      /\ \A j \in (i + 1)..Len(x) : j - i \in 1..(Len(x) - i) /\ i + (j - i) = j
  BY <1>0
<1>6. /\ \A j \in (i + 1)..Len(y) : a[j - i] = y[j]
      /\ \A j \in (i + 1)..Len(x) : b[j - i] = x[j]
  BY <1>1, <1>2, <1>5
<1>7. CASE m.index = -1
  <2>1. m.offset = Len(y) - i
    BY <1>1, <1>3, <1>7 DEF IsMatch
  <2>2. \A j \in 1..Len(a), k \in 1..Len(b) : a[j] # b[k]
    BY <1>3, <1>7 DEF IsMatch
  <2>3. \A j \in (i + 1)..Len(y), k \in (i + 1)..Len(x) : y[j] # x[k]
    <3> SUFFICES ASSUME NEW j \in (i + 1)..Len(y), NEW k \in (i + 1)..Len(x)
                 PROVE  y[j] # x[k]
      OBVIOUS
    <3>1. j - i \in 1..Len(a) /\ k - i \in 1..Len(b)
      BY <1>1, <1>2, <1>5
    <3>2. a[j - i] # b[k - i]
      BY <2>2, <3>1, Zenon
    <3> QED BY <1>6, <3>2, Zenon
  <2>4. IsMeeting(m, y, x, i)
    BY <1>4, <1>7, <2>1, <2>3 DEF IsMeeting
  <2> QED BY <2>4 DEF m, a, b
<1>8. CASE m.index # -1
  <2>1. m.offset < Len(y) - i /\ a[m.offset + 1] = b[m.index + 1]
    BY <1>1, <1>3, <1>8 DEF IsMatch
  <2>2. \A j \in 1..m.offset, k \in 1..Len(b) : a[j] # b[k]
    BY <1>3, <1>8 DEF IsMatch
  <2> DEFINE o == m.offset
             d == m.index
  <2>0. o \in Nat /\ d \in Nat /\ o < Len(y) - i /\ d < Len(x) - i
    BY <1>0, <1>4, <1>8, <2>1
  <2>4. y[i + m.offset + 1] = x[i + m.index + 1]
    <3> HIDE DEF o, d
    <3>1. i + o + 1 \in (i + 1)..Len(y) /\ (i + o + 1) - i = o + 1
      BY <1>0, <2>0
    <3>2. i + d + 1 \in (i + 1)..Len(x) /\ (i + d + 1) - i = d + 1
      BY <1>0, <2>0
    <3>3. a[o + 1] = b[d + 1]
      BY <2>1 DEF o, d
    <3>4. a[(i + o + 1) - i] = y[i + o + 1] /\ b[(i + d + 1) - i] = x[i + d + 1]
      BY <1>6, <3>1, <3>2
    <3>5. a[o + 1] = y[i + o + 1] /\ b[d + 1] = x[i + d + 1]
      BY <3>1, <3>2, <3>4
    <3> QED BY <3>3, <3>5 DEF o, d
  <2>5. ASSUME NEW j \in (i + 1)..(i + m.offset), NEW k \in (i + 1)..Len(x) PROVE y[j] # x[k]
    <3>0. j \in (i + 1)..(i + o)
      OBVIOUS
    <3> HIDE DEF o, d
    <3>1. j \in (i + 1)..Len(y) /\ j - i \in 1..o /\ k - i \in 1..(Len(x) - i)
      BY <1>0, <2>0, <3>0
    <3>2. a[j - i] # b[k - i]
      BY <1>2, <2>2, <3>1 DEF o
    <3> QED BY <1>6, <3>1, <3>2
  <2>6. IsMeeting(m, y, x, i)
    BY <1>4, <1>8, <2>1, <2>4, <2>5 DEF IsMeeting
  <2> QED BY <2>6 DEF m, a, b
<1> QED BY <1>7, <1>8

-----------------------------------------------------------------------------
(* What one fix does. *)

\* No line of x is in y, from index i on.
Apart(x, y, i) == \A j \in (i + 1)..Len(x), k \in (i + 1)..Len(y) : x[j] # y[k]

\* s is x with the lines of y up to the next common one at index i.
Inserts(s, x, y, i) ==
  \E o, d \in Nat :
    /\ o # 0 /\ i + o < Len(y) /\ i + d < Len(x)
    /\ y[i + o + 1] = x[i + d + 1]
    /\ \A j \in (i + 1)..(i + o), k \in (i + 1)..Len(x) : y[j] # x[k]
    /\ IsStitch(s, x, y, i, o, d)

\* s is x with the rest of y at index i; the line before is there twice.
Appends(s, x, y, i) ==
  /\ i # 0 /\ Apart(x, y, i)
  /\ IsStitch(s, x, y, i, Len(y) - i, -1)

FixOutcome(f, x, y, i) ==
  \/ /\ f = [x |-> x, y |-> y, changed |-> FALSE, panic |-> FALSE]
     /\ \E k \in (i + 1)..Len(x) : x[k] = y[i + 1]
     /\ \E k \in (i + 1)..Len(y) : y[k] = x[i + 1]
  \/ /\ f = [x |-> x, y |-> y, changed |-> FALSE, panic |-> TRUE]
     /\ i = 0 /\ Apart(x, y, 0)
  \/ \E s \in Seq(Nat) :
       /\ f = [x |-> s, y |-> y, changed |-> TRUE, panic |-> FALSE]
       /\ Inserts(s, x, y, i) \/ Appends(s, x, y, i)
  \/ \E s \in Seq(Nat) :
       /\ f = [x |-> x, y |-> s, changed |-> TRUE, panic |-> FALSE]
       /\ Inserts(s, y, x, i)

LEMMA LacksMeans ==
  ASSUME NEW x \in Seq(Nat), NEW y \in Seq(Nat), NEW i \in 0..Len(x)
  PROVE  Lacks(x, y, i) <=> \A k \in (i + 1)..Len(x) : x[k] # y[i + 1]
<1> DEFINE t == From(x, i)
<1>1. /\ t \in Seq(Nat) /\ Len(t) = Len(x) - i
      /\ \A j \in 1..(Len(x) - i) : t[j] = x[i + j]
  BY FromShape
<1>2. Len(x) \in Nat
  OBVIOUS
<1>3. Lacks(x, y, i) <=> findLineIndex(y[i + 1], t) = -1
  BY DEF Lacks, At
<1> HIDE DEF t
<1>4. IsIndexOf(findLineIndex(y[i + 1], t), y[i + 1], t)
  BY <1>1, LineIndex
<1>5. \A k \in (i + 1)..Len(x) : k - i \in 1..(Len(x) - i) /\ i + (k - i) = k
  BY <1>2
<1>6. \A k \in (i + 1)..Len(x) : x[k] = t[k - i]
  BY <1>1, <1>5
<1>7. ASSUME Lacks(x, y, i) PROVE \A k \in (i + 1)..Len(x) : x[k] # y[i + 1]
  <2>1. \A j \in 1..Len(t) : t[j] # y[i + 1]
    BY <1>3, <1>4, <1>7 DEF IsIndexOf
  <2> SUFFICES ASSUME NEW k \in (i + 1)..Len(x) PROVE x[k] # y[i + 1]
    OBVIOUS
  <2>2. k - i \in 1..Len(t)
    BY <1>1, <1>5
  <2> QED BY <1>6, <2>1, <2>2, Zenon
<1>8. ASSUME \A k \in (i + 1)..Len(x) : x[k] # y[i + 1] PROVE Lacks(x, y, i)
  <2> DEFINE f == findLineIndex(y[i + 1], t)
  <2>1. SUFFICES ASSUME f # -1 PROVE FALSE
    BY <1>3
  <2> HIDE DEF f
  <2>2. f \in 0..(Len(x) - i - 1) /\ t[f + 1] = y[i + 1]
    BY <1>1, <1>2, <1>4, <2>1 DEF IsIndexOf, f
  <2>3. f + 1 \in 1..(Len(x) - i) /\ i + (f + 1) \in (i + 1)..Len(x)
    <3> DEFINE n == Len(x)
    <3>1. f \in 0..(n - i - 1) /\ n \in Nat /\ i \in 0..n
      BY <1>2, <2>2, Zenon
    <3> HIDE DEF n
    <3>2. f + 1 \in 1..(n - i) /\ i + (f + 1) \in (i + 1)..n
      BY ONLY <3>1
    <3> QED BY <3>2, Zenon DEF n
  <2>4. t[f + 1] = x[i + (f + 1)]
    BY <1>1, <2>3
  <2> QED BY <1>8, <2>2, <2>3, <2>4
<1> QED BY <1>7, <1>8

LEMMA StitchCases ==
  ASSUME NEW x \in Seq(Nat), NEW y \in Seq(Nat), NEW i \in Nat, i < Len(x), i < Len(y),
         Lacks(x, y, i)
  PROVE  /\ StitchPanics(x, y, i) => i = 0 /\ Apart(x, y, 0)
         /\ ~StitchPanics(x, y, i) =>
              /\ Stitch(x, y, i) \in Seq(Nat)
              /\ Inserts(Stitch(x, y, i), x, y, i) \/ Appends(Stitch(x, y, i), x, y, i)
<1> DEFINE m == findNextMatching(From(y, i), From(x, i))
           o == m.offset
           d == m.index
           s == Upto(x, i) \o SubSeq(y, i + 1, i + o) \o From(x, i + d)
<1>0. Len(x) \in Nat /\ Len(y) \in Nat /\ i \in 0..Len(x)
  OBVIOUS
<1>1. StitchPanics(x, y, i) <=> i + d < 0
  BY DEF StitchPanics
<1>2. Stitch(x, y, i) = s
  BY DEF Stitch
<1>3. IsMeeting(m, y, x, i)
  BY <1>0, Meeting
<1> HIDE DEF m
<1>4. o \in 0..(Len(y) - i) /\ d \in -1..(Len(x) - i - 1)
  BY <1>3 DEF IsMeeting
<1>5. ASSUME i + d \geq 0 PROVE IsStitch(s, x, y, i, o, d)
  <2> HIDE DEF o, d
  <2>1. d \in Int /\ 0 <= i + d /\ i + d <= Len(x) /\ i <= Len(y)
    BY <1>0, <1>4, <1>5
  <2> QED BY <1>0, <1>4, <2>1, StitchShape
<1> HIDE DEF s
<1>6. CASE d = -1
  <2>1. o = Len(y) - i
    BY <1>3, <1>6 DEF IsMeeting
  <2>2. \A j \in (i + 1)..Len(y), k \in (i + 1)..Len(x) : y[j] # x[k]
    BY <1>3, <1>6 DEF IsMeeting
  <2>3. Apart(x, y, i)
    BY <2>2 DEF Apart
  <2>4. StitchPanics(x, y, i) <=> i = 0
    BY <1>1, <1>6
  <2>5. i # 0 => IsStitch(s, x, y, i, o, d)
    BY <1>5, <1>6
  <2> HIDE DEF o, d
  <2>6. i # 0 => IsStitch(s, x, y, i, Len(y) - i, -1)
    BY <1>6, <2>1, <2>5
  <2>7. i # 0 => Appends(s, x, y, i) /\ s \in Seq(Nat)
    BY <2>3, <2>6 DEF Appends, IsStitch
  <2> QED BY <1>2, <2>3, <2>4, <2>7
<1>7. CASE d # -1
  <2>1. o < Len(y) - i /\ y[i + o + 1] = x[i + d + 1]
    BY <1>3, <1>7 DEF IsMeeting
  <2>2. \A j \in (i + 1)..(i + o), k \in (i + 1)..Len(x) : y[j] # x[k]
    BY <1>3, <1>7 DEF IsMeeting
  <2>3. ~StitchPanics(x, y, i) /\ IsStitch(s, x, y, i, o, d)
    <3>1. d \in -1..(Len(x) - i - 1)
      BY <1>4, Zenon
    <3> HIDE DEF o, d
    <3>2. i + d \geq 0 /\ ~(i + d < 0)
      BY <1>7, <3>1
    <3>3. IsStitch(s, x, y, i, o, d)
      BY <1>5, <3>2, Zenon
    <3> QED BY <1>1, <3>2, <3>3
  <2> HIDE DEF o, d
  <2>4. o \in Nat /\ d \in Nat /\ i + o < Len(y) /\ i + d < Len(x)
    <3>1. o \in Nat /\ i + o < Len(y)
      BY ONLY <1>0, <1>4, <2>1, i \in Nat
    <3>2. d \in Nat /\ i + d < Len(x)
      BY ONLY <1>0, <1>4, <1>7, i \in Nat
    <3> QED BY <3>1, <3>2
  <2>5. \A k \in (i + 1)..Len(x) : x[k] # y[i + 1]
    BY <1>0, LacksMeans
  <2>6. o # 0
    <3>1. i + d + 1 \in (i + 1)..Len(x)
      BY <1>0, <2>4
    <3>2. o = 0 => i + o + 1 = i + 1
      OBVIOUS
    <3> QED BY <2>1, <2>5, <3>1, <3>2
  <2>7. Inserts(s, x, y, i)
    BY <2>1, <2>2, <2>3, <2>4, <2>6 DEF Inserts
  <2>8. s \in Seq(Nat)
    BY <2>3 DEF IsStitch
  <2> QED BY <1>2, <2>3, <2>7, <2>8
<1> QED BY <1>6, <1>7

LEMMA FixLines ==
  ASSUME NEW x \in Seq(Nat), NEW y \in Seq(Nat), NEW i \in Nat, IsIssue(i, x, y)
  PROVE  FixOutcome(fixLines(x, y, i), x, y, i)
<1> DEFINE f == fixLines(x, y, i)
<1>0. /\ Len(x) \in Nat /\ Len(y) \in Nat
      /\ i < Len(x) /\ i < Len(y) /\ x[i + 1] # y[i + 1]
      /\ i \in 0..Len(x) /\ i \in 0..Len(y)
  BY DEF IsIssue
<1>1. At(x, i) # At(y, i)
  BY <1>0 DEF At
<1>2. CASE Lacks(x, y, i)
  <2>1. f = IF StitchPanics(x, y, i)
              THEN [x |-> x, y |-> y, changed |-> FALSE, panic |-> TRUE]
              ELSE [x |-> Stitch(x, y, i), y |-> y, changed |-> TRUE, panic |-> FALSE]
    BY <1>1, <1>2, Zenon DEF fixLines
  <2> HIDE DEF f
  <2>2. /\ StitchPanics(x, y, i) => i = 0 /\ Apart(x, y, 0)
        /\ ~StitchPanics(x, y, i) =>
              /\ Stitch(x, y, i) \in Seq(Nat)
              /\ Inserts(Stitch(x, y, i), x, y, i) \/ Appends(Stitch(x, y, i), x, y, i)
    BY <1>0, <1>2, StitchCases, Zenon
  <2>3. FixOutcome(f, x, y, i)
    BY <2>1, <2>2, Zenon DEF FixOutcome
  <2> QED BY <2>3 DEF f
<1>3. CASE ~Lacks(x, y, i) /\ Lacks(y, x, i)
  <2>1. f = IF StitchPanics(y, x, i)
              THEN [x |-> x, y |-> y, changed |-> FALSE, panic |-> TRUE]
              ELSE [x |-> x, y |-> Stitch(y, x, i), changed |-> TRUE, panic |-> FALSE]
    BY <1>1, <1>3, Zenon DEF fixLines
  <2> HIDE DEF f
  <2>2. PICK k \in (i + 1)..Len(x) : x[k] = y[i + 1]
    BY <1>0, <1>3, LacksMeans
  <2>3. ~Apart(y, x, i)
    <3>1. i + 1 \in (i + 1)..Len(y)
      BY <1>0
    <3> QED BY <2>2, <3>1 DEF Apart
  <2>4. /\ StitchPanics(y, x, i) => i = 0 /\ Apart(y, x, 0)
        /\ ~StitchPanics(y, x, i) =>
              /\ Stitch(y, x, i) \in Seq(Nat)
              /\ Inserts(Stitch(y, x, i), y, x, i) \/ Appends(Stitch(y, x, i), y, x, i)
    BY <1>0, <1>3, StitchCases, Zenon
  <2>5. ~StitchPanics(y, x, i) /\ ~Appends(Stitch(y, x, i), y, x, i)
    BY <2>3, <2>4 DEF Appends
  <2>6. FixOutcome(f, x, y, i)
    BY <2>1, <2>4, <2>5, Zenon DEF FixOutcome
  <2> QED BY <2>6 DEF f
<1>4. CASE ~Lacks(x, y, i) /\ ~Lacks(y, x, i)
  <2>1. f = [x |-> x, y |-> y, changed |-> FALSE, panic |-> FALSE]
    BY <1>1, <1>4, Zenon DEF fixLines
  <2>2. \E k \in (i + 1)..Len(x) : x[k] = y[i + 1]
    BY <1>0, <1>4, LacksMeans
  <2>3. \E k \in (i + 1)..Len(y) : y[k] = x[i + 1]
    BY <1>0, <1>4, LacksMeans
  <2> HIDE DEF f
  <2>4. FixOutcome(f, x, y, i)
    BY <2>1, <2>2, <2>3, Zenon DEF FixOutcome
  <2> QED BY <2>4 DEF f
<1> QED BY <1>2, <1>3, <1>4

LEMMA IssueSymmetric ==
  ASSUME NEW x \in Seq(Nat), NEW y \in Seq(Nat), NEW i, IsIssue(i, x, y)
  PROVE  IsIssue(i, y, x)
<1>1. Len(x) \in Nat /\ Len(y) \in Nat
  OBVIOUS
<1>2. i = -1 => \A j \in 1..Len(y) : j <= Len(x) => y[j] = x[j]
  <2>1. i = -1 => \A j \in 1..Len(x) : j <= Len(y) => x[j] = y[j]
    BY DEF IsIssue
  <2>2. \A j \in 1..Len(y) : j <= Len(x) => j \in 1..Len(x) /\ j <= Len(y)
    BY <1>1
  <2> QED BY <2>1, <2>2
<1>3. i # -1 => i < Len(y) /\ i < Len(x) /\ y[i + 1] # x[i + 1]
  BY DEF IsIssue
<1>4. i # -1 => \A j \in 1..i : y[j] = x[j]
  BY DEF IsIssue
<1> QED BY <1>2, <1>3, <1>4 DEF IsIssue

\* s is x with some lines of y in place of its own, and agrees with y longer.
AgreesLonger(s, x, y, i) ==
  \E o, d \in Nat :
    /\ o # 0 /\ i + o < Len(y) /\ i + d < Len(x)
    /\ s \in Seq(Nat) /\ Len(s) = Len(x) + o - d
    /\ \A j \in 1..(i + o + 1) : s[j] = y[j]

(* What was inserted is no issue any more.                                 *)
LEMMA InsertsAgree ==
  ASSUME NEW x \in Seq(Nat), NEW y \in Seq(Nat), NEW i \in Nat, IsIssue(i, x, y),
         NEW s, Inserts(s, x, y, i)
  PROVE  AgreesLonger(s, x, y, i)
<1>1. PICK o \in Nat, d \in Nat :
        /\ o # 0 /\ i + o < Len(y) /\ i + d < Len(x)
        /\ y[i + o + 1] = x[i + d + 1]
        /\ IsStitch(s, x, y, i, o, d)
  BY DEF Inserts
<1>2. Len(x) \in Nat /\ Len(y) \in Nat
  OBVIOUS
<1>3. /\ s \in Seq(Nat) /\ Len(s) = Len(x) + o - d
      /\ \A j \in 1..i : s[j] = x[j]
      /\ \A j \in (i + 1)..(i + o) : s[j] = y[j]
  BY <1>1 DEF IsStitch
<1>4. \A j \in (i + o + 1)..(Len(x) + o - d) : s[j] = x[j - o + d]
  BY <1>1 DEF IsStitch
<1>5. \A j \in 1..i : x[j] = y[j]
  BY DEF IsIssue
<1>6. s[i + o + 1] = y[i + o + 1]
  <2>1. i + o + 1 \in (i + o + 1)..(Len(x) + o - d) /\ (i + o + 1) - o + d = i + d + 1
    BY <1>1, <1>2
  <2>2. s[i + o + 1] = x[(i + o + 1) - o + d]
    BY <1>4, <2>1
  <2> QED BY <1>1, <2>1, <2>2
<1>7. ASSUME NEW j \in 1..(i + o + 1) PROVE s[j] = y[j]
  <2>1. j \in 1..i \/ j \in (i + 1)..(i + o) \/ j = i + o + 1
    OBVIOUS
  <2> QED BY <1>3, <1>5, <1>6, <2>1
<1> QED BY <1>1, <1>3, <1>7 DEF AgreesLonger

LEMMA AppendsAgree ==
  ASSUME NEW x \in Seq(Nat), NEW y \in Seq(Nat), NEW i \in Nat, IsIssue(i, x, y),
         NEW s, Appends(s, x, y, i)
  PROVE  /\ s \in Seq(Nat) /\ Len(s) = Len(y) + (Len(x) - i + 1)
         /\ \A j \in 1..Len(y) : s[j] = y[j]
<1>1. Len(x) \in Nat /\ Len(y) \in Nat /\ i < Len(y) /\ i < Len(x)
  BY DEF IsIssue
<1>2. IsStitch(s, x, y, i, Len(y) - i, -1)
  BY DEF Appends
<1>3. /\ s \in Seq(Nat) /\ Len(s) = Len(x) + (Len(y) - i) - (-1)
      /\ \A j \in 1..i : s[j] = x[j]
      /\ \A j \in (i + 1)..(i + (Len(y) - i)) : s[j] = y[j]
  BY <1>2 DEF IsStitch
<1>4. \A j \in 1..i : x[j] = y[j]
  BY DEF IsIssue
<1>5. \A j \in 1..Len(y) : j \in 1..i \/ j \in (i + 1)..(i + (Len(y) - i))
  BY <1>1
<1>6. Len(x) + (Len(y) - i) - (-1) = Len(y) + (Len(x) - i + 1)
  BY <1>1
<1> QED BY <1>3, <1>4, <1>5, <1>6

-----------------------------------------------------------------------------
(* The loop of processOverlap: the pair of slices it has in hand.          *)

Pairs == Seq(Nat) \X Seq(Nat)
IssueOf(p) == findFirstIssueIndex(p[1], p[2])
Fixed(p) == fixLines(p[1], p[2], IssueOf(p))
Stops(p) == IssueOf(p) = -1 \/ Fixed(p).panic \/ ~Fixed(p).changed
Ended(p) ==
  IF IssueOf(p) = -1
    THEN [x |-> p[1], y |-> p[2], issue |-> -1, panic |-> FALSE]
    ELSE [x |-> p[1], y |-> p[2], issue |-> IssueOf(p), panic |-> Fixed(p).panic]
After(p) == <<Fixed(p).x, Fixed(p).y>>

LEMMA FixedPair ==
  ASSUME NEW p \in Pairs
  PROVE  /\ p[1] \in Seq(Nat) /\ p[2] \in Seq(Nat) /\ p = <<p[1], p[2]>>
         /\ IsIssue(IssueOf(p), p[1], p[2])
         /\ IssueOf(p) # -1 => FixOutcome(Fixed(p), p[1], p[2], IssueOf(p))
<1>1. p[1] \in Seq(Nat) /\ p[2] \in Seq(Nat) /\ p = <<p[1], p[2]>>
  BY DEF Pairs
<1>2. IsIssue(IssueOf(p), p[1], p[2])
  BY <1>1, Issue DEF IssueOf
<1>3. IssueOf(p) # -1 => IssueOf(p) \in Nat
  BY <1>2 DEF IsIssue
<1>4. IssueOf(p) # -1 => FixOutcome(Fixed(p), p[1], p[2], IssueOf(p))
  BY <1>1, <1>2, <1>3, FixLines DEF Fixed
<1> QED BY <1>1, <1>2, <1>4

(* One more turn of the loop.                                              *)
LEMMA Turn ==
  ASSUME NEW p \in Pairs, ~Stops(p)
  PROVE  /\ IssueOf(p) \in Nat
         /\ \/ \E s \in Seq(Nat) :
                 /\ After(p) = <<s, p[2]>>
                 /\ Inserts(s, p[1], p[2], IssueOf(p)) \/ Appends(s, p[1], p[2], IssueOf(p))
            \/ \E s \in Seq(Nat) :
                 After(p) = <<p[1], s>> /\ Inserts(s, p[2], p[1], IssueOf(p))
<1>1. IssueOf(p) # -1 /\ ~Fixed(p).panic /\ Fixed(p).changed
  BY DEF Stops
<1>2. IsIssue(IssueOf(p), p[1], p[2]) /\ FixOutcome(Fixed(p), p[1], p[2], IssueOf(p))
  BY <1>1, FixedPair
<1>3. IssueOf(p) \in Nat
  BY <1>1, <1>2 DEF IsIssue
<1>4. \/ \E s \in Seq(Nat) :
           /\ Fixed(p) = [x |-> s, y |-> p[2], changed |-> TRUE, panic |-> FALSE]
           /\ Inserts(s, p[1], p[2], IssueOf(p)) \/ Appends(s, p[1], p[2], IssueOf(p))
      \/ \E s \in Seq(Nat) :
           /\ Fixed(p) = [x |-> p[1], y |-> s, changed |-> TRUE, panic |-> FALSE]
           /\ Inserts(s, p[2], p[1], IssueOf(p))
  BY <1>1, <1>2 DEF FixOutcome
<1> QED BY <1>3, <1>4 DEF After

LEMMA AfterPair ==
  ASSUME NEW p \in Pairs, ~Stops(p) PROVE After(p) \in Pairs
<1>1. p[1] \in Seq(Nat) /\ p[2] \in Seq(Nat)
  BY DEF Pairs
<1> QED BY <1>1, Turn DEF Pairs

LEMMA FixAllEquation ==
  \A p \in Pairs : FixAll[p] = IF Stops(p) THEN Ended(p) ELSE FixAll[After(p)]
<1> DEFINE next == [p \in Pairs |-> IF Stops(p) THEN p ELSE After(p)]
           stop == {p \in Pairs : Stops(p)}
           v == [p \in Pairs |-> Ended(p)]
           Body(f) == [p \in Seq(Nat) \X Seq(Nat) |->
             IF findFirstIssueIndex(p[1], p[2]) = -1
               THEN [x |-> p[1], y |-> p[2], issue |-> -1, panic |-> FALSE]
               ELSE IF \/ fixLines(p[1], p[2], findFirstIssueIndex(p[1], p[2])).panic
                       \/ ~fixLines(p[1], p[2], findFirstIssueIndex(p[1], p[2])).changed
                 THEN [x |-> p[1], y |-> p[2], issue |-> findFirstIssueIndex(p[1], p[2]),
                       panic |-> fixLines(p[1], p[2], findFirstIssueIndex(p[1], p[2])).panic]
                 ELSE f[<<fixLines(p[1], p[2], findFirstIssueIndex(p[1], p[2])).x,
                          fixLines(p[1], p[2], findFirstIssueIndex(p[1], p[2])).y>>]]
<1>1. next \in [Pairs -> Pairs]
  BY AfterPair
<1>2. PICK g : IsLoop(g, Pairs, next, stop, v)
  <2>1. stop \in SUBSET Pairs
    OBVIOUS
  <2> HIDE DEF next, v, stop
  <2> QED BY <1>1, <2>1, LoopExists
<1>3. FixAll = CHOOSE f : f = Body(f)
  BY Zenon DEF FixAll
<1>4. ASSUME NEW f PROVE
        Body(f) = [p \in Pairs |-> IF Stops(p) THEN Ended(p) ELSE f[After(p)]]
  BY Zenon DEF Pairs, Stops, Ended, After, Fixed, IssueOf
<1>5. g = Body(g)
  <2>0. g = [p \in Pairs |-> IF p \in stop THEN v[p] ELSE g[next[p]]]
    <3> HIDE DEF next, stop, v
    <3> QED BY <1>2 DEF IsLoop
  <2>1. \A p \in Pairs : g[p] = IF p \in stop THEN v[p] ELSE g[next[p]]
    <3> HIDE DEF next, stop, v
    <3> QED BY <2>0
  <2>2. \A p \in Pairs : g[p] = IF Stops(p) THEN Ended(p) ELSE g[After(p)]
    BY <2>1
  <2> HIDE DEF Body
  <2>3. g = [p \in Pairs |-> IF Stops(p) THEN Ended(p) ELSE g[After(p)]]
    <3> HIDE DEF next, stop, v
    <3> QED BY <2>0, <2>2
  <2> QED BY <1>4, <2>3
<1> HIDE DEF Body
<1>6. FixAll = Body(FixAll)
  BY <1>3, <1>5
<1>7. FixAll = [p \in Pairs |-> IF Stops(p) THEN Ended(p) ELSE FixAll[After(p)]]
  BY <1>4, <1>6
<1> QED BY <1>7

\* The lines still to compare: every turn leaves fewer.
Left(p) == IF IssueOf(p) = -1 THEN 0 ELSE Len(p[1]) + Len(p[2]) - IssueOf(p)

LEMMA LeftNat == \A q \in Pairs : Left(q) \in Nat
<1> SUFFICES ASSUME NEW q \in Pairs PROVE Left(q) \in Nat
  OBVIOUS
<1>1. /\ q[1] \in Seq(Nat) /\ q[2] \in Seq(Nat)
      /\ IsIssue(IssueOf(q), q[1], q[2])
  BY FixedPair
<1> DEFINE m == Len(q[1])
           n == Len(q[2])
           i == IssueOf(q)
<1>2. Left(q) = IF i = -1 THEN 0 ELSE m + n - i
  BY DEF Left
<1>3. i # -1 => m \in Nat /\ n \in Nat /\ i \in Nat /\ i < m
  BY <1>1, IssueBounds, Zenon
<1> HIDE DEF m, n, i
<1> QED BY ONLY <1>2, <1>3

LEMMA Agreed ==
  ASSUME NEW s \in Seq(Nat), NEW t \in Seq(Nat), NEW n \in Nat,
         \A j \in 1..n : s[j] = t[j]
  PROVE  LET i == findFirstIssueIndex(s, t) IN i = -1 \/ (i \in Nat /\ i >= n)
<1> DEFINE i == findFirstIssueIndex(s, t)
<1>1. IsIssue(i, s, t)
  BY Issue
<1> HIDE DEF i
<1>2. i # -1 => i \in Nat /\ s[i + 1] # t[i + 1]
  BY <1>1 DEF IsIssue
<1>3. i \in Nat /\ i < n => i + 1 \in 1..n
  OBVIOUS
<1>4. i = -1 \/ (i \in Nat /\ i >= n)
  BY <1>2, <1>3
<1> QED BY <1>4 DEF i

LEMMA Fewer ==
  ASSUME NEW p \in Pairs, ~Stops(p)
  PROVE  Left(After(p)) \in Nat /\ Left(p) \in Nat /\ Left(After(p)) < Left(p)
<1> DEFINE x == p[1]
           y == p[2]
           i == IssueOf(p)
           q == After(p)
           k == IssueOf(q)
<1>1. /\ x \in Seq(Nat) /\ y \in Seq(Nat) /\ i \in Nat /\ IsIssue(i, x, y)
  BY FixedPair, Turn
<1>2. q \in Pairs /\ IsIssue(k, q[1], q[2])
  BY AfterPair, FixedPair
<1>3. /\ Len(x) \in Nat /\ Len(y) \in Nat /\ i < Len(x) /\ i < Len(y)
  <2>1. i # -1
    BY <1>1
  <2> QED BY <1>1, <2>1, IssueBounds, Zenon
<1>4. Left(p) = Len(x) + Len(y) - i
  BY <1>1 DEF Left
<1>5. /\ Left(q) = IF k = -1 THEN 0 ELSE Len(q[1]) + Len(q[2]) - k
      /\ k = -1 \/ (k \in Nat /\ k < Len(q[1]) /\ k < Len(q[2]))
  BY <1>2 DEF Left, IsIssue
<1>6. k = findFirstIssueIndex(q[1], q[2])
  BY DEF IssueOf
<1> HIDE DEF x, y, i, k, q
<1>7. CASE \E s \in Seq(Nat) : q = <<s, y>> /\ Inserts(s, x, y, i)
  <2>1. PICK s \in Seq(Nat) : q = <<s, y>> /\ Inserts(s, x, y, i)
    BY <1>7
  <2>0. AgreesLonger(s, x, y, i)
    BY <1>1, <2>1, InsertsAgree
  <2>2. PICK o \in Nat, d \in Nat :
          /\ o # 0 /\ i + o < Len(y) /\ i + d < Len(x)
          /\ s \in Seq(Nat) /\ Len(s) = Len(x) + o - d
          /\ \A j \in 1..(i + o + 1) : s[j] = y[j]
    BY <2>0 DEF AgreesLonger
  <2>3. q[1] = s /\ q[2] = y
    BY <2>1
  <2>4. i + o + 1 \in Nat
    BY <1>1
  <2>5. k = -1 \/ (k \in Nat /\ k >= i + o + 1)
    BY <1>1, <1>6, <2>2, <2>3, <2>4, Agreed
  <2>6. Left(q) = IF k = -1 THEN 0 ELSE (Len(x) + o - d) + Len(y) - k
    BY <1>5, <2>2, <2>3
  <2>7. k = -1 \/ (k \in Nat /\ k < Len(y))
    BY <1>5, <2>3
  <2>8. Left(q) \in Nat /\ Left(q) < Left(p)
    <3>1. i + o < Len(y) /\ i + d < Len(x) /\ o \in Nat /\ d \in Nat
      BY <2>2
    <3>2. CASE k = -1
      BY ONLY <1>1, <1>3, <1>4, <2>6, <3>2
    <3>3. CASE k # -1
      <4>1. Left(q) = (Len(x) + o - d) + Len(y) - k /\ k \in Nat /\ k < Len(y) /\ k >= i + o + 1
        BY <2>5, <2>6, <2>7, <3>3
      <4> QED BY ONLY <1>1, <1>3, <1>4, <3>1, <4>1
    <3> QED BY <3>2, <3>3
  <2> QED BY <1>1, <1>3, <1>4, <2>8 DEF q
<1>8. CASE \E s \in Seq(Nat) : q = <<x, s>> /\ Inserts(s, y, x, i)
  <2>1. PICK s \in Seq(Nat) : q = <<x, s>> /\ Inserts(s, y, x, i)
    BY <1>8
  <2>0. AgreesLonger(s, y, x, i)
    BY <1>1, <2>1, IssueSymmetric, InsertsAgree
  <2>2. PICK o \in Nat, d \in Nat :
          /\ o # 0 /\ i + o < Len(x) /\ i + d < Len(y)
          /\ s \in Seq(Nat) /\ Len(s) = Len(y) + o - d
          /\ \A j \in 1..(i + o + 1) : s[j] = x[j]
    BY <2>0 DEF AgreesLonger
  <2>3. q[1] = x /\ q[2] = s /\ \A j \in 1..(i + o + 1) : x[j] = s[j]
    BY <2>1, <2>2
  <2>4. i + o + 1 \in Nat
    BY <1>1
  <2>5. k = -1 \/ (k \in Nat /\ k >= i + o + 1)
    BY <1>1, <1>6, <2>2, <2>3, <2>4, Agreed
  <2>6. Left(q) = IF k = -1 THEN 0 ELSE Len(x) + (Len(y) + o - d) - k
    BY <1>5, <2>2, <2>3
  <2>7. k = -1 \/ (k \in Nat /\ k < Len(x))
    BY <1>5, <2>3
  <2>8. Left(q) \in Nat /\ Left(q) < Left(p)
    <3>1. i + o < Len(x) /\ i + d < Len(y) /\ o \in Nat /\ d \in Nat
      BY <2>2
    <3>2. CASE k = -1
      BY ONLY <1>1, <1>3, <1>4, <2>6, <3>2
    <3>3. CASE k # -1
      <4>1. Left(q) = Len(x) + (Len(y) + o - d) - k /\ k \in Nat /\ k < Len(x) /\ k >= i + o + 1
        BY <2>5, <2>6, <2>7, <3>3
      <4> QED BY ONLY <1>1, <1>3, <1>4, <3>1, <4>1
    <3> QED BY <3>2, <3>3
  <2> QED BY <1>1, <1>3, <1>4, <2>8 DEF q
<1>9. CASE \E s \in Seq(Nat) : q = <<s, y>> /\ Appends(s, x, y, i)
  <2>1. PICK s \in Seq(Nat) : q = <<s, y>> /\ Appends(s, x, y, i)
    BY <1>9
  <2>2. /\ s \in Seq(Nat) /\ Len(s) = Len(y) + (Len(x) - i + 1)
        /\ \A j \in 1..Len(y) : s[j] = y[j]
    BY <1>1, <2>1, AppendsAgree
  <2>3. q[1] = s /\ q[2] = y
    BY <2>1
  <2>4. k = -1 \/ (k \in Nat /\ k >= Len(y))
    BY <1>1, <1>3, <1>6, <2>2, <2>3, Agreed
  <2>5. k = -1
    BY <1>3, <1>5, <2>3, <2>4
  <2> QED BY <1>1, <1>3, <1>4, <1>5, <2>5 DEF q
<1> QED BY <1>7, <1>8, <1>9, Turn DEF x, y, i, q

(* The loop ends, at a pair that every turn keeps.                         *)
LEMMA FixAllEnds ==
  ASSUME NEW I \in SUBSET Pairs, \A q \in I : ~Stops(q) => After(q) \in I, NEW p \in I
  PROVE  \E q \in I : Stops(q) /\ FixAll[p] = Ended(q)
<1> DEFINE Good(q) == \E r \in I : Stops(r) /\ FixAll[q] = Ended(r)
           D == {n \in Nat : \A q \in I : Left(q) = n => Good(q)}
<1>1. \A q \in Pairs : Left(q) \in Nat
  BY LeftNat
<1>2. ASSUME NEW n \in Nat, \A k \in Nat : k < n => k \in D PROVE n \in D
  <2> SUFFICES ASSUME NEW q \in I, Left(q) = n PROVE Good(q)
    OBVIOUS
  <2>1. CASE Stops(q)
    BY <2>1, FixAllEquation
  <2>2. CASE ~Stops(q)
    <3>1. After(q) \in I /\ Left(After(q)) \in Nat /\ Left(After(q)) < n
      BY <2>2, Fewer
    <3>2. FixAll[q] = FixAll[After(q)]
      BY <2>2, FixAllEquation
    <3>3. Good(After(q))
      BY <1>2, <3>1
    <3> QED BY <3>2, <3>3
  <2> QED BY <2>1, <2>2
<1>3. Nat \subseteq D
  <2> HIDE DEF D
  <2> QED BY <1>2, Every
<1> QED BY <1>1, <1>3

-----------------------------------------------------------------------------
(* DedupAB: it ends, too. *)

LinesOf(p) == ToSet(p[1]) \cup ToSet(p[2])

LEMMA Member ==
  ASSUME NEW s \in Seq(Nat)
  PROVE  /\ \A j \in 1..Len(s) : s[j] \in ToSet(s) /\ s[j] \in Nat
         /\ \A l \in ToSet(s) : \E j \in 1..Len(s) : s[j] = l
BY DEF ToSet

LEMMA LinesNat ==
  ASSUME NEW s \in Seq(Nat) PROVE ToSet(s) \in SUBSET Nat
BY DEF ToSet

LEMMA LinesJoined ==
  ASSUME NEW S, NEW u \in Seq(S), NEW v \in Seq(S)
  PROVE  ToSet(u \o v) = ToSet(u) \cup ToSet(v)
<1>1. \A s : ToSet(s) = Range(s)
  BY DEF ToSet, Range
<1> QED BY <1>1, RangeConcatenation

LEMMA LinesAppended ==
  ASSUME NEW S, NEW s \in Seq(S), NEW e \in S
  PROVE  ToSet(Append(s, e)) = ToSet(s) \cup {e}
<1>1. Append(s, e) = s \o <<e>> /\ <<e>> \in Seq(S)
  OBVIOUS
<1>2. ToSet(<<e>>) = {e}
  BY DEF ToSet
<1> DEFINE v == <<e>>
<1>3. ToSet(s \o v) = ToSet(s) \cup ToSet(v)
  <2>1. v \in Seq(S)
    BY <1>1
  <2> HIDE DEF v
  <2> QED BY <2>1, LinesJoined
<1> QED BY <1>1, <1>2, <1>3, Zenon

LEMMA FromTo ==
  ASSUME NEW s \in Seq(Nat), NEW i \in 0..Len(s)
  PROVE  ToSet(From(s, i)) \subseteq ToSet(s) /\ ToSet(Upto(s, i)) \subseteq ToSet(s)
<1>1. Len(s) \in Nat
  OBVIOUS
<1>2. ASSUME NEW l \in ToSet(From(s, i)) PROVE l \in ToSet(s)
  <2>1. PICK j \in 1..Len(From(s, i)) : From(s, i)[j] = l
    BY FromShape, Member
  <2>2. j \in 1..(Len(s) - i) /\ l = s[i + j]
    BY <2>1, FromShape
  <2>3. i + j \in 1..Len(s)
    BY <1>1, <2>2
  <2> QED BY <2>2, <2>3, Member
<1>3. ASSUME NEW l \in ToSet(Upto(s, i)) PROVE l \in ToSet(s)
  <2>1. PICK j \in 1..Len(Upto(s, i)) : Upto(s, i)[j] = l
    BY UptoShape, Member
  <2>2. j \in 1..i /\ l = s[j]
    BY <2>1, UptoShape
  <2>3. j \in 1..Len(s)
    BY <1>1, <2>2
  <2> QED BY <2>2, <2>3, Member
<1> QED BY <1>2, <1>3

LEMMA StitchLines ==
  ASSUME NEW x \in Seq(Nat), NEW y \in Seq(Nat), NEW i \in Nat, NEW o \in Nat, NEW d \in Int,
         i <= Len(x), i + o <= Len(y), 0 <= i + d, NEW s, IsStitch(s, x, y, i, o, d)
  PROVE  ToSet(s) \subseteq ToSet(x) \cup ToSet(y)
<1>1. /\ s \in Seq(Nat) /\ Len(s) = Len(x) + o - d
      /\ \A j \in 1..i : s[j] = x[j]
      /\ \A j \in (i + 1)..(i + o) : s[j] = y[j]
  BY DEF IsStitch
<1>2. \A j \in (i + o + 1)..(Len(x) + o - d) : s[j] = x[j - o + d]
  BY DEF IsStitch
<1>3. Len(x) \in Nat /\ Len(y) \in Nat
  OBVIOUS
<1> SUFFICES ASSUME NEW l \in ToSet(s) PROVE l \in ToSet(x) \cup ToSet(y)
  OBVIOUS
<1>4. PICK j \in 1..Len(s) : s[j] = l
  BY <1>1, Member
<1>5. CASE j <= i
  <2>1. j \in 1..i /\ j \in 1..Len(x)
    BY <1>3, <1>5
  <2> QED BY <1>1, <1>4, <2>1, Member
<1>6. CASE j > i /\ j <= i + o
  <2>1. j \in (i + 1)..(i + o) /\ j \in 1..Len(y)
    BY <1>3, <1>6
  <2> QED BY <1>1, <1>4, <2>1, Member
<1>7. CASE j > i + o
  <2>1. j \in 1..(Len(x) + o - d)
    BY <1>1
  <2>2. j \in (i + o + 1)..(Len(x) + o - d) /\ j - o + d \in 1..Len(x)
    BY <1>3, <1>7, <2>1
  <2>3. x[j - o + d] = l
    BY <1>2, <1>4, <2>2
  <2> QED BY <2>2, <2>3, Member
<1> QED BY <1>5, <1>6, <1>7

LEMMA FixLinesOf ==
  ASSUME NEW x \in Seq(Nat), NEW y \in Seq(Nat), NEW i \in Nat, IsIssue(i, x, y),
         NEW s, Inserts(s, x, y, i) \/ Appends(s, x, y, i)
  PROVE  s \in Seq(Nat) /\ s # <<>> /\ ToSet(s) \subseteq ToSet(x) \cup ToSet(y)
<1>1. Len(x) \in Nat /\ Len(y) \in Nat /\ i < Len(x) /\ i < Len(y)
  BY DEF IsIssue
<1>2. CASE Inserts(s, x, y, i)
  <2>1. PICK o \in Nat, d \in Nat :
          i + o < Len(y) /\ i + d < Len(x) /\ IsStitch(s, x, y, i, o, d)
    BY <1>2 DEF Inserts
  <2>2. s \in Seq(Nat) /\ Len(s) = Len(x) + o - d
    BY <2>1 DEF IsStitch
  <2>3. s # <<>>
    <3>1. Len(s) > 0
      BY <1>1, <2>1, <2>2
    <3> QED BY <3>1
  <2>4. ToSet(s) \subseteq ToSet(x) \cup ToSet(y)
    <3>1. i <= Len(x) /\ i + o <= Len(y) /\ 0 <= i + d /\ d \in Int
      BY <1>1, <2>1
    <3> QED BY <2>1, <3>1, StitchLines
  <2> QED BY <2>2, <2>3, <2>4
<1>3. CASE Appends(s, x, y, i)
  <2>1. i # 0 /\ IsStitch(s, x, y, i, Len(y) - i, -1)
    BY <1>3 DEF Appends
  <2>2. s \in Seq(Nat) /\ Len(s) = Len(x) + (Len(y) - i) - (-1)
    BY <2>1 DEF IsStitch
  <2>3. s # <<>>
    <3>1. Len(s) > 0
      BY <1>1, <2>2
    <3> QED BY <3>1
  <2>4. ToSet(s) \subseteq ToSet(x) \cup ToSet(y)
    <3>1. /\ i <= Len(x) /\ i + (Len(y) - i) <= Len(y) /\ 0 <= i + (-1) /\ -1 \in Int
          /\ Len(y) - i \in Nat
      BY <1>1, <2>1
    <3> QED BY <2>1, <3>1, StitchLines
  <2> QED BY <2>2, <2>3, <2>4
<1> QED BY <1>2, <1>3

\* The pairs a fixing of p may come to.
From2(p) ==
  {q \in Pairs : /\ q[1] # <<>> /\ q[2] # <<>>
                 /\ Left(q) <= Left(p)
                 /\ LinesOf(q) \subseteq LinesOf(p)}

LEMMA FixingKeeps ==
  ASSUME NEW p \in Pairs, NEW q \in From2(p), ~Stops(q)
  PROVE  After(q) \in From2(p)
<1> DEFINE x == q[1]
           y == q[2]
           i == IssueOf(q)
           r == After(q)
<1>1. /\ x \in Seq(Nat) /\ y \in Seq(Nat) /\ i \in Nat /\ IsIssue(i, x, y) /\ IsIssue(i, y, x)
      /\ q \in Pairs /\ x # <<>> /\ y # <<>>
  BY FixedPair, Turn, IssueSymmetric DEF From2
<1>2. r \in Pairs /\ Left(r) \in Nat /\ Left(q) \in Nat /\ Left(r) < Left(q)
  BY <1>1, AfterPair, Fewer
<1>3. r[1] # <<>> /\ r[2] # <<>> /\ LinesOf(r) \subseteq LinesOf(q)
  <2>1. CASE \E s \in Seq(Nat) :
               r = <<s, y>> /\ (Inserts(s, x, y, i) \/ Appends(s, x, y, i))
    <3>1. PICK s \in Seq(Nat) : r = <<s, y>> /\ (Inserts(s, x, y, i) \/ Appends(s, x, y, i))
      BY <2>1
    <3>2. s # <<>> /\ ToSet(s) \subseteq ToSet(x) \cup ToSet(y)
      BY <1>1, <3>1, FixLinesOf
    <3> QED BY <1>1, <3>1, <3>2 DEF LinesOf
  <2>2. CASE \E s \in Seq(Nat) : r = <<x, s>> /\ Inserts(s, y, x, i)
    <3>1. PICK s \in Seq(Nat) : r = <<x, s>> /\ Inserts(s, y, x, i)
      BY <2>2
    <3>2. s # <<>> /\ ToSet(s) \subseteq ToSet(y) \cup ToSet(x)
      BY <1>1, <3>1, FixLinesOf
    <3> QED BY <1>1, <3>1, <3>2 DEF LinesOf
  <2>3. \/ \E s \in Seq(Nat) :
             r = <<s, y>> /\ (Inserts(s, x, y, i) \/ Appends(s, x, y, i))
        \/ \E s \in Seq(Nat) : r = <<x, s>> /\ Inserts(s, y, x, i)
    BY <1>1, Turn
  <2> QED BY <2>1, <2>2, <2>3
<1>4. Left(q) <= Left(p) /\ LinesOf(q) \subseteq LinesOf(p) /\ Left(p) \in Nat
  <2>2. Left(p) \in Nat
    BY LeftNat
  <2> QED BY <2>2 DEF From2
<1>5. Left(r) <= Left(p) /\ LinesOf(r) \subseteq LinesOf(p)
  BY <1>2, <1>3, <1>4
<1> HIDE DEF r
<1>6. r \in From2(p)
  BY <1>2, <1>3, <1>5 DEF From2
<1> QED BY <1>6 DEF r

\* What FixAll makes of a pair.
FixedAll(p, q) == q \in From2(p) /\ Stops(q) /\ FixAll[p] = Ended(q)

LEMMA FixAllFrom ==
  ASSUME NEW p \in Pairs, p[1] # <<>>, p[2] # <<>>
  PROVE  \E q \in From2(p) : FixedAll(p, q)
<1>2. Left(p) \in Nat
  BY LeftNat
<1>3. p \in From2(p)
  BY <1>2 DEF From2
<1>4. From2(p) \in SUBSET Pairs
  BY DEF From2
<1>5. \A q \in From2(p) : ~Stops(q) => After(q) \in From2(p)
  BY FixingKeeps
<1>6. \E q \in From2(p) : Stops(q) /\ FixAll[p] = Ended(q)
  BY <1>3, <1>4, <1>5, FixAllEnds
<1> QED BY <1>6 DEF FixedAll

\* The cases of DedupAB: it panics, it returns, or it tries again.
bFirstOf(p) == findLineIndex(At(p[2], 0), p[1])
aLastOf(p) == findLineIndex(At(p[1], Len(p[1]) - 1), p[2])
Uncovered(p) == findFirstIssueIndex(From(p[1], bFirstOf(p)), p[2])

Overlaps(p) ==
  /\ p[2] # <<>>
  /\ \/ bFirstOf(p) = -1 /\ p[1] # <<>> /\ aLastOf(p) # -1
     \/ bFirstOf(p) # -1 /\ Uncovered(p) >= 0

Retries(p) == Overlaps(p) /\ IssueOf(p) # -1 /\ ~FixAll[p].panic

Again(p) ==
  IF FixAll[p].issue # -1
    THEN <<Upto(FixAll[p].x, FixAll[p].issue), From(FixAll[p].y, FixAll[p].issue)>>
    ELSE <<FixAll[p].x, FixAll[p].y>>

Direct(p) ==
  IF p[2] = <<>> \/ (bFirstOf(p) = -1 /\ p[1] = <<>>) THEN Panic
  ELSE IF Overlaps(p) THEN IF IssueOf(p) = -1 THEN Result(p[1], p[2]) ELSE Panic
  ELSE IF bFirstOf(p) = -1 THEN Result(p[1], p[2])
  ELSE Result(Upto(p[1], bFirstOf(p)), p[2])

LEMMA OverlapsNonempty ==
  ASSUME NEW p \in Pairs, Overlaps(p)
  PROVE  p[1] # <<>> /\ p[2] # <<>>
<1>1. p[1] \in Seq(Nat)
  BY DEF Pairs
<1>2. IsIndexOf(bFirstOf(p), At(p[2], 0), p[1])
  BY <1>1, LineIndex DEF bFirstOf
<1>3. p[1] = <<>> => Len(p[1]) = 0
  OBVIOUS
<1>4. p[1] = <<>> => bFirstOf(p) = -1
  BY <1>2, <1>3 DEF IsIndexOf
<1> QED BY <1>4 DEF Overlaps

LEMMA AgainPair ==
  ASSUME NEW p \in Pairs, Retries(p)
  PROVE  /\ Again(p) \in Pairs /\ LinesOf(Again(p)) \subseteq LinesOf(p)
         /\ \/ /\ FixAll[p].issue # -1
               /\ Len(Again(p)[1]) + Len(Again(p)[2]) < Len(p[1]) + Len(p[2])
            \/ /\ FixAll[p].issue = -1 /\ IssueOf(Again(p)) = -1
               /\ Again(p)[1] # <<>> /\ Again(p)[2] # <<>>
<1>1. PICK q \in From2(p) : FixedAll(p, q)
  BY FixAllFrom, OverlapsNonempty DEF Retries
<1>2. /\ q \in Pairs /\ q[1] # <<>> /\ q[2] # <<>> /\ Left(q) <= Left(p)
      /\ LinesOf(q) \subseteq LinesOf(p) /\ FixAll[p] = Ended(q)
  BY <1>1 DEF From2, FixedAll
<1> DEFINE x == q[1]
           y == q[2]
           i == IssueOf(q)
<1>3. x \in Seq(Nat) /\ y \in Seq(Nat) /\ IsIssue(i, x, y) /\ q = <<x, y>>
  BY <1>2, FixedPair
<1>4. Ended(q).x = x /\ Ended(q).y = y /\ Ended(q).issue = i
  BY DEF Ended
<1>5. p[1] \in Seq(Nat) /\ p[2] \in Seq(Nat) /\ IsIssue(IssueOf(p), p[1], p[2])
  BY FixedPair
<1>6. FixAll[p].issue = i /\ Again(p) = IF i # -1 THEN <<Upto(x, i), From(y, i)>> ELSE <<x, y>>
  BY <1>2, <1>4 DEF Again
<1>7. CASE i = -1
  <2>1. FixAll[p].issue = -1 /\ Again(p) = q
    BY <1>3, <1>6, <1>7
  <2> QED BY <1>2, <1>7, <2>1
<1>8. CASE i # -1
  <2> DEFINE u == Upto(x, i)
             v == From(y, i)
  <2>1. /\ i \in Nat /\ i < Len(x) /\ i < Len(y) /\ Len(x) \in Nat /\ Len(y) \in Nat
        /\ i \in 0..Len(x) /\ i \in 0..Len(y)
    BY <1>3, <1>8 DEF IsIssue
  <2>2. /\ u \in Seq(Nat) /\ Len(u) = i
    BY <1>3, <2>1, UptoShape
  <2>3. /\ v \in Seq(Nat) /\ Len(v) = Len(y) - i
    BY <1>3, <2>1, FromShape
  <2>4. ToSet(u) \subseteq ToSet(x) /\ ToSet(v) \subseteq ToSet(y)
    BY <1>3, <2>1, FromTo
  <2>5. Again(p) = <<u, v>>
    BY <1>6, <1>8
  <2>6. Left(q) = Len(x) + Len(y) - i
    BY <1>8 DEF Left
  <2>7. /\ Left(p) = Len(p[1]) + Len(p[2]) - IssueOf(p) /\ IssueOf(p) \in Nat
        /\ Len(p[1]) \in Nat /\ Len(p[2]) \in Nat
    BY <1>5 DEF Left, IsIssue, Retries
  <2> HIDE DEF u, v, x, y, i
  <2>8. Len(u) + Len(v) < Len(p[1]) + Len(p[2])
    <3>1. Len(x) + Len(y) - i <= Len(p[1]) + Len(p[2]) - IssueOf(p)
      BY <1>2, <2>6, <2>7
    <3>2. Len(u) + Len(v) = Len(y) /\ Len(y) < Len(x) + Len(y) - i
      BY ONLY <2>1, <2>2, <2>3
    <3> DEFINE a == Len(p[1])
               b == Len(p[2])
               k == IssueOf(p)
               n == Len(u) + Len(v)
    <3>3. a \in Nat /\ b \in Nat /\ k \in Nat /\ Len(x) + Len(y) - i <= a + b - k
      BY <2>7, <3>1
    <3>4. n = Len(y) /\ Len(y) \in Nat /\ Len(x) \in Nat /\ i \in Nat /\ i < Len(x)
      BY <2>1, <3>2
    <3> HIDE DEF a, b, k, n
    <3>5. n < a + b
      BY ONLY <3>3, <3>4
    <3> QED BY <3>5 DEF a, b, n
  <2>9. LinesOf(<<u, v>>) \subseteq LinesOf(q)
    BY <2>4 DEF LinesOf, x, y
  <2>10. <<u, v>> \in Pairs
    BY <2>2, <2>3 DEF Pairs
  <2>11. Again(p)[1] = u /\ Again(p)[2] = v
    BY <2>5
  <2>12. Again(p) \in Pairs /\ LinesOf(Again(p)) \subseteq LinesOf(p)
    BY <1>2, <2>5, <2>9, <2>10
  <2> QED BY <1>6, <1>8, <2>8, <2>11, <2>12
<1> QED BY <1>7, <1>8

LEMMA DedupEquation ==
  \A p \in Pairs : DedupPair[p] = IF Retries(p) THEN DedupPair[Again(p)] ELSE Direct(p)
<1> DEFINE next == [p \in Pairs |-> IF Retries(p) THEN Again(p) ELSE p]
           stop == {p \in Pairs : ~Retries(p)}
           v == [p \in Pairs |-> Direct(p)]
           Fix(p, f) ==
             IF findFirstIssueIndex(p[1], p[2]) = -1 THEN Result(p[1], p[2])
             ELSE IF FixAll[<<p[1], p[2]>>].panic THEN Panic
             ELSE IF FixAll[<<p[1], p[2]>>].issue # -1
               THEN f[<<Upto(FixAll[<<p[1], p[2]>>].x, FixAll[<<p[1], p[2]>>].issue),
                        From(FixAll[<<p[1], p[2]>>].y, FixAll[<<p[1], p[2]>>].issue)>>]
               ELSE f[<<FixAll[<<p[1], p[2]>>].x, FixAll[<<p[1], p[2]>>].y>>]
           Covers(p) == IF bFirstOf(p) = -1 THEN aLastOf(p) # -1 ELSE Uncovered(p) >= 0
           Case(p, f) ==
             IF p[2] = <<>> \/ (bFirstOf(p) = -1 /\ p[1] = <<>>) THEN Panic
             ELSE IF Covers(p) THEN Fix(p, f)
             ELSE IF bFirstOf(p) = -1 THEN Result(p[1], p[2])
             ELSE Result(Upto(p[1], bFirstOf(p)), p[2])
           Body(f) == [p \in Seq(Nat) \X Seq(Nat) |-> Case(p, f)]
<1>1. next \in [Pairs -> Pairs]
  BY AgainPair
<1>2. PICK g : IsLoop(g, Pairs, next, stop, v)
  <2>1. stop \in SUBSET Pairs
    OBVIOUS
  <2> HIDE DEF next, v, stop
  <2> QED BY <1>1, <2>1, LoopExists
<1>3. DedupPair = CHOOSE f : f = Body(f)
  BY Zenon DEF DedupPair, handleIncompleteOverlap, bFirstOf, aLastOf, Uncovered
<1>4. ASSUME NEW f, NEW p \in Pairs
      PROVE  Case(p, f) = IF Retries(p) THEN f[Again(p)] ELSE Direct(p)
  <2>1. <<p[1], p[2]>> = p
    BY DEF Pairs
  <2>2. Fix(p, f) = IF IssueOf(p) = -1 THEN Result(p[1], p[2])
                    ELSE IF FixAll[p].panic THEN Panic ELSE f[Again(p)]
    BY <2>1, Zenon DEF IssueOf, Again
  <2> HIDE DEF Fix
  <2>3. CASE p[2] = <<>> \/ (bFirstOf(p) = -1 /\ p[1] = <<>>)
    BY <2>3, Zenon DEF Retries, Overlaps, Direct
  <2>4. CASE ~(p[2] = <<>> \/ (bFirstOf(p) = -1 /\ p[1] = <<>>))
    <3>1. Covers(p) <=> Overlaps(p)
      BY <2>4, Zenon DEF Overlaps
    <3> HIDE DEF Covers
    <3> QED BY <2>2, <2>4, <3>1, Zenon DEF Retries, Direct
  <2> QED BY <2>3, <2>4
<1> HIDE DEF Case
<1>5. ASSUME NEW f
      PROVE  Body(f) = [p \in Pairs |-> IF Retries(p) THEN f[Again(p)] ELSE Direct(p)]
  BY <1>4 DEF Pairs
<1>6. g = Body(g)
  <2>0. g = [p \in Pairs |-> IF p \in stop THEN v[p] ELSE g[next[p]]]
    <3> HIDE DEF next, stop, v
    <3> QED BY <1>2 DEF IsLoop
  <2>1. \A p \in Pairs : g[p] = IF p \in stop THEN v[p] ELSE g[next[p]]
    <3> HIDE DEF next, stop, v
    <3> QED BY <2>0
  <2>2. \A p \in Pairs : g[p] = IF Retries(p) THEN g[Again(p)] ELSE Direct(p)
    BY <2>1
  <2>3. g = [p \in Pairs |-> IF Retries(p) THEN g[Again(p)] ELSE Direct(p)]
    <3> HIDE DEF next, stop, v
    <3> QED BY <2>0, <2>2
  <2> HIDE DEF Body
  <2> QED BY <1>5, <2>3
<1> HIDE DEF Body
<1>7. DedupPair = Body(DedupPair)
  BY <1>3, <1>6
<1>8. DedupPair = [p \in Pairs |-> IF Retries(p) THEN DedupPair[Again(p)] ELSE Direct(p)]
  BY <1>5, <1>7
<1> QED BY <1>8

\* A panic, or two slices of lines of the two that were given.
IsSound(r, p) ==
  \/ r = Panic
  \/ \E first, second \in Seq(Nat) :
       /\ r = Result(first, second) /\ second # <<>>
       /\ ToSet(first) \subseteq LinesOf(p) /\ ToSet(second) \subseteq LinesOf(p)

LEMMA DirectSound ==
  ASSUME NEW p \in Pairs PROVE IsSound(Direct(p), p)
<1> DEFINE a == p[1]
           b == p[2]
           k == bFirstOf(p)
<1>1. a \in Seq(Nat) /\ b \in Seq(Nat) /\ IsIndexOf(k, At(b, 0), a)
  BY LineIndex DEF Pairs, bFirstOf
<1>2. ToSet(a) \subseteq LinesOf(p) /\ ToSet(b) \subseteq LinesOf(p)
  BY DEF LinesOf
<1>3. b # <<>> => IsSound(Result(a, b), p)
  BY <1>1, <1>2 DEF IsSound
<1>4. b # <<>> /\ k # -1 => IsSound(Result(Upto(a, k), b), p)
  <2>1. k # -1 => k \in 0..Len(a)
    BY <1>1 DEF IsIndexOf
  <2>2. k # -1 => Upto(a, k) \in Seq(Nat) /\ ToSet(Upto(a, k)) \subseteq ToSet(a)
    BY <1>1, <2>1, UptoShape, FromTo
  <2> QED BY <1>1, <1>2, <2>2 DEF IsSound
<1>5. IsSound(Panic, p)
  BY DEF IsSound
<1> HIDE DEF IsSound
<1> QED BY <1>3, <1>4, <1>5 DEF Direct

(* De-duplication comes to an end, and makes up no lines.                  *)
LEMMA DedupSound ==
  \A p \in Pairs : IsSound(DedupPair[p], p)
<1> DEFINE Size(p) == Len(p[1]) + Len(p[2])
           D == {n \in Nat : \A p \in Pairs : Size(p) = n => IsSound(DedupPair[p], p)}
<1>1. ASSUME NEW p \in Pairs PROVE Size(p) \in Nat
  <2>1. p[1] \in Seq(Nat) /\ p[2] \in Seq(Nat)
    BY DEF Pairs
  <2>2. ASSUME NEW s \in Seq(Nat), NEW t \in Seq(Nat) PROVE Len(s) + Len(t) \in Nat
    OBVIOUS
  <2> QED BY <2>1, <2>2, Zenon
<1>2. ASSUME NEW p \in Pairs, NEW q \in Pairs, LinesOf(q) \subseteq LinesOf(p),
             NEW r, IsSound(r, q)
      PROVE  IsSound(r, p)
  BY <1>2 DEF IsSound
<1>3. ASSUME NEW n \in Nat, \A k \in Nat : k < n => k \in D PROVE n \in D
  <2> SUFFICES ASSUME NEW p \in Pairs, Size(p) = n PROVE IsSound(DedupPair[p], p)
    OBVIOUS
  <2>1. CASE ~Retries(p)
    BY <2>1, DirectSound, DedupEquation
  <2>2. CASE Retries(p)
    <3> DEFINE q == Again(p)
    <3>1. /\ DedupPair[p] = DedupPair[q] /\ q \in Pairs /\ LinesOf(q) \subseteq LinesOf(p)
          /\ Size(q) < Size(p) \/ IssueOf(q) = -1
      BY <2>2, AgainPair, DedupEquation
    <3> HIDE DEF q
    <3>2. CASE Size(q) < Size(p)
      <4>1. Size(q) \in D
        BY <1>1, <1>3, <3>1, <3>2
      <4>2. IsSound(DedupPair[q], q)
        BY <3>1, <4>1
      <4> QED BY <1>2, <3>1, <4>2
    <3>3. CASE IssueOf(q) = -1
      <4>1. ~Retries(q)
        BY <3>3 DEF Retries
      <4>2. IsSound(DedupPair[q], q)
        BY <3>1, <4>1, DirectSound, DedupEquation
      <4> QED BY <1>2, <3>1, <4>2
    <3> QED BY <3>1, <3>2, <3>3
  <2> QED BY <2>1, <2>2
<1>4. Nat \subseteq D
  <2> HIDE DEF D
  <2> QED BY <1>3, Every
<1> QED BY <1>1, <1>4

LEMMA DedupABSound ==
  ASSUME NEW a \in Seq(Nat), NEW b \in Seq(Nat)
  PROVE  /\ IsSound(DedupAB(a, b), <<a, b>>)
         /\ DedupAB(a, b).first \in Seq(Nat) /\ DedupAB(a, b).second \in Seq(Nat)
         /\ DedupAB(a, b).panic \in BOOLEAN
         /\ DedupAB(a, b).panic \/ DedupAB(a, b).second # <<>>
         /\ ToSet(DedupAB(a, b).first) \subseteq ToSet(a) \cup ToSet(b)
         /\ ToSet(DedupAB(a, b).second) \subseteq ToSet(a) \cup ToSet(b)
<1>1. <<a, b>> \in Pairs
  BY DEF Pairs
<1> DEFINE r == DedupAB(a, b)
<1>2. IsSound(r, <<a, b>>)
  BY <1>1, DedupSound DEF DedupAB
<1>3. LinesOf(<<a, b>>) = ToSet(a) \cup ToSet(b)
  BY DEF LinesOf
<1> HIDE DEF r
<1>4. CASE r = Panic
  <2>1. r.first = <<>> /\ r.second = <<>> /\ r.panic = TRUE
    BY <1>4 DEF Panic
  <2>2. ToSet(<<>>) = {} /\ <<>> \in Seq(Nat)
    BY DEF ToSet
  <2> QED BY <1>2, <2>1, <2>2 DEF r
<1>5. CASE r # Panic
  <2>1. PICK first \in Seq(Nat), second \in Seq(Nat) :
          /\ r = Result(first, second) /\ second # <<>>
          /\ ToSet(first) \subseteq LinesOf(<<a, b>>)
          /\ ToSet(second) \subseteq LinesOf(<<a, b>>)
    BY <1>2, <1>5 DEF IsSound
  <2>2. r.first = first /\ r.second = second /\ r.panic = FALSE
    BY <2>1 DEF Result
  <2> QED BY <1>2, <1>3, <2>1, <2>2 DEF r
<1> QED BY <1>4, <1>5

(* Two slices that agree: the second is returned.                          *)
LEMMA AgreeDirect ==
  ASSUME NEW x \in Seq(Nat), NEW y \in Seq(Nat), x # <<>>, y # <<>>,
         IssueOf(<<x, y>>) = -1
  PROVE  DedupPair[<<x, y>>] = Result(<<>>, y)
<1> DEFINE p == <<x, y>>
<1>1. p \in Pairs /\ p[1] = x /\ p[2] = y
  BY DEF Pairs
<1>2. IsIssue(-1, x, y)
  BY <1>1, FixedPair
<1>3. Len(x) \in Nat \ {0} /\ Len(y) \in Nat \ {0}
  BY EmptySeq
<1>4. x[1] = y[1]
  <2>1. 1 \in 1..Len(x) /\ 1 <= Len(y)
    BY <1>3
  <2> QED BY <1>2, <2>1 DEF IsIssue
<1>5. IsIndexOf(bFirstOf(p), y[1], x)
  BY <1>1, LineIndex DEF bFirstOf, At
<1>6. bFirstOf(p) = 0
  <2> DEFINE k == bFirstOf(p)
  <2> HIDE DEF k
  <2>1. k # -1
    BY <1>3, <1>4, <1>5 DEF IsIndexOf, k
  <2>2. k \in 0..(Len(x) - 1) /\ \A j \in 1..k : x[j] # y[1]
    <3>1. k \in -1..(Len(x) - 1) /\ \A j \in 1..k : x[j] # y[1]
      BY <1>5, <2>1, Zenon DEF IsIndexOf, k
    <3> QED BY <1>3, <2>1, <3>1
  <2>3. k > 0 => 1 \in 1..k
    BY <2>2
  <2>4. k = 0
    BY <1>4, <2>2, <2>3
  <2> QED BY <2>4 DEF k
<1>7. From(x, 0) = x /\ Upto(x, 0) = <<>>
  BY DEF From, Upto
<1>8. Uncovered(p) = IssueOf(p)
  BY <1>1, <1>6, <1>7 DEF Uncovered, IssueOf
<1>9. ~Overlaps(p)
  BY <1>6, <1>8 DEF Overlaps
<1>10. Direct(p) = Result(<<>>, y)
  BY <1>1, <1>6, <1>7, <1>9 DEF Direct
<1>11. ~Retries(p)
  BY <1>9 DEF Retries
<1> HIDE DEF p
<1>12. DedupPair[p] = Result(<<>>, y)
  BY <1>1, <1>10, <1>11, DedupEquation
<1> QED BY <1>12 DEF p

-----------------------------------------------------------------------------
(* Slices in order. *)

Ordered(s) == \A i, j \in 1..Len(s) : i < j => s[i] < s[j]

(* What a fix inserts is in order; what it appends may not be, but then    *)
(* nothing is left to fix.                                                 *)
LEMMA InsertsOrdered ==
  ASSUME NEW x \in Seq(Nat), NEW y \in Seq(Nat), NEW i \in Nat, IsIssue(i, x, y),
         Ordered(x), Ordered(y), NEW s, Inserts(s, x, y, i)
  PROVE  Ordered(s)
<1>1. PICK o \in Nat, d \in Nat :
        /\ o # 0 /\ i + o < Len(y) /\ i + d < Len(x)
        /\ y[i + o + 1] = x[i + d + 1]
        /\ IsStitch(s, x, y, i, o, d)
  BY DEF Inserts
<1>2. Len(x) \in Nat /\ Len(y) \in Nat /\ i + o < Len(y) /\ i + d < Len(x)
  <2>1. Len(x) \in Nat /\ Len(y) \in Nat
    OBVIOUS
  <2> QED BY <1>1, <2>1, Zenon
<1>3. /\ s \in Seq(Nat) /\ Len(s) = Len(x) + o - d
      /\ \A j \in 1..i : s[j] = x[j]
      /\ \A j \in (i + 1)..(i + o) : s[j] = y[j]
  BY <1>1 DEF IsStitch
<1>4. \A j \in (i + o + 1)..(Len(x) + o - d) : s[j] = x[j - o + d]
  BY <1>1 DEF IsStitch
<1>5. \A j \in 1..i : x[j] = y[j]
  BY DEF IsIssue
<1>6. \A j \in 1..(i + o) : s[j] = y[j] /\ j \in 1..Len(y)
  <2>1. \A j \in 1..(i + o) : (j \in 1..i \/ j \in (i + 1)..(i + o)) /\ j \in 1..Len(y)
    <3> DEFINE n == Len(y)
    <3>1. n \in Nat /\ i + o < n /\ i \in Nat /\ o \in Nat
      BY <1>2
    <3> HIDE DEF n
    <3>2. \A j \in 1..(i + o) : (j \in 1..i \/ j \in (i + 1)..(i + o)) /\ j \in 1..n
      BY ONLY <3>1
    <3> QED BY <3>2, Zenon DEF n
  <2> QED BY <1>3, <1>5, <2>1
<1>7. ASSUME NEW j \in 1..(Len(x) + o - d), j > i + o
      PROVE  s[j] = x[j - o + d] /\ j - o + d \in (i + d + 1)..Len(x) /\ j - o + d \in 1..Len(x)
  <2>1. /\ j \in (i + o + 1)..(Len(x) + o - d)
        /\ j - o + d \in (i + d + 1)..Len(x) /\ j - o + d \in 1..Len(x)
    BY <1>1, <1>2, <1>7
  <2> QED BY <1>4, <2>1
<1>8. i + o + 1 \in 1..Len(y) /\ i + d + 1 \in 1..Len(x)
  BY <1>2
<1> SUFFICES ASSUME NEW j \in 1..Len(s), NEW k \in 1..Len(s), j < k PROVE s[j] < s[k]
  BY DEF Ordered
<1>9. j \in 1..(Len(x) + o - d) /\ k \in 1..(Len(x) + o - d)
  BY <1>3
<1>10. CASE k <= i + o
  <2>1. j \in 1..(i + o) /\ k \in 1..(i + o)
    BY <1>10
  <2> QED BY <1>6, <2>1 DEF Ordered
<1>11. CASE k > i + o /\ j <= i + o
  <2>1. j \in 1..(i + o)
    BY <1>11
  <2>2. s[j] < y[i + o + 1]
    BY <1>6, <1>8, <2>1 DEF Ordered
  <2>3. s[k] = x[k - o + d]
    BY <1>7, <1>9, <1>11
  <2>4. k - o + d \in 1..Len(x)
    BY <1>7, <1>9, <1>11
  <2>5. k - o + d = i + d + 1 \/ i + d + 1 < k - o + d
    BY <1>11
  <2>6. x[i + d + 1] = x[k - o + d] \/ x[i + d + 1] < x[k - o + d]
    BY <1>8, <2>4, <2>5 DEF Ordered
  <2>7. x[i + d + 1] \in Nat /\ x[k - o + d] \in Nat /\ s[j] \in Nat
    <3>1. \A m \in 1..Len(x) : x[m] \in Nat
      OBVIOUS
    <3>2. \A m \in 1..Len(s) : s[m] \in Nat
      BY <1>3
    <3> QED BY <1>8, <2>4, <3>1, <3>2, Zenon
  <2>8. s[j] < x[i + d + 1]
    <3>1. y[i + o + 1] = x[i + d + 1]
      BY <1>1
    <3> QED BY <2>2, <3>1, Zenon
  <2>9. \A u, v, w \in Nat : u < v /\ (v = w \/ v < w) => u < w
    OBVIOUS
  <2>10. s[j] < x[k - o + d]
    BY ONLY <2>6, <2>7, <2>8, <2>9, Zenon
  <2> QED BY <2>3, <2>10, Zenon
<1>12. CASE j > i + o
  <2>1. s[k] = x[k - o + d] /\ k - o + d \in 1..Len(x)
    BY <1>7, <1>9, <1>12
  <2>2. s[j] = x[j - o + d] /\ j - o + d \in 1..Len(x)
    BY <1>7, <1>9, <1>12
  <2>3. j - o + d < k - o + d
    BY <1>1
  <2> QED BY <2>1, <2>2, <2>3 DEF Ordered
<1> QED BY <1>10, <1>11, <1>12

(* In order, one of the two lines that differ is missing in the other      *)
(* slice: a fix always changes something.                                  *)
LEMMA NeverStuck ==
  ASSUME NEW x \in Seq(Nat), NEW y \in Seq(Nat), NEW i \in Nat, IsIssue(i, x, y),
         Ordered(x), Ordered(y)
  PROVE  ~(/\ \E k \in (i + 1)..Len(x) : x[k] = y[i + 1]
           /\ \E k \in (i + 1)..Len(y) : y[k] = x[i + 1])
<1> SUFFICES ASSUME NEW k \in (i + 1)..Len(x), x[k] = y[i + 1],
                    NEW l \in (i + 1)..Len(y), y[l] = x[i + 1]
             PROVE  FALSE
  OBVIOUS
<1>1. Len(x) \in Nat /\ Len(y) \in Nat /\ i < Len(x) /\ i < Len(y) /\ x[i + 1] # y[i + 1]
  BY DEF IsIssue
<1>2. i + 1 \in 1..Len(x) /\ k \in 1..Len(x) /\ i + 1 \in 1..Len(y) /\ l \in 1..Len(y)
  <2> DEFINE m == Len(x)
             n == Len(y)
  <2>1. /\ m \in Nat /\ n \in Nat /\ i \in Nat /\ i < m /\ i < n
        /\ k \in (i + 1)..m /\ l \in (i + 1)..n
    BY <1>1, Zenon
  <2> HIDE DEF m, n
  <2>2. i + 1 \in 1..m /\ k \in 1..m /\ i + 1 \in 1..n /\ l \in 1..n
    BY ONLY <2>1
  <2> QED BY <2>2, Zenon DEF m, n
<1>3. k # i + 1 /\ l # i + 1
  BY <1>1
<1>4. x[i + 1] < x[k] /\ y[i + 1] < y[l]
  BY <1>2, <1>3 DEF Ordered
<1>5. x[i + 1] \in Nat /\ y[i + 1] \in Nat
  BY <1>2
<1> QED BY <1>4, <1>5

\* The pairs that a fixing of slices in order may come to.
OrderedFrom(p) ==
  {q \in From2(p) : /\ Ordered(q[2])
                    /\ IssueOf(q) = -1 \/ Ordered(q[1])
                    /\ q = p \/ IssueOf(q) # 0}

LEMMA AfterIssue ==
  ASSUME NEW q \in Pairs, ~Stops(q)
  PROVE  IssueOf(After(q)) # 0
<1> DEFINE x == q[1]
           y == q[2]
           i == IssueOf(q)
           r == After(q)
<1>1. /\ x \in Seq(Nat) /\ y \in Seq(Nat) /\ i \in Nat /\ IsIssue(i, x, y) /\ IsIssue(i, y, x)
  BY FixedPair, Turn, IssueSymmetric
<1>2. r \in Pairs /\ IsIssue(IssueOf(r), r[1], r[2])
  BY AfterPair, FixedPair
<1>3. r[1][1] = r[2][1]
  <2>0. Len(x) \in Nat /\ Len(y) \in Nat /\ i < Len(x) /\ i < Len(y)
    BY <1>1 DEF IsIssue
  <2>1. CASE \E s \in Seq(Nat) : r = <<s, y>> /\ Inserts(s, x, y, i)
    <3>1. PICK s \in Seq(Nat) : r = <<s, y>> /\ Inserts(s, x, y, i)
      BY <2>1
    <3>2. AgreesLonger(s, x, y, i)
      BY <1>1, <3>1, InsertsAgree
    <3>3. s[1] = y[1]
      <4>1. PICK o \in Nat : \A j \in 1..(i + o + 1) : s[j] = y[j]
        BY <3>2 DEF AgreesLonger
      <4>2. 1 \in 1..(i + o + 1)
        BY <1>1
      <4> QED BY <4>1, <4>2
    <3> QED BY <3>1, <3>3
  <2>2. CASE \E s \in Seq(Nat) : r = <<x, s>> /\ Inserts(s, y, x, i)
    <3>1. PICK s \in Seq(Nat) : r = <<x, s>> /\ Inserts(s, y, x, i)
      BY <2>2
    <3>2. AgreesLonger(s, y, x, i)
      BY <1>1, <3>1, InsertsAgree
    <3>3. s[1] = x[1]
      <4>1. PICK o \in Nat : \A j \in 1..(i + o + 1) : s[j] = x[j]
        BY <3>2 DEF AgreesLonger
      <4>2. 1 \in 1..(i + o + 1)
        BY <1>1
      <4> QED BY <4>1, <4>2
    <3> QED BY <3>1, <3>3
  <2>3. CASE \E s \in Seq(Nat) : r = <<s, y>> /\ Appends(s, x, y, i)
    <3>1. PICK s \in Seq(Nat) : r = <<s, y>> /\ Appends(s, x, y, i)
      BY <2>3
    <3>2. \A j \in 1..Len(y) : s[j] = y[j]
      <4>1. x \in Seq(Nat) /\ y \in Seq(Nat) /\ i \in Nat /\ IsIssue(i, x, y) /\ Appends(s, x, y, i)
        BY <1>1, <3>1, Zenon
      <4> HIDE DEF x, y, i, r
      <4> QED BY <4>1, AppendsAgree
    <3>3. s[1] = y[1]
      <4>1. 1 \in 1..Len(y)
        BY <1>1, <2>0
      <4> QED BY <3>2, <4>1
    <3> QED BY <3>1, <3>3
  <2> QED BY <2>1, <2>2, <2>3, Turn
<1> HIDE DEF r
<1>4. IssueOf(r) # 0
  BY <1>2, <1>3 DEF IsIssue
<1> QED BY <1>4 DEF r

LEMMA OrderedKept ==
  ASSUME NEW p \in Pairs, NEW q \in OrderedFrom(p), ~Stops(q)
  PROVE  After(q) \in OrderedFrom(p)
<1> DEFINE x == q[1]
           y == q[2]
           i == IssueOf(q)
           r == After(q)
<1>0. q \in From2(p) /\ q \in Pairs
  BY DEF OrderedFrom, From2
<1>1. /\ x \in Seq(Nat) /\ y \in Seq(Nat) /\ i \in Nat /\ IsIssue(i, x, y) /\ IsIssue(i, y, x)
  BY <1>0, FixedPair, Turn, IssueSymmetric
<1>2. Ordered(x) /\ Ordered(y)
  BY <1>1 DEF OrderedFrom
<1>3. r \in From2(p) /\ IssueOf(r) # 0
  BY <1>0, FixingKeeps, AfterIssue
<1>4. Ordered(r[2]) /\ (IssueOf(r) = -1 \/ Ordered(r[1]))
  <2>1. CASE \E s \in Seq(Nat) : r = <<s, y>> /\ Inserts(s, x, y, i)
    <3>1. PICK s \in Seq(Nat) : r = <<s, y>> /\ Inserts(s, x, y, i)
      BY <2>1
    <3>2. Ordered(s)
      BY <1>1, <1>2, <3>1, InsertsOrdered
    <3>3. r[1] = s /\ r[2] = y
      BY <3>1
    <3> QED BY <1>2, <3>2, <3>3
  <2>2. CASE \E s \in Seq(Nat) : r = <<x, s>> /\ Inserts(s, y, x, i)
    <3>1. PICK s \in Seq(Nat) : r = <<x, s>> /\ Inserts(s, y, x, i)
      BY <2>2
    <3>2. Ordered(s)
      BY <1>1, <1>2, <3>1, InsertsOrdered
    <3>3. r[1] = x /\ r[2] = s
      BY <3>1
    <3> QED BY <1>2, <3>2, <3>3
  <2>3. CASE \E s \in Seq(Nat) : r = <<s, y>> /\ Appends(s, x, y, i)
    <3>1. PICK s \in Seq(Nat) : r = <<s, y>> /\ Appends(s, x, y, i)
      BY <2>3
    <3>2. s \in Seq(Nat) /\ \A j \in 1..Len(y) : s[j] = y[j]
      <4>1. x \in Seq(Nat) /\ y \in Seq(Nat) /\ i \in Nat /\ IsIssue(i, x, y) /\ Appends(s, x, y, i)
        BY <1>1, <3>1, Zenon
      <4> HIDE DEF x, y, i, r
      <4> QED BY <4>1, AppendsAgree
    <3>3. Len(y) \in Nat
      BY <1>1
    <3>4. r[1] = s /\ r[2] = y
      BY <3>1
    <3>5. IssueOf(r) = -1 \/ (IssueOf(r) \in Nat /\ IssueOf(r) >= Len(y))
      BY <1>1, <3>2, <3>3, <3>4, Agreed DEF IssueOf
    <3>6. IsIssue(IssueOf(r), s, y)
      BY <1>1, <3>2, <3>4, Issue DEF IssueOf
    <3>7. IssueOf(r) = -1
      BY <3>3, <3>5, <3>6 DEF IsIssue
    <3> QED BY <1>2, <3>4, <3>7
  <2> QED BY <1>0, <2>1, <2>2, <2>3, Turn
<1> HIDE DEF r
<1>5. r \in OrderedFrom(p)
  BY <1>3, <1>4 DEF OrderedFrom
<1> QED BY <1>5 DEF r

LEMMA FirstLines ==
  ASSUME NEW p \in Pairs, p[1] # <<>>, p[2] # <<>>
  PROVE  /\ p[1] \in Seq(Nat) /\ p[2] \in Seq(Nat)
         /\ Len(p[1]) \in Nat \ {0} /\ Len(p[2]) \in Nat \ {0}
         /\ IsIndexOf(bFirstOf(p), p[2][1], p[1])
         /\ IsIndexOf(aLastOf(p), p[1][Len(p[1])], p[2])
<1>1. p[1] \in Seq(Nat) /\ p[2] \in Seq(Nat)
  BY DEF Pairs
<1>2. Len(p[1]) \in Nat \ {0} /\ Len(p[2]) \in Nat \ {0}
  BY <1>1, EmptySeq
<1>3. At(p[2], 0) = p[2][1] /\ At(p[1], Len(p[1]) - 1) = p[1][Len(p[1])]
  BY <1>2 DEF At
<1> QED BY <1>1, <1>2, <1>3, LineIndex DEF bFirstOf, aLastOf

LEMMA OverlapsCommon ==
  ASSUME NEW p \in Pairs, Overlaps(p)
  PROVE  \E j \in 1..Len(p[1]), k \in 1..Len(p[2]) : p[1][j] = p[2][k]
<1> DEFINE n == Len(p[1])
           m == Len(p[2])
           f == bFirstOf(p)
           l == aLastOf(p)
<1>1. /\ n \in Nat \ {0} /\ m \in Nat \ {0}
      /\ IsIndexOf(f, p[2][1], p[1]) /\ IsIndexOf(l, p[1][n], p[2])
  BY OverlapsNonempty, FirstLines
<1> HIDE DEF f, l
<1>2. CASE f # -1
  <2>1. f \in -1..(n - 1) /\ p[1][f + 1] = p[2][1]
    BY <1>1, <1>2 DEF IsIndexOf
  <2>2. f + 1 \in 1..n /\ 1 \in 1..m
    BY <1>1, <1>2, <2>1
  <2> QED BY <2>1, <2>2
<1>3. CASE f = -1
  <2>1. l # -1
    BY <1>3 DEF Overlaps, f, l
  <2>2. l \in -1..(m - 1) /\ p[2][l + 1] = p[1][n]
    BY <1>1, <2>1 DEF IsIndexOf
  <2>3. l + 1 \in 1..m /\ n \in 1..n
    BY <1>1, <2>1, <2>2
  <2> QED BY <2>2, <2>3
<1> QED BY <1>2, <1>3

LEMMA OrderedIssue ==
  ASSUME NEW p \in Pairs, Overlaps(p), Ordered(p[1]) PROVE IssueOf(p) # -1
<1> DEFINE x == p[1]
           y == p[2]
           k == bFirstOf(p)
<1>1. /\ x \in Seq(Nat) /\ y \in Seq(Nat)
      /\ Len(x) \in Nat \ {0} /\ Len(y) \in Nat \ {0} /\ IsIndexOf(k, y[1], x)
  BY OverlapsNonempty, FirstLines
<1> SUFFICES ASSUME IssueOf(p) = -1 PROVE FALSE
  OBVIOUS
<1>2. IsIssue(-1, x, y)
  BY FixedPair
<1>3. 1 \in 1..Len(x) /\ 1 <= Len(y)
  BY <1>1
<1>4. x[1] = y[1]
  BY <1>2, <1>3 DEF IsIssue
<1>5. k # -1
  BY <1>1, <1>3, <1>4 DEF IsIndexOf
<1>6. k \in 0..(Len(x) - 1) /\ x[k + 1] = y[1]
  <2>1. k \in -1..(Len(x) - 1) /\ x[k + 1] = y[1]
    BY <1>1, <1>5, Zenon DEF IsIndexOf
  <2> QED BY <1>1, <1>5, <2>1
<1>7. CASE k = 0
  <2>1. From(x, 0) = x
    BY <1>1 DEF From
  <2>2. Uncovered(p) = -1
    BY <1>7, <2>1 DEF Uncovered, IssueOf
  <2> QED BY <1>5, <2>2 DEF Overlaps
<1>8. CASE k # 0
  <2> HIDE DEF k
  <2>1. k + 1 \in 1..Len(x) /\ 1 < k + 1
    BY <1>1, <1>6, <1>8
  <2>2. x[1] < x[k + 1] /\ x[1] \in Nat
    <3>1. Ordered(x)
      OBVIOUS
    <3>2. x[1] < x[k + 1]
      BY <1>3, <2>1, <3>1, Zenon DEF Ordered
    <3> QED BY <1>1, <1>3, <3>2
  <2> QED BY <1>4, <1>6, <2>2
<1> QED BY <1>7, <1>8

(* Slices in order that overlap come to agree, and the second is what is   *)
(* returned; I is whatever else the fixing keeps.                          *)
LEMMA OrderedFixed ==
  ASSUME NEW p \in Pairs, Overlaps(p), Ordered(p[1]), Ordered(p[2]),
         NEW I, p \in I,
         \A q \in OrderedFrom(p) : q \in I /\ ~Stops(q) => After(q) \in I
  PROVE  \E q \in OrderedFrom(p) :
           q \in I /\ IssueOf(q) = -1 /\ DedupPair[p] = Result(<<>>, q[2])
<1> DEFINE J == {q \in OrderedFrom(p) : q \in I}
<1>1. p[1] # <<>> /\ p[2] # <<>> /\ IssueOf(p) # -1
  BY OverlapsNonempty, OrderedIssue
<1>2. p \in OrderedFrom(p)
  <2>1. Left(p) \in Nat
    BY LeftNat
  <2> QED BY <1>1, <2>1 DEF OrderedFrom, From2
<1>3. J \in SUBSET Pairs /\ p \in J
  BY <1>2 DEF OrderedFrom, From2
<1>4. \A q \in J : ~Stops(q) => After(q) \in J
  BY OrderedKept
<1>5. PICK q \in J : Stops(q) /\ FixAll[p] = Ended(q)
  <2> HIDE DEF J
  <2> QED BY <1>3, <1>4, FixAllEnds
<1> DEFINE x == q[1]
           y == q[2]
           i == IssueOf(q)
<1>6. /\ q \in Pairs /\ q \in OrderedFrom(p) /\ q \in I /\ x # <<>> /\ y # <<>>
      /\ x \in Seq(Nat) /\ y \in Seq(Nat) /\ q = <<x, y>> /\ IsIssue(i, x, y)
  BY FixedPair DEF OrderedFrom, From2
<1>7. i = -1
  <2> SUFFICES ASSUME i # -1 PROVE FALSE
    OBVIOUS
  <2>1. Ordered(x) /\ Ordered(y) /\ (q = p \/ i # 0) /\ i \in Nat
    BY <1>6 DEF OrderedFrom, IsIssue
  <2>2. Fixed(q).panic \/ ~Fixed(q).changed
    BY <1>5 DEF Stops
  <2>3. FixOutcome(Fixed(q), x, y, i)
    BY <1>6, FixedPair
  <2>4. \/ /\ \E k \in (i + 1)..Len(x) : x[k] = y[i + 1]
           /\ \E k \in (i + 1)..Len(y) : y[k] = x[i + 1]
        \/ i = 0 /\ Apart(x, y, 0)
    BY <2>2, <2>3 DEF FixOutcome
  <2>5. i = 0 /\ Apart(x, y, 0)
    BY <1>6, <2>1, <2>4, NeverStuck
  <2>6. q = p
    BY <2>1, <2>5
  <2>7. \A j \in 1..Len(x), k \in 1..Len(y) : x[j] # y[k]
    BY <2>5 DEF Apart
  <2> QED BY <2>6, <2>7, OverlapsCommon
<1>8. /\ Ended(q).x = x /\ Ended(q).y = y /\ Ended(q).issue = -1 /\ Ended(q).panic = FALSE
  BY <1>7 DEF Ended
<1>9. Again(p) = q /\ Retries(p)
  BY <1>1, <1>5, <1>6, <1>8 DEF Again, Retries
<1>10. DedupPair[p] = DedupPair[q]
  BY <1>9, DedupEquation
<1>11. DedupPair[<<x, y>>] = Result(<<>>, y)
  BY <1>6, <1>7, AgreeDirect
<1> HIDE DEF x, y
<1>12. DedupPair[p] = Result(<<>>, y)
  BY <1>6, <1>10, <1>11
<1> QED BY <1>6, <1>7, <1>12 DEF y

(* DedupAB of slices in order.                                             *)
LEMMA OrderedCases ==
  ASSUME NEW p \in Pairs, p[1] # <<>>, p[2] # <<>>, Ordered(p[1]), ~Overlaps(p)
  PROVE  \/ /\ bFirstOf(p) = -1 /\ aLastOf(p) = -1
            /\ DedupPair[p] = Result(p[1], p[2])
         \/ /\ bFirstOf(p) # -1 /\ Uncovered(p) = -1
            /\ DedupPair[p] = Result(Upto(p[1], bFirstOf(p)), p[2])
<1>1. DedupPair[p] = Direct(p)
  BY DedupEquation DEF Retries
<1>2. CASE bFirstOf(p) = -1
  BY <1>1, <1>2 DEF Overlaps, Direct
<1>3. CASE bFirstOf(p) # -1
  <2>1. IsIndexOf(bFirstOf(p), p[2][1], p[1])
    BY FirstLines
  <2>2. bFirstOf(p) \in 0..Len(p[1])
    BY <1>3, <2>1 DEF IsIndexOf
  <2>3. From(p[1], bFirstOf(p)) \in Seq(Nat)
    BY <2>2, FirstLines, FromShape
  <2>4. IsIssue(Uncovered(p), From(p[1], bFirstOf(p)), p[2])
    BY <2>3, FirstLines, Issue DEF Uncovered
  <2>5. Uncovered(p) = -1
    BY <1>3, <2>4 DEF Overlaps, IsIssue
  <2> QED BY <1>1, <1>3, <2>5 DEF Direct
<1> QED BY <1>2, <1>3

(* DedupAB never panics on two slices in order.                            *)
LEMMA OrderedNeverPanics ==
  ASSUME NEW p \in Pairs, p[1] # <<>>, p[2] # <<>>, Ordered(p[1]), Ordered(p[2])
  PROVE  \E first, second \in Seq(Nat) : DedupPair[p] = Result(first, second)
<1>1. IsSound(DedupPair[p], p)
  BY DedupSound
<1>2. DedupPair[p] # Panic
  <2>1. \A first, second : Result(first, second).panic = FALSE
    BY DEF Result
  <2>2. Panic.panic = TRUE
    BY DEF Panic
  <2>3. CASE Overlaps(p)
    <3> DEFINE I == Pairs
    <3>1. \A q \in OrderedFrom(p) : q \in I /\ ~Stops(q) => After(q) \in I
      BY AfterPair
    <3> HIDE DEF I
    <3>2. p \in I
      BY DEF I
    <3>3. \E q \in OrderedFrom(p) :
            q \in I /\ IssueOf(q) = -1 /\ DedupPair[p] = Result(<<>>, q[2])
      BY <2>3, <3>1, <3>2, OrderedFixed
    <3> QED BY <2>1, <2>2, <3>3
  <2>4. CASE ~Overlaps(p)
    BY <2>1, <2>2, <2>4, OrderedCases
  <2> QED BY <2>3, <2>4
<1> QED BY <1>1, <1>2 DEF IsSound

-----------------------------------------------------------------------------
(* A slice that has only lines of the next one.                            *)

LEMMA OrderedAt ==
  ASSUME NEW s \in Seq(Nat), Ordered(s), NEW i \in 1..Len(s), NEW j \in 1..Len(s)
  PROVE  /\ s[i] \in Nat /\ s[j] \in Nat
         /\ s[i] < s[j] <=> i < j
         /\ s[i] = s[j] <=> i = j
<1>1. s[i] \in Nat /\ s[j] \in Nat
  OBVIOUS
<1>2. i < j => s[i] < s[j]
  BY DEF Ordered
<1>3. j < i => s[j] < s[i]
  BY DEF Ordered
<1> HIDE DEF Ordered
<1>4. i \in Nat /\ j \in Nat
  OBVIOUS
<1> DEFINE u == s[i]
           v == s[j]
<1>5. u \in Nat /\ v \in Nat /\ (i < j => u < v) /\ (j < i => v < u) /\ (i = j => u = v)
  BY <1>1, <1>2, <1>3
<1> HIDE DEF u, v
<1>6. (u < v <=> i < j) /\ (u = v <=> i = j)
  BY <1>4, <1>5
<1> QED BY <1>1, <1>6 DEF u, v

\* One slice has only lines of the other; b is the second.
Within(b) == {q \in Pairs : q[2] = b /\ ToSet(q[1]) \subseteq ToSet(b)}

LEMMA WithinKept ==
  ASSUME NEW p \in Pairs, NEW b, NEW q \in OrderedFrom(p), q \in Within(b), ~Stops(q)
  PROVE  After(q) \in Within(b)
<1> DEFINE x == q[1]
           i == IssueOf(q)
           r == After(q)
<1>1. /\ x \in Seq(Nat) /\ b \in Seq(Nat) /\ i \in Nat /\ IsIssue(i, x, b)
      /\ q[2] = b /\ ToSet(x) \subseteq ToSet(b)
  BY FixedPair, Turn DEF Within
<1>2. Ordered(x)
  BY <1>1 DEF OrderedFrom
<1>3. r \in Pairs
  BY AfterPair DEF Within
<1>4. ASSUME NEW s \in Seq(Nat), Inserts(s, b, x, i) PROVE FALSE
  <2> HIDE DEF r, i, x
  <2>1. Len(x) \in Nat /\ Len(b) \in Nat /\ i < Len(x) /\ i < Len(b)
    BY <1>1 DEF IsIssue
  <2>2. \A k \in (i + 1)..Len(b) : x[i + 1] # b[k]
    <3>1. PICK o \in Nat : /\ o # 0
                           /\ \A j \in (i + 1)..(i + o), k \in (i + 1)..Len(b) : x[j] # b[k]
      BY <1>4 DEF Inserts
    <3>2. i + 1 \in (i + 1)..(i + o)
      BY <1>1, <3>1
    <3> QED BY <3>1, <3>2
  <2>3. i + 1 \in 1..Len(x)
    BY <1>1, <2>1
  <2>4. PICK j \in 1..Len(b) : b[j] = x[i + 1]
    BY <1>1, <2>3, Member
  <2>5. j \in 1..i /\ j \in 1..Len(x)
    BY <1>1, <2>1, <2>2, <2>4
  <2>6. x[j] = b[j]
    BY <1>1, <2>5 DEF IsIssue
  <2>7. j = i + 1
    BY <1>1, <1>2, <2>3, <2>4, <2>5, <2>6, OrderedAt
  <2> QED BY <1>1, <2>5, <2>7
<1>5. PICK s \in Seq(Nat) : r = <<s, b>> /\ (Inserts(s, x, b, i) \/ Appends(s, x, b, i))
  <2>1. \/ \E s \in Seq(Nat) : r = <<s, b>> /\ (Inserts(s, x, b, i) \/ Appends(s, x, b, i))
        \/ \E s \in Seq(Nat) : r = <<x, s>> /\ Inserts(s, b, x, i)
    BY <1>1, Turn DEF Within
  <2> QED BY <1>4, <2>1
<1>6. ToSet(s) \subseteq ToSet(b)
  BY <1>1, <1>5, FixLinesOf
<1>7. r[2] = b /\ r[1] = s
  BY <1>5
<1> HIDE DEF r
<1>8. r \in Within(b)
  BY <1>3, <1>6, <1>7 DEF Within
<1> QED BY <1>8 DEF r

LEMMA OrderedAbsorbed ==
  ASSUME NEW p \in Pairs, p[1] # <<>>, p[2] # <<>>, Ordered(p[1]), Ordered(p[2]),
         ToSet(p[1]) \subseteq ToSet(p[2])
  PROVE  DedupPair[p] = Result(<<>>, p[2])
<1> DEFINE a == p[1]
           b == p[2]
           k == bFirstOf(p)
           l == aLastOf(p)
<1>1. CASE Overlaps(p)
  <2>1. p \in Within(b)
    BY DEF Within
  <2>2. \A q \in OrderedFrom(p) : q \in Within(b) /\ ~Stops(q) => After(q) \in Within(b)
    BY WithinKept
  <2>3. PICK q \in OrderedFrom(p) : q \in Within(b) /\ DedupPair[p] = Result(<<>>, q[2])
    <3> HIDE DEF b
    <3> QED BY <1>1, <2>1, <2>2, OrderedFixed
  <2> QED BY <2>3 DEF Within
<1>2. CASE ~Overlaps(p)
  <2>1. /\ a \in Seq(Nat) /\ b \in Seq(Nat) /\ Len(a) \in Nat \ {0} /\ Len(b) \in Nat \ {0}
        /\ IsIndexOf(k, b[1], a) /\ IsIndexOf(l, a[Len(a)], b)
    BY FirstLines
  <2>2. 1 \in 1..Len(a) /\ 1 \in 1..Len(b) /\ Len(a) \in 1..Len(a)
    BY <2>1
  <2>3. l # -1
    <3>1. PICK j \in 1..Len(b) : b[j] = a[Len(a)]
      BY <2>1, <2>2, Member
    <3> HIDE DEF l
    <3> QED BY <2>1, <3>1 DEF IsIndexOf
  <2>4. k # -1 /\ DedupPair[p] = Result(Upto(a, k), b)
    BY <1>2, <2>3, OrderedCases
  <2> HIDE DEF k
  <2>5. k \in 0..(Len(a) - 1) /\ a[k + 1] = b[1]
    <3>1. k \in -1..(Len(a) - 1) /\ a[k + 1] = b[1]
      BY <2>1, <2>4, Zenon DEF IsIndexOf
    <3> QED BY <2>1, <2>4, <3>1
  <2>6. k = 0
    <3>1. k + 1 \in 1..Len(a)
      BY <2>1, <2>5
    <3>2. PICK j \in 1..Len(b) : b[j] = a[1]
      BY <2>1, <2>2, Member
    <3>3. ~(b[j] < b[1])
      <4>1. b[j] < b[1] <=> j < 1
        BY <2>1, <2>2, OrderedAt, Zenon
      <4> QED BY <4>1
    <3>4. ~(a[1] < a[k + 1])
      BY <2>5, <3>2, <3>3
    <3>5. ~(1 < k + 1)
      BY <2>1, <2>2, <3>1, <3>4, OrderedAt
    <3> QED BY <2>5, <3>5
  <2>7. Upto(a, k) = <<>>
    <3>1. Upto(a, 0) = <<>>
      BY <2>1 DEF Upto
    <3> QED BY <2>6, <3>1
  <2> QED BY <2>4, <2>7
<1> QED BY <1>1, <1>2

-----------------------------------------------------------------------------
(* Two slices that overlap.                                                *)

\* Where lines are missing between two lines of both, they are missing in
\* one of the slices only.
Fits(X, Y) ==
  \A f, l \in X \cap Y, z \in X, w \in Y :
    f < z /\ z < l /\ f < w /\ w < l => \E m \in X \cap Y : f < m /\ m < l

LEMMA FitsSymmetric ==
  ASSUME NEW X \in SUBSET Nat, NEW Y \in SUBSET Nat, Fits(X, Y) PROVE Fits(Y, X)
<1> SUFFICES ASSUME NEW f \in X \cap Y, NEW l \in X \cap Y, NEW z \in X, NEW w \in Y,
                    f < z, z < l, f < w, w < l
             PROVE  \E m \in X \cap Y : f < m /\ m < l
  BY DEF Fits
<1> QED BY DEF Fits

\* x agrees with y up to i, and the two meet again at y[i + o + 1]: the fix
\* inserts lines of y, and skips d of x.
Meets(x, y, i, o, d) ==
  /\ o # 0 /\ i + o < Len(y) /\ i + d < Len(x)
  /\ y[i + o + 1] = x[i + d + 1]
  /\ \A j \in (i + 1)..(i + o), k \in (i + 1)..Len(x) : y[j] # x[k]

(* Nothing is skipped.                                                     *)
LEMMA SkipsNothing ==
  ASSUME NEW x \in Seq(Nat), NEW y \in Seq(Nat), NEW i \in Nat, IsIssue(i, x, y),
         Ordered(x), Ordered(y), Fits(ToSet(x), ToSet(y)),
         i # 0 \/ y[1] \in ToSet(x) \/ x[1] \in ToSet(y),
         NEW o \in Nat, NEW d \in Nat, Meets(x, y, i, o, d)
  PROVE  d = 0
<1> SUFFICES ASSUME d # 0 PROVE FALSE
  OBVIOUS
<1>1. /\ Len(x) \in Nat /\ Len(y) \in Nat /\ i < Len(x) /\ i < Len(y)
      /\ \A j \in 1..i : x[j] = y[j]
  BY DEF IsIssue
<1>2. /\ o # 0 /\ i + o < Len(y) /\ i + d < Len(x)
      /\ y[i + o + 1] = x[i + d + 1]
  BY DEF Meets
<1>3. \A j \in (i + 1)..(i + o), k \in (i + 1)..Len(x) : y[j] # x[k]
  BY DEF Meets
<1>4. /\ i + 1 \in 1..Len(x) /\ i + 1 \in 1..Len(y)
      /\ i + o + 1 \in 1..Len(y) /\ i + d + 1 \in 1..Len(x)
      /\ i + 1 < i + o + 1 /\ i + 1 < i + d + 1
  <2>1. \A n \in Nat : n # 0 => i + 1 < i + n + 1
    OBVIOUS
  <2>2. \A n \in Nat, m \in Nat : i + n < m => i + n + 1 \in 1..m
    OBVIOUS
  <2>3. \A m \in Nat : i < m => i + 1 \in 1..m
    OBVIOUS
  <2> QED BY <1>1, <1>2, <2>1, <2>2, <2>3
<1> DEFINE c == y[i + o + 1]
<1>5. c = x[i + d + 1] /\ c \in ToSet(x) /\ c \in ToSet(y)
  BY <1>2, <1>4, Member
<1>6. x[i + 1] < c /\ y[i + 1] < c /\ x[i + 1] \in ToSet(x) /\ y[i + 1] \in ToSet(y)
  <2>1. x[i + 1] < x[i + d + 1] /\ y[i + 1] < y[i + o + 1]
    BY <1>4, OrderedAt
  <2> QED BY <1>4, <1>5, <2>1, Member
\* A common line from index i on and below c would be met before c.
<1>7. ASSUME NEW j \in 1..Len(y), NEW k \in 1..Len(x), y[j] = x[k], y[j] < c, j > i, k > i
      PROVE  FALSE
  <2>1. j < i + o + 1
    BY <1>4, <1>7, OrderedAt
  <2>2. j \in (i + 1)..(i + o) /\ k \in (i + 1)..Len(x)
    BY <1>1, <1>7, <2>1
  <2> QED BY <1>3, <1>7, <2>2
<1>8. CASE i = 0
  <2>1. CASE y[1] \in ToSet(x)
    <3>1. 1 \in 1..Len(y) /\ 1 > i /\ y[1] < c
      BY <1>1, <1>4, <1>6, <1>8
    <3>2. PICK k \in 1..Len(x) : x[k] = y[1]
      BY <2>1, Member
    <3>3. k > i
      BY <1>8
    <3> QED BY <1>7, <3>1, <3>2, <3>3
  <2>2. CASE x[1] \in ToSet(y)
    <3>1. 1 \in 1..Len(x) /\ 1 > i /\ x[1] < c
      BY <1>1, <1>4, <1>6, <1>8
    <3>2. PICK j \in 1..Len(y) : y[j] = x[1]
      BY <2>2, Member
    <3>3. j > i
      BY <1>8
    <3> QED BY <1>7, <3>1, <3>2, <3>3
  <2> QED BY <1>8, <2>1, <2>2
<1>9. CASE i # 0
  <2> DEFINE f == x[i]
  <2>1. i \in 1..Len(x) /\ i \in 1..Len(y) /\ i \in 1..i /\ i < i + 1
    BY <1>1, <1>9
  <2>2. f = y[i] /\ f \in ToSet(x) /\ f \in ToSet(y) /\ f < x[i + 1] /\ f < y[i + 1]
    BY <1>1, <1>4, <2>1, OrderedAt, Member
  <2>3. PICK m \in ToSet(x) \cap ToSet(y) : f < m /\ m < c
    <3> HIDE DEF f, c
    <3> QED BY <1>5, <1>6, <2>2 DEF Fits
  <2>4. PICK j \in 1..Len(y) : y[j] = m
    BY Member
  <2>5. PICK k \in 1..Len(x) : x[k] = m
    BY Member
  <2>6. i < j /\ i < k
    <3>1. y[i] < y[j] /\ x[i] < x[k]
      BY <2>2, <2>3, <2>4, <2>5
    <3> QED BY <2>1, <2>4, <2>5, <3>1, OrderedAt
  <2> QED BY <1>7, <2>3, <2>4, <2>5, <2>6
<1> QED BY <1>8, <1>9

\* What a fix that skips nothing makes of x.
Widens(s, x, y) ==
  /\ s \in Seq(Nat) /\ s # <<>> /\ Ordered(s)
  /\ ToSet(x) \subseteq ToSet(s) /\ ToSet(s) \subseteq ToSet(x) \cup ToSet(y)
  /\ s[Len(s)] = x[Len(x)]
  /\ Fits(ToSet(s), ToSet(y))

LEMMA InsertsWidens ==
  ASSUME NEW x \in Seq(Nat), NEW y \in Seq(Nat), NEW i \in Nat, IsIssue(i, x, y),
         Ordered(x), Ordered(y), Fits(ToSet(x), ToSet(y)),
         i # 0 \/ y[1] \in ToSet(x) \/ x[1] \in ToSet(y),
         NEW s, Inserts(s, x, y, i)
  PROVE  Widens(s, x, y)
<1>1. PICK o \in Nat, d \in Nat : Meets(x, y, i, o, d) /\ IsStitch(s, x, y, i, o, d)
  BY DEF Inserts, Meets
<1>2. d = 0
  BY <1>1, SkipsNothing
<1>3. /\ Len(x) \in Nat /\ Len(y) \in Nat /\ i < Len(x) /\ i < Len(y)
      /\ \A j \in 1..i : x[j] = y[j]
  BY DEF IsIssue
<1>4. o # 0 /\ i + o < Len(y) /\ y[i + o + 1] = x[i + 1]
  BY <1>1, <1>2 DEF Meets
<1>5. /\ s \in Seq(Nat) /\ Len(s) = Len(x) + o
      /\ \A j \in 1..i : s[j] = x[j]
      /\ \A j \in (i + 1)..(i + o) : s[j] = y[j]
  BY <1>1, <1>2 DEF IsStitch
<1>6. \A j \in (i + o + 1)..(Len(x) + o) : s[j] = x[j - o]
  <2>1. \A j \in (i + o + 1)..(Len(x) + o - d) : s[j] = x[j - o + d]
    BY <1>1 DEF IsStitch
  <2>2. Len(x) + o - d = Len(x) + o /\ \A j \in Int : j - o + d = j - o
    BY <1>2, <1>3
  <2> QED BY <2>1, <2>2
<1>7. ASSUME NEW k \in (i + 1)..Len(x) PROVE k + o \in 1..Len(s) /\ s[k + o] = x[k]
  <2>1. k + o \in (i + o + 1)..(Len(x) + o) /\ k + o \in 1..(Len(x) + o) /\ (k + o) - o = k
    BY <1>3
  <2> QED BY <1>5, <1>6, <2>1
<1>8. Ordered(s)
  BY InsertsOrdered
<1>9. s # <<>> /\ ToSet(s) \subseteq ToSet(x) \cup ToSet(y)
  BY FixLinesOf
<1>10. ToSet(x) \subseteq ToSet(s)
  <2> SUFFICES ASSUME NEW l \in ToSet(x) PROVE l \in ToSet(s)
    OBVIOUS
  <2>1. PICK k \in 1..Len(x) : x[k] = l
    BY Member
  <2>2. CASE k <= i
    <3>1. k \in 1..i /\ k \in 1..Len(s)
      BY <1>3, <1>5, <2>2
    <3> QED BY <1>5, <2>1, <3>1, Member
  <2>3. CASE k > i
    <3>1. k \in (i + 1)..Len(x)
      BY <1>3, <2>3
    <3> QED BY <1>5, <1>7, <2>1, <3>1, Member
  <2> QED BY <2>2, <2>3
<1>11. s[Len(s)] = x[Len(x)]
  <2>1. Len(x) \in (i + 1)..Len(x)
    BY <1>3
  <2> QED BY <1>5, <1>7, <2>1
<1>12. Fits(ToSet(s), ToSet(y))
  <2> DEFINE S == ToSet(s)
             X == ToSet(x)
             Y == ToSet(y)
             c == x[i + 1]
  <2> SUFFICES ASSUME NEW f \in S \cap Y, NEW l \in S \cap Y, NEW z \in S, NEW w \in Y,
                      f < z, z < l, f < w, w < l
               PROVE  \E m \in S \cap Y : f < m /\ m < l
    BY DEF Fits
  <2>1. CASE z \in Y
    BY <2>1
  <2>2. CASE z \notin Y
    <3>1. S \subseteq Nat /\ X \subseteq Nat /\ Y \subseteq Nat
      BY <1>5, LinesNat
    <3>2. z \in X
      BY <1>9, <2>2
    <3>3. i + 1 \in 1..Len(x) /\ i + o + 1 \in 1..Len(y)
      <4> DEFINE m == Len(x)
                 n == Len(y)
      <4>1. m \in Nat /\ n \in Nat /\ i < m /\ i + o < n
        BY <1>3, <1>4, Zenon
      <4> HIDE DEF m, n
      <4>2. i + 1 \in 1..m /\ i + o + 1 \in 1..n
        BY ONLY <4>1, i \in Nat, o \in Nat
      <4> QED BY <4>2, Zenon DEF m, n
    <3>4. c \in X /\ c \in Y /\ c \in S
      BY <1>4, <1>10, <3>3, Member
    <3>5. c < z
      <4>1. PICK k \in 1..Len(x) : x[k] = z
        BY <3>2, Member
      <4>2. ~(k <= i)
        <5> SUFFICES ASSUME k <= i PROVE FALSE
          OBVIOUS
        <5>1. k \in 1..i /\ k \in 1..Len(y)
          BY <1>3
        <5>2. z = y[k] /\ y[k] \in Y
          BY <1>3, <4>1, <5>1, Member
        <5> QED BY <2>2, <5>2
      <4>3. k # i + 1
        BY <2>2, <3>4, <4>1
      <4>4. i + 1 < k
        BY <1>3, <4>2, <4>3
      <4> QED BY <3>3, <4>1, <4>4, OrderedAt
    \* A line that is common and not in x is one that the fix inserts.
    <3>6. ASSUME NEW m \in S, m \notin X PROVE m < c
      <4>1. PICK j \in 1..Len(s) : s[j] = m
        BY <1>5, Member
      <4>2. ~(j <= i)
        <5> SUFFICES ASSUME j <= i PROVE FALSE
          OBVIOUS
        <5>1. j \in 1..i /\ j \in 1..Len(x)
          BY <1>3
        <5> QED BY <1>5, <3>6, <4>1, <5>1, Member
      <4>3. ~(j > i + o)
        <5> SUFFICES ASSUME j > i + o PROVE FALSE
          OBVIOUS
        <5>1. j \in (i + o + 1)..(Len(x) + o) /\ j - o \in 1..Len(x)
          BY <1>3, <1>5
        <5> QED BY <1>6, <3>6, <4>1, <5>1, Member
      <4>4. j \in (i + 1)..(i + o) /\ j \in 1..Len(y) /\ j < i + o + 1
        BY <1>3, <1>4, <4>2, <4>3
      <4>5. m = y[j]
        BY <1>5, <4>1, <4>4
      <4>6. y[j] < y[i + o + 1]
        BY <3>3, <4>4, OrderedAt
      <4> QED BY <1>4, <4>5, <4>6
    <3> HIDE DEF S, X, Y, c
    <3>7. f \in Nat /\ l \in Nat /\ z \in Nat /\ w \in Nat /\ c \in Nat
      BY <3>1, <3>4
    <3>8. c < l
      BY <3>5, <3>7
    <3>9. l \in X
      BY <3>6, <3>7, <3>8
    <3>10. CASE f \in X
      <4>1. Fits(X, Y)
        BY DEF X, Y
      <4>2. PICK m \in X \cap Y : f < m /\ m < l
        BY <3>2, <3>9, <3>10, <4>1 DEF Fits
      <4> QED BY <1>10, <4>2 DEF X, S
    <3>11. CASE f \notin X
      BY <3>4, <3>6, <3>8, <3>11
    <3> QED BY <3>10, <3>11
  <2> QED BY <2>1, <2>2
<1> QED BY <1>5, <1>8, <1>9, <1>10, <1>11, <1>12 DEF Widens

\* Slices in order that overlap: the first starts before or with a line of
\* the second that it has, and ends with one.
Overlapping(p) ==
  /\ p[1] # <<>> /\ p[2] # <<>> /\ Ordered(p[1]) /\ Ordered(p[2])
  /\ p[2][1] \in ToSet(p[1])
  /\ p[1][Len(p[1])] \in ToSet(p[2])
  /\ Fits(ToSet(p[1]), ToSet(p[2]))

\* What the fixing of p keeps.
Merging(p) ==
  {q \in Pairs : /\ LinesOf(q) = LinesOf(p)
                 /\ Ordered(q[1])
                 /\ q[1][Len(q[1])] \in ToSet(q[2])
                 /\ Fits(ToSet(q[1]), ToSet(q[2]))}

LEMMA MergingKept ==
  ASSUME NEW p \in Pairs, Overlapping(p), NEW q \in OrderedFrom(p), q \in Merging(p), ~Stops(q)
  PROVE  After(q) \in Merging(p)
<1> DEFINE x == q[1]
           y == q[2]
           i == IssueOf(q)
           r == After(q)
<1>1. /\ x \in Seq(Nat) /\ y \in Seq(Nat) /\ i \in Nat
      /\ IsIssue(i, x, y) /\ IsIssue(i, y, x)
      /\ ToSet(x) \cup ToSet(y) = LinesOf(p) /\ Ordered(x)
      /\ x[Len(x)] \in ToSet(y) /\ Fits(ToSet(x), ToSet(y))
  BY FixedPair, Turn, IssueSymmetric DEF Merging, LinesOf
<1>2. Ordered(y) /\ r \in Pairs /\ x # <<>>
  BY AfterPair DEF OrderedFrom, From2, Merging
<1>3. i # 0 \/ y[1] \in ToSet(x)
  BY DEF OrderedFrom, Overlapping
<1>4. \/ \E s \in Seq(Nat) : r = <<s, y>> /\ (Inserts(s, x, y, i) \/ Appends(s, x, y, i))
      \/ \E s \in Seq(Nat) : r = <<x, s>> /\ Inserts(s, y, x, i)
  BY <1>2, Turn DEF Merging
<1> HIDE DEF x, y, i, r
<1>5. Len(x) \in Nat /\ Len(y) \in Nat /\ i < Len(x) /\ i < Len(y)
  BY <1>1 DEF IsIssue
<1>6. ASSUME NEW s, Appends(s, x, y, i) PROVE FALSE
  <2>1. Len(x) \in (i + 1)..Len(x) /\ Len(x) \in 1..Len(x)
    BY <1>1, <1>5
  <2>2. PICK k \in 1..Len(y) : y[k] = x[Len(x)]
    BY <1>1, Member
  <2>3. \A k1 \in (i + 1)..Len(y) : x[Len(x)] # y[k1]
    BY <1>6, <2>1 DEF Appends, Apart
  <2>4. k \in 1..i /\ k \in 1..Len(x) /\ k # Len(x)
    BY <1>1, <1>5, <2>2, <2>3
  <2>5. x[k] = x[Len(x)]
    BY <1>1, <2>2, <2>4 DEF IsIssue
  <2> QED BY <1>1, <2>1, <2>4, <2>5, OrderedAt
<1>7. CASE \E s \in Seq(Nat) : r = <<s, y>> /\ (Inserts(s, x, y, i) \/ Appends(s, x, y, i))
  <2>1. PICK s \in Seq(Nat) : r = <<s, y>> /\ Inserts(s, x, y, i)
    BY <1>6, <1>7
  <2>2. Widens(s, x, y)
    BY <1>1, <1>2, <1>3, <2>1, InsertsWidens
  <2>3. r[1] = s /\ r[2] = y
    BY <2>1
  <2>4. LinesOf(r) = LinesOf(p)
    BY <1>1, <2>2, <2>3 DEF LinesOf, Widens
  <2>5. Ordered(s) /\ s[Len(s)] \in ToSet(y) /\ Fits(ToSet(s), ToSet(y))
    BY <1>1, <2>2 DEF Widens
  <2> QED BY <1>2, <2>3, <2>4, <2>5 DEF Merging, r
<1>8. CASE \E s \in Seq(Nat) : r = <<x, s>> /\ Inserts(s, y, x, i)
  <2>1. PICK s \in Seq(Nat) : r = <<x, s>> /\ Inserts(s, y, x, i)
    BY <1>8
  <2>2. ToSet(x) \in SUBSET Nat /\ ToSet(y) \in SUBSET Nat /\ ToSet(s) \in SUBSET Nat
    BY <1>1, LinesNat
  <2>3. Fits(ToSet(y), ToSet(x))
    BY <1>1, <2>2, FitsSymmetric
  <2>4. Widens(s, y, x)
    BY <1>1, <1>2, <1>3, <2>1, <2>3, InsertsWidens
  <2>5. Fits(ToSet(x), ToSet(s))
    BY <2>2, <2>4, FitsSymmetric DEF Widens
  <2>6. r[1] = x /\ r[2] = s
    BY <2>1
  <2>7. LinesOf(r) = LinesOf(p)
    BY <1>1, <2>4, <2>6 DEF LinesOf, Widens
  <2>8. x[Len(x)] \in ToSet(s)
    BY <1>1, <2>4 DEF Widens
  <2> QED BY <1>1, <1>2, <2>5, <2>6, <2>7, <2>8 DEF Merging, r
<1> QED BY <1>4, <1>7, <1>8 DEF r

\* first and then second are the lines of the set in order.
InOrderOf(first, second, lines) ==
  /\ first \o second \in Seq(Nat) /\ Ordered(first \o second)
  /\ ToSet(first \o second) = lines

(* A slice is a prefix of the other, and the second has the first's last   *)
(* line: it has all.                                                       *)
LEMMA PrefixWithin ==
  ASSUME NEW x \in Seq(Nat), NEW y \in Seq(Nat), x # <<>>, Ordered(x), IsIssue(-1, x, y),
         x[Len(x)] \in ToSet(y)
  PROVE  ToSet(x) \subseteq ToSet(y)
<1>1. Len(x) \in Nat \ {0} /\ Len(y) \in Nat
  BY EmptySeq
<1>2. \A j \in 1..Len(x) : j <= Len(y) => x[j] = y[j]
  BY DEF IsIssue
<1>3. PICK k \in 1..Len(y) : y[k] = x[Len(x)]
  BY Member
<1>4. Len(x) <= Len(y)
  <2> SUFFICES ASSUME Len(x) > Len(y) PROVE FALSE
    BY <1>1
  <2>1. k \in 1..Len(x) /\ Len(x) \in 1..Len(x) /\ k # Len(x) /\ k <= Len(y)
    BY <1>1
  <2>2. x[k] = x[Len(x)]
    BY <1>2, <1>3, <2>1
  <2> QED BY <2>1, <2>2, OrderedAt
<1> SUFFICES ASSUME NEW l \in ToSet(x) PROVE l \in ToSet(y)
  OBVIOUS
<1>5. PICK j \in 1..Len(x) : x[j] = l
  BY Member
<1>6. j \in 1..Len(y) /\ j <= Len(y)
  BY <1>1, <1>4
<1> QED BY <1>2, <1>5, <1>6, Member

LEMMA OrderedMerged ==
  ASSUME NEW p \in Pairs, Overlapping(p)
  PROVE  \E first, second \in Seq(Nat) :
           DedupPair[p] = Result(first, second) /\ InOrderOf(first, second, LinesOf(p))
<1> DEFINE a == p[1]
           b == p[2]
           k == bFirstOf(p)
<1>0. /\ a # <<>> /\ b # <<>> /\ Ordered(a) /\ Ordered(b)
      /\ b[1] \in ToSet(a) /\ a[Len(a)] \in ToSet(b)
  BY DEF Overlapping
<1>1. CASE Overlaps(p)
  <2>1. p \in Merging(p)
    BY DEF Merging, Overlapping
  <2>2. \A q \in OrderedFrom(p) : q \in Merging(p) /\ ~Stops(q) => After(q) \in Merging(p)
    BY MergingKept
  <2>3. PICK q \in OrderedFrom(p) :
          q \in Merging(p) /\ IssueOf(q) = -1 /\ DedupPair[p] = Result(<<>>, q[2])
    <3> DEFINE I == Merging(p)
    <3>1. p \in I /\ \A q \in OrderedFrom(p) : q \in I /\ ~Stops(q) => After(q) \in I
      BY <2>1, <2>2
    <3> HIDE DEF I
    <3>2. \E q \in OrderedFrom(p) :
             q \in I /\ IssueOf(q) = -1 /\ DedupPair[p] = Result(<<>>, q[2])
      BY <1>0, <1>1, <3>1, OrderedFixed
    <3> QED BY <3>2 DEF I
  <2> DEFINE x == q[1]
             y == q[2]
  <2>4. /\ x \in Seq(Nat) /\ y \in Seq(Nat) /\ IsIssue(-1, x, y) /\ x # <<>>
        /\ Ordered(x) /\ Ordered(y) /\ x[Len(x)] \in ToSet(y)
        /\ ToSet(x) \cup ToSet(y) = LinesOf(p)
    BY <2>3, FixedPair DEF OrderedFrom, From2, Merging, LinesOf
  <2> HIDE DEF x, y
  <2>5. ToSet(y) = LinesOf(p)
    BY <2>4, PrefixWithin
  <2>6. <<>> \o y = y /\ <<>> \in Seq(Nat)
    BY <2>4
  <2>7. DedupPair[p] = Result(<<>>, y)
    BY <2>3 DEF y
  <2> QED BY <2>4, <2>5, <2>6, <2>7 DEF InOrderOf
<1>2. CASE ~Overlaps(p)
  <2>1. /\ a \in Seq(Nat) /\ b \in Seq(Nat) /\ Len(a) \in Nat \ {0} /\ Len(b) \in Nat \ {0}
        /\ IsIndexOf(k, b[1], a)
    BY <1>0, FirstLines
  <2>2. k # -1
    <3>1. PICK j \in 1..Len(a) : a[j] = b[1]
      BY <1>0, <2>1, Member
    <3> HIDE DEF k
    <3> QED BY <2>1, <3>1 DEF IsIndexOf
  <2>3. Uncovered(p) = -1 /\ DedupPair[p] = Result(Upto(a, k), b)
    BY <1>0, <1>2, <2>2, OrderedCases
  <2>4. IsIssue(Uncovered(p), From(a, k), b)
    <3>1. k \in 0..Len(a)
      <4> HIDE DEF k
      <4>1. k \in -1..(Len(a) - 1)
        BY <2>1 DEF IsIndexOf
      <4> QED BY <2>1, <2>2, <4>1
    <3> QED BY <2>1, <3>1, FromShape, Issue DEF Uncovered
  <2>5. LinesOf(p) = ToSet(a) \cup ToSet(b)
    BY DEF LinesOf
  <2> HIDE DEF a, b, k
  <2>6. k \in 0..(Len(a) - 1) /\ a[k + 1] = b[1]
    <3>1. k \in -1..(Len(a) - 1) /\ a[k + 1] = b[1]
      BY <2>1, <2>2, Zenon DEF IsIndexOf
    <3> QED BY <2>1, <2>2, <3>1
  <2> DEFINE u == Upto(a, k)
             w == From(a, k)
             s == u \o b
  <2>7. /\ u \in Seq(Nat) /\ Len(u) = k /\ \A j \in 1..k : u[j] = a[j]
        /\ w \in Seq(Nat) /\ Len(w) = Len(a) - k /\ \A j \in 1..(Len(a) - k) : w[j] = a[k + j]
    <3>1. k \in 0..Len(a)
      BY <2>1, <2>6
    <3> QED BY <2>1, <3>1, UptoShape, FromShape
  <2>8. IsJoined(s, u, b)
    BY <2>1, <2>7, JoinedShape
  <2> HIDE DEF u, w, s
  <2>9. /\ s \in Seq(Nat) /\ Len(s) = k + Len(b)
        /\ \A j \in 1..k : s[j] = a[j] /\ j \in 1..Len(a)
        /\ \A j \in 1..Len(b) : s[k + j] = b[j]
    <3>1. \A j \in 1..k : j \in 1..Len(a)
      BY <2>1, <2>6
    <3> QED BY <2>7, <2>8, <3>1 DEF IsJoined
  <2>10. \A j \in 1..Len(s) :
           \/ j \in 1..k
           \/ (j > k /\ j - k \in 1..Len(b) /\ s[j] = b[j - k])
    <3> SUFFICES ASSUME NEW j \in 1..Len(s), j \notin 1..k
                 PROVE  j > k /\ j - k \in 1..Len(b) /\ s[j] = b[j - k]
      OBVIOUS
    <3>1. j \in 1..(k + Len(b)) /\ k \in Nat /\ Len(b) \in Nat
      BY <2>1, <2>6, <2>9
    <3>2. j > k /\ j - k \in 1..Len(b) /\ k + (j - k) = j
      <4> DEFINE n == Len(b)
      <4>1. j \in 1..(k + n) /\ k \in Nat /\ n \in Nat /\ j \notin 1..k
        BY <3>1
      <4> HIDE DEF n
      <4>2. j > k /\ j - k \in 1..n /\ k + (j - k) = j
        BY ONLY <4>1
      <4> QED BY <4>2 DEF n
    <3> QED BY <2>9, <3>2
  <2>11. 1 \in 1..Len(b) /\ k + 1 \in 1..Len(a)
    BY <2>1, <2>6
  <2>12. Ordered(s)
    <3> SUFFICES ASSUME NEW i \in 1..Len(s), NEW j \in 1..Len(s), i < j PROVE s[i] < s[j]
      BY DEF Ordered
    <3>1. CASE i \in 1..k /\ j \in 1..k
      BY <1>0, <2>1, <2>9, <3>1, OrderedAt
    <3>2. CASE i \in 1..k /\ j \notin 1..k
      <4>1. j - k \in 1..Len(b) /\ s[j] = b[j - k]
        BY <2>10, <3>2
      <4>2. s[i] = a[i] /\ a[i] < a[k + 1] /\ a[i] \in Nat
        <5>1. i \in 1..Len(a) /\ i < k + 1
          <6> DEFINE n == Len(a)
          <6>1. n \in Nat /\ k \in 0..(n - 1) /\ i \in 1..k
            BY <2>1, <2>6, <3>2, Zenon
          <6> HIDE DEF n
          <6>2. i \in 1..n /\ i < k + 1
            BY ONLY <6>1
          <6> QED BY <6>2, Zenon DEF n
        <5> QED BY <1>0, <2>1, <2>9, <2>11, <3>2, <5>1, OrderedAt
      <4>3. ~(b[j - k] < b[1]) /\ b[1] \in Nat /\ b[j - k] \in Nat
        <5>1. ~(j - k < 1)
          BY <4>1
        <5> QED BY <1>0, <2>1, <2>11, <4>1, <5>1, OrderedAt
      <4> DEFINE e == a[i]
                 f == b[1]
                 g == b[j - k]
      <4>4. e < f /\ ~(g < f) /\ e \in Nat /\ f \in Nat /\ g \in Nat
        BY <2>6, <4>2, <4>3
      <4>5. s[i] = e /\ s[j] = g
        BY <4>1, <4>2
      <4> HIDE DEF e, f, g
      <4>6. e < g
        BY <4>4
      <4> QED BY <4>5, <4>6
    <3>3. CASE i \notin 1..k
      <4>1. i > k /\ i - k \in 1..Len(b) /\ s[i] = b[i - k]
        BY <2>10, <3>3
      <4>2. j \notin 1..k
        BY <2>6, <4>1
      <4>3. j - k \in 1..Len(b) /\ s[j] = b[j - k]
        BY <2>10, <4>2
      <4>4. i - k < j - k
        BY <2>6
      <4> QED BY <1>0, <2>1, <4>1, <4>3, <4>4, OrderedAt
    <3> QED BY <3>1, <3>2, <3>3
  <2>13. ToSet(b) \subseteq ToSet(s)
    <3> SUFFICES ASSUME NEW l \in ToSet(b) PROVE l \in ToSet(s)
      OBVIOUS
    <3>1. PICK j \in 1..Len(b) : b[j] = l
      BY <2>1, Member
    <3>2. k + j \in 1..Len(s)
      BY <2>1, <2>6, <2>9
    <3> QED BY <2>9, <3>1, <3>2, Member
  <2>14. ToSet(a) \subseteq ToSet(s)
    <3>1. IsIssue(-1, w, b) /\ w # <<>>
      <4>1. Len(w) # 0
        BY <2>1, <2>6, <2>7
      <4> QED BY <2>3, <2>4, <4>1 DEF w
    <3>2. Ordered(w)
      <4> SUFFICES ASSUME NEW i \in 1..Len(w), NEW j \in 1..Len(w), i < j PROVE w[i] < w[j]
        BY DEF Ordered
      <4>1. k + i \in 1..Len(a) /\ k + j \in 1..Len(a) /\ k + i < k + j
        BY <2>1, <2>6, <2>7
      <4>2. w[i] = a[k + i] /\ w[j] = a[k + j]
        BY <2>7
      <4> QED BY <1>0, <2>1, <4>1, <4>2, OrderedAt
    <3>3. w[Len(w)] = a[Len(a)]
      <4> DEFINE n == Len(a)
      <4>1. n \in Nat /\ k \in 0..(n - 1)
        BY <2>1, <2>6, Zenon
      <4> HIDE DEF n
      <4>2. n - k \in 1..(n - k) /\ k + (n - k) = n
        BY ONLY <4>1
      <4> QED BY <2>7, <4>2 DEF n
    <3>4. ToSet(w) \subseteq ToSet(b)
      BY <1>0, <2>1, <2>7, <3>1, <3>2, <3>3, PrefixWithin
    <3> SUFFICES ASSUME NEW l \in ToSet(a) PROVE l \in ToSet(s)
      OBVIOUS
    <3>5. PICK j \in 1..Len(a) : a[j] = l
      BY <2>1, Member
    <3>6. CASE j \in 1..k
      <4>1. j \in 1..Len(s)
        BY <2>1, <2>6, <2>9, <3>6
      <4> QED BY <2>9, <3>5, <3>6, <4>1, Member
    <3>7. CASE j \notin 1..k
      <4>1. j - k \in 1..Len(w) /\ k + (j - k) = j
        BY <2>1, <2>6, <2>7, <3>7
      <4>2. w[j - k] = l
        BY <2>7, <3>5, <4>1
      <4> QED BY <2>7, <2>13, <3>4, <4>1, <4>2, Member
    <3> QED BY <3>6, <3>7
  <2>15. ToSet(s) \subseteq ToSet(a) \cup ToSet(b)
    <3> SUFFICES ASSUME NEW l \in ToSet(s) PROVE l \in ToSet(a) \cup ToSet(b)
      OBVIOUS
    <3>1. PICK j \in 1..Len(s) : s[j] = l
      BY <2>9, Member
    <3> QED BY <2>1, <2>9, <2>10, <3>1, Member
  <2>16. InOrderOf(u, b, LinesOf(p))
    BY <2>5, <2>9, <2>12, <2>13, <2>14, <2>15 DEF InOrderOf, s
  <2>17. DedupPair[p] = Result(u, b)
    BY <2>3 DEF u
  <2> QED BY <2>1, <2>7, <2>16, <2>17
<1> QED BY <1>1, <1>2

(* There is one way to put a set of lines in order.                        *)
LEMMA OrderedPrefix ==
  ASSUME NEW s \in Seq(Nat), NEW t \in Seq(Nat), Ordered(s), Ordered(t), ToSet(s) = ToSet(t)
  PROVE  \A k \in 1..Len(s) : k \in 1..Len(t) /\ s[k] = t[k]
<1> DEFINE D == {k \in Nat : k \in 1..Len(s) => k \in 1..Len(t) /\ s[k] = t[k]}
<1>0. Len(s) \in Nat /\ Len(t) \in Nat
  OBVIOUS
<1>1. ASSUME NEW k \in Nat, \A l \in Nat : l < k => l \in D PROVE k \in D
  <2> SUFFICES ASSUME k \in 1..Len(s) PROVE k \in 1..Len(t) /\ s[k] = t[k]
    OBVIOUS
  <2>1. \A l \in 1..Len(s) : l < k => l \in 1..Len(t) /\ s[l] = t[l]
    BY <1>1
  <2> HIDE DEF D
  <2>2. PICK m \in 1..Len(t) : t[m] = s[k]
    BY Member
  <2>3. ~(m < k)
    <3> SUFFICES ASSUME m < k PROVE FALSE
      OBVIOUS
    <3>1. m \in 1..Len(s)
      BY <1>0
    <3>2. s[m] = s[k]
      BY <2>1, <2>2, <3>1
    <3> QED BY <3>1, <3>2, OrderedAt
  <2>4. k \in 1..Len(t)
    BY <1>0, <2>3
  <2>5. PICK r \in 1..Len(s) : s[r] = t[k]
    BY <2>4, Member
  <2>6. ~(k < m)
    <3> SUFFICES ASSUME k < m PROVE FALSE
      OBVIOUS
    <3>1. t[k] < t[m]
      BY <2>4, OrderedAt
    <3>2. s[r] < s[k]
      BY <2>2, <2>5, <3>1
    <3>3. r < k
      BY <3>2, OrderedAt
    <3>4. t[r] = t[k] /\ r \in 1..Len(t)
      BY <2>1, <2>5, <3>3
    <3> QED BY <2>4, <3>3, <3>4, OrderedAt
  <2>7. m = k
    BY <2>3, <2>6
  <2> QED BY <2>2, <2>4, <2>7
<1>2. Nat \subseteq D
  <2> HIDE DEF D
  <2> QED BY <1>1, Every
<1> QED BY <1>0, <1>2

LEMMA OrderedUnique ==
  ASSUME NEW s \in Seq(Nat), NEW t \in Seq(Nat), Ordered(s), Ordered(t), ToSet(s) = ToSet(t)
  PROVE  s = t
<1>1. \A k \in 1..Len(s) : k \in 1..Len(t) /\ s[k] = t[k]
  BY OrderedPrefix
<1>2. \A k \in 1..Len(t) : k \in 1..Len(s)
  BY OrderedPrefix
<1>3. Len(s) = Len(t)
  <2>1. Len(s) \in Nat /\ Len(t) \in Nat
    OBVIOUS
  <2>2. Len(s) <= Len(t)
    <3>1. CASE Len(s) = 0
      BY <2>1, <3>1
    <3>2. CASE Len(s) # 0
      <4>1. Len(s) \in 1..Len(s)
        BY <2>1, <3>2
      <4>2. Len(s) \in 1..Len(t)
        BY <1>1, <4>1
      <4> QED BY <2>1, <4>2
    <3> QED BY <3>1, <3>2
  <2>3. Len(t) <= Len(s)
    <3>1. CASE Len(t) = 0
      BY <2>1, <3>1
    <3>2. CASE Len(t) # 0
      <4>1. Len(t) \in 1..Len(t)
        BY <2>1, <3>2
      <4>2. Len(t) \in 1..Len(s)
        BY <1>2, <4>1
      <4> QED BY <2>1, <4>2
    <3> QED BY <3>1, <3>2
  <2> QED BY <2>1, <2>2, <2>3
<1> QED BY <1>1, <1>3, SeqEqual


-----------------------------------------------------------------------------
(* Several slices: what sorting them and going through them backwards      *)
(* comes to.                                                               *)

SlicesOf(U) == [lines : Seq(U), generation : Nat]

StartOf(slice) == Head(slice.lines \o <<0>>)
EndOf(slice) == Last(<<0>> \o slice.lines)

\* The i-th slice comes before the j-th in the log.
Precedes(slices, i, j) ==
  \/ StartOf(slices[i]) < StartOf(slices[j])
  \/ /\ StartOf(slices[i]) = StartOf(slices[j])
     /\ EndOf(slices[i]) < EndOf(slices[j]) \/ (EndOf(slices[i]) = EndOf(slices[j]) /\ i < j)

\* order lists the slices as they come in the log.
Sorts(order, slices) ==
  /\ \A k \in 1..Len(slices) : order[k] \in 1..Len(slices)
  /\ \A k, l \in 1..Len(slices) : k < l => Precedes(slices, order[k], order[l])
  /\ \A i \in 1..Len(slices) : \E k \in 1..Len(slices) : order[k] = i
  /\ SortedSlices(slices) = [k \in 1..Len(slices) |-> slices[order[k]]]

LEMMA InSubset ==
  ASSUME NEW U \in SUBSET Nat, NEW s
  PROVE  s \in Seq(U) <=> s \in Seq(Nat) /\ ToSet(s) \subseteq U
<1>1. ASSUME s \in Seq(U) PROVE s \in Seq(Nat) /\ ToSet(s) \subseteq U
  <2>1. Len(s) \in Nat /\ DOMAIN s = 1..Len(s) /\ \A j \in 1..Len(s) : s[j] \in U
    BY <1>1
  <2>2. s \in Seq(Nat)
    BY <1>1, SeqMonotonic
  <2> QED BY <2>1, <2>2 DEF ToSet
<1>2. ASSUME s \in Seq(Nat), ToSet(s) \subseteq U PROVE s \in Seq(U)
  <2>1. \A j \in 1..Len(s) : s[j] \in U
    BY <1>2, Member
  <2> QED BY <1>2, <2>1
<1> QED BY <1>1, <1>2

LEMMA StartsAndEnds ==
  ASSUME NEW U \in SUBSET Nat, NEW slice \in SlicesOf(U)
  PROVE  /\ slice.lines \in Seq(Nat) /\ Len(slice.lines) \in Nat
         /\ StartOf(slice) \in Nat /\ EndOf(slice) \in Nat
         /\ slice.lines # <<>> => /\ StartOf(slice) = slice.lines[1]
                                  /\ EndOf(slice) = slice.lines[Len(slice.lines)]
<1> DEFINE s == slice.lines
<1>1. s \in Seq(Nat) /\ Len(s) \in Nat
  BY InSubset DEF SlicesOf
<1>2. StartOf(slice) = Head(s \o <<0>>) /\ EndOf(slice) = (<<0>> \o s)[Len(<<0>> \o s)]
  BY DEF StartOf, EndOf, Last
<1> HIDE DEF s
<1>3. <<0>> \in Seq(Nat) /\ Len(<<0>>) = 1 /\ <<0>>[1] = 0
  OBVIOUS
<1>4. IsJoined(s \o <<0>>, s, <<0>>) /\ IsJoined(<<0>> \o s, <<0>>, s)
  BY <1>1, <1>3, JoinedShape
<1>5. Len(s \o <<0>>) = Len(s) + 1 /\ Len(<<0>> \o s) = 1 + Len(s)
      /\ s \o <<0>> \in Seq(Nat) /\ <<0>> \o s \in Seq(Nat)
  BY <1>3, <1>4 DEF IsJoined
<1>6. StartOf(slice) = (s \o <<0>>)[1] /\ EndOf(slice) = (<<0>> \o s)[Len(s) + 1]
  BY <1>1, <1>2, <1>5
<1>7. CASE s = <<>>
  <2>1. s \o <<0>> = <<0>> /\ <<0>> \o s = <<0>>
    BY <1>7
  <2> QED BY <1>1, <1>6, <2>1, <1>7 DEF s
<1>8. CASE s # <<>>
  <2>1. Len(s) \in Nat \ {0}
    BY <1>1, <1>8, EmptySeq
  <2>2. 1 \in 1..Len(s) /\ Len(s) \in 1..Len(s) /\ Len(<<0>>) + Len(s) = Len(s) + 1
    BY <1>3, <2>1
  <2>3. (s \o <<0>>)[1] = s[1] /\ (<<0>> \o s)[Len(s) + 1] = s[Len(s)]
    <3>1. (s \o <<0>>)[1] = s[1]
      BY <1>4, <2>2 DEF IsJoined
    <3>2. (<<0>> \o s)[Len(<<0>>) + Len(s)] = s[Len(s)]
      BY <1>4, <2>2 DEF IsJoined
    <3> QED BY <2>2, <3>1, <3>2
  <2>4. s[1] \in Nat /\ s[Len(s)] \in Nat
    BY <1>1, <2>2
  <2> QED BY <1>1, <1>6, <2>3, <2>4 DEF s
<1> QED BY <1>7, <1>8

LEMMA Sorting ==
  ASSUME NEW U \in SUBSET Nat, NEW slices \in Seq(SlicesOf(U))
  PROVE  \E order : Sorts(order, slices)
<1> DEFINE n == Len(slices)
           S == 1..n
           R == {p \in S \X S : Precedes(slices, p[1], p[2])}
           rank(x) == Cardinality({y \in S : Precedes(slices, y, x)})
           order == [k \in 1..Cardinality(S) |-> CHOOSE x \in S : rank(x) = k - 1]
<1>1. n \in Nat /\ DOMAIN slices = S
  OBVIOUS
<1>2. IsFiniteSet(S) /\ Cardinality(S) = n
  <2>1. 1 \in Int /\ n \in Int /\ (IF 1 > n THEN 0 ELSE n - 1 + 1) = n
    BY <1>1
  <2> HIDE DEF n
  <2> QED BY <2>1, FS_Interval
<1>3. \A x, y \in S : <<x, y>> \in R <=> Precedes(slices, x, y)
  OBVIOUS
<1>4. \A x \in S : StartOf(slices[x]) \in Nat /\ EndOf(slices[x]) \in Nat
  BY StartsAndEnds
<1>5. S \in SUBSET Nat
  BY <1>1
<1> HIDE DEF R, S, n
<1>6. Orders(R, S)
  <2> DEFINE B(x, y) == Precedes(slices, x, y)
  <2>1. \A x \in S : x \in Nat
    BY <1>5
  <2>2. \A x \in S : ~B(x, x)
    BY <1>4, <2>1 DEF Precedes
  <2>3. \A x, y \in S : x # y => B(x, y) \/ B(y, x)
    BY <1>4, <2>1 DEF Precedes
  <2>4. \A x, y, z \in S : B(x, y) /\ B(y, z) => B(x, z)
    <3> SUFFICES ASSUME NEW x \in S, NEW y \in S, NEW z \in S, B(x, y), B(y, z)
                 PROVE  B(x, z)
      OBVIOUS
    <3>1. /\ StartOf(slices[x]) \in Nat /\ EndOf(slices[x]) \in Nat /\ x \in Nat
          /\ StartOf(slices[y]) \in Nat /\ EndOf(slices[y]) \in Nat /\ y \in Nat
          /\ StartOf(slices[z]) \in Nat /\ EndOf(slices[z]) \in Nat /\ z \in Nat
      BY <1>4, <2>1, Zenon
    <3> QED BY <3>1 DEF Precedes
  <2> HIDE DEF B
  <2>5. \A x, y \in S : <<x, y>> \in R <=> B(x, y)
    BY <1>3 DEF B
  <2> QED BY <2>2, <2>3, <2>4, <2>5, Zenon DEF Orders
<1>7. \A x \in S : {y \in S : <<y, x>> \in R} = {y \in S : Precedes(slices, y, x)}
  BY <1>3
<1>8. ASSUME NEW k \in 1..Cardinality(S), \E x \in S : rank(x) = k - 1
      PROVE  order[k] \in S /\ rank(order[k]) = k - 1
  <2> HIDE DEF rank
  <2> QED BY <1>8
<1>9. Places(order, S, R)
  <2> HIDE DEF order
  <2> QED BY <1>7, <1>8 DEF Places
<1>10. Arranges(order, S, R)
  <2> HIDE DEF order
  <2> QED BY <1>2, <1>6, <1>9, ArrangedInOrder
<1>11. SortedSlices(slices) = [k \in S |-> slices[order[k]]]
  <2>1. \A x : rank(x) = Cardinality({y \in S :
          \/ StartOf(slices[y]) < StartOf(slices[x])
          \/ StartOf(slices[y]) = StartOf(slices[x]) /\ EndOf(slices[y]) < EndOf(slices[x])
          \/ StartOf(slices[y]) = StartOf(slices[x]) /\ EndOf(slices[y]) = EndOf(slices[x])
             /\ y < x})
    <3>1. \A x, y : Precedes(slices, y, x) <=>
          \/ StartOf(slices[y]) < StartOf(slices[x])
          \/ StartOf(slices[y]) = StartOf(slices[x]) /\ EndOf(slices[y]) < EndOf(slices[x])
          \/ StartOf(slices[y]) = StartOf(slices[x]) /\ EndOf(slices[y]) = EndOf(slices[x])
             /\ y < x
      BY DEF Precedes
    <3> QED BY <3>1
  <2> DEFINE rank2(x) == Cardinality({y \in S :
          \/ StartOf(slices[y]) < StartOf(slices[x])
          \/ StartOf(slices[y]) = StartOf(slices[x]) /\ EndOf(slices[y]) < EndOf(slices[x])
          \/ StartOf(slices[y]) = StartOf(slices[x]) /\ EndOf(slices[y]) = EndOf(slices[x])
             /\ y < x})
             order2 == [k \in 1..Cardinality(S) |-> CHOOSE x \in S : rank2(x) = k - 1]
  <2>2. order2 = order
    <3> HIDE DEF rank, rank2
    <3>1. \A x : rank(x) = rank2(x)
      BY <2>1 DEF rank2
    <3> QED BY <3>1
  <2>3. SortedSlices(slices) = [k \in S |-> slices[order2[k]]]
    BY <1>1 DEF SortedSlices, Arranged, StartOf, EndOf
  <2> HIDE DEF order, order2
  <2> QED BY <2>2, <2>3
<1> HIDE DEF order
<1>12. Sorts(order, slices)
  BY <1>2, <1>3, <1>10, <1>11 DEF Sorts, Arranges, S, n
<1> QED BY <1>12


\* What the backward pass starts from, and its steps.
Backward(U) == [res : Seq(U), reference : Seq(U), panic : BOOLEAN]
FirstPass(r) == [res |-> r.first, reference |-> r.first \o r.second, panic |-> r.panic]

Passes(acc, s, n) ==
  /\ acc[n - 1] = FirstPass(DedupAB(s[n - 1].lines, s[n].lines))
  /\ \A k \in 1..(n - 2) : acc[k] = DedupEarlier(s[k], acc[k + 1])

LEMMA DedupABWithin ==
  ASSUME NEW U \in SUBSET Nat, NEW a \in Seq(U), NEW b \in Seq(U)
  PROVE  /\ DedupAB(a, b).first \in Seq(U) /\ DedupAB(a, b).second \in Seq(U)
         /\ DedupAB(a, b).panic \in BOOLEAN
<1>1. a \in Seq(Nat) /\ b \in Seq(Nat) /\ ToSet(a) \subseteq U /\ ToSet(b) \subseteq U
  BY InSubset
<1> DEFINE r == DedupAB(a, b)
<1>2. /\ r.first \in Seq(Nat) /\ r.second \in Seq(Nat) /\ r.panic \in BOOLEAN
      /\ ToSet(r.first) \subseteq U /\ ToSet(r.second) \subseteq U
  BY <1>1, DedupABSound
<1> HIDE DEF r
<1>3. r.first \in Seq(U) /\ r.second \in Seq(U) /\ r.panic \in BOOLEAN
  BY <1>2, InSubset
<1> QED BY <1>3 DEF r

LEMMA PassTypes ==
  ASSUME NEW U \in SUBSET Nat, NEW a \in Seq(U), NEW b \in Seq(U)
  PROVE  /\ FirstPass(DedupAB(a, b)) \in Backward(U)
         /\ \A slice \in SlicesOf(U), acc \in Backward(U) : DedupEarlier(slice, acc) \in Backward(U)
<1>1. FirstPass(DedupAB(a, b)) \in Backward(U)
  <2> DEFINE r == DedupAB(a, b)
  <2>1. r.first \in Seq(U) /\ r.second \in Seq(U) /\ r.panic \in BOOLEAN
    BY DedupABWithin
  <2> HIDE DEF r
  <2>2. r.first \o r.second \in Seq(U)
    BY <2>1
  <2>3. FirstPass(r) \in Backward(U)
    BY <2>1, <2>2 DEF FirstPass, Backward
  <2> QED BY <2>3 DEF r
<1>2. ASSUME NEW slice \in SlicesOf(U), NEW acc \in Backward(U)
      PROVE  DedupEarlier(slice, acc) \in Backward(U)
  <2> DEFINE r == DedupAB(slice.lines, acc.reference)
  <2>1. slice.lines \in Seq(U) /\ acc.reference \in Seq(U) /\ acc.res \in Seq(U)
        /\ acc.panic \in BOOLEAN
    BY DEF SlicesOf, Backward
  <2>2. r.first \in Seq(U) /\ r.second \in Seq(U) /\ r.panic \in BOOLEAN
    BY <2>1, DedupABWithin
  <2>3. DedupEarlier(slice, acc) = [res |-> r.first \o acc.res,
          reference |-> r.first \o r.second, panic |-> acc.panic \/ r.panic]
    BY DEF DedupEarlier
  <2> HIDE DEF r
  <2>4. r.first \o r.second \in Seq(U) /\ r.first \o acc.res \in Seq(U)
    BY <2>1, <2>2
  <2>5. (acc.panic \/ r.panic) \in BOOLEAN
    BY Zenon
  <2> QED BY <2>3, <2>4, <2>5 DEF Backward
<1> QED BY <1>1, <1>2

(* Two or more slices: the pass over them, last but one to first.          *)
LEMMA PassesExist ==
  ASSUME NEW U \in SUBSET Nat, NEW slices \in Seq(SlicesOf(U)), NEW s, s = SortedSlices(slices),
         NEW n, n = Len(slices), n > 1, s \in [1..n -> SlicesOf(U)]
  PROVE  \E acc \in [1..(n - 1) -> Backward(U)] :
           /\ Passes(acc, s, n)
           /\ DedupLineSlices(slices) =
                [result |-> acc[1].res,
                 last |-> MakeSliceFromLines(DedupAB(s[n - 1].lines, s[n].lines).second,
                                             s[n].generation),
                 panic |-> acc[1].panic]
<1> DEFINE m == n - 2
           V == Backward(U)
           base == FirstPass(DedupAB(s[n - 1].lines, s[n].lines))
           G == [w \in (1..m) \X V |-> DedupEarlier(s[w[1]], w[2])]
           t == SubSeq(s, 1, m)
           Body(g) == [c \in SUBSET (1..m) |-> IF c = {} THEN base
                         ELSE DedupEarlier(t[Min(c)], g[c \ {Min(c)}])]
           iter == CHOOSE g : g = Body(g)
           acc == [k \in 1..(n - 1) |-> iter[k..m]]
<1>0. n \in Nat /\ m \in Nat /\ n - 1 = m + 1 /\ n - 1 \in 1..n /\ n \in 1..n
      /\ 1..m \subseteq 1..n
  OBVIOUS
<1> HIDE DEF m
<1>1. s \in Seq(SlicesOf(U)) /\ Len(s) = n
  <2>1. Len(s) = n /\ DOMAIN s = 1..n
    BY <1>0
  <2> QED BY <1>0, SeqDef, LenProperties
<1>2. DOMAIN t = 1..m /\ \A k \in 1..m : t[k] = s[k]
  BY <1>0, <1>1
<1> HIDE DEF t
<1>3. \A k \in 1..n : s[k] \in SlicesOf(U) /\ s[k].lines \in Seq(U)
  BY DEF SlicesOf
<1>4. base \in V
  BY <1>0, <1>3, PassTypes
<1>5. G \in [(1..m) \X V -> V]
  <2>1. ASSUME NEW k \in 1..m, NEW e \in V PROVE DedupEarlier(s[k], e) \in V
    BY <1>0, <1>3, PassTypes
  <2> HIDE DEF V
  <2> QED BY <2>1
<1> HIDE DEF V, base
<1>6. PICK f \in [SUBSET (1..m) -> V] : IsFoldRight(f, m, base, G)
  <2> HIDE DEF G
  <2> QED BY <1>0, <1>4, <1>5, FoldRightExists
<1>7. ASSUME NEW c \in SUBSET (1..m), c # {}
      PROVE  Min(c) \in 1..m /\ Min(c) \in c
  <2>1. c \in SUBSET Nat
    BY <1>0
  <2> QED BY <1>7, <2>1, MinOf
<1>8. f = Body(f)
  <2>1. ASSUME NEW c \in SUBSET (1..m), c # {}
        PROVE  f[c] = DedupEarlier(t[Min(c)], f[c \ {Min(c)}])
    <3>1. Min(c) \in 1..m /\ c \ {Min(c)} \in SUBSET (1..m)
      BY <1>7, <2>1
    <3>2. f[c \ {Min(c)}] \in V
      BY <1>6, <3>1
    <3>3. f[c] = G[<<Min(c), f[c \ {Min(c)}]>>]
      BY <1>6, <2>1 DEF IsFoldRight
    <3> QED BY <1>2, <3>1, <3>2, <3>3
  <2>2. f[{}] = base
    BY <1>6 DEF IsFoldRight
  <2> QED BY <1>6, <2>1, <2>2
<1>9. iter = Body(iter)
  <2> HIDE DEF Body
  <2> QED BY <1>8
<1>10. \A c \in SUBSET (1..m) : iter[c] = IF c = {} THEN base
           ELSE DedupEarlier(t[Min(c)], iter[c \ {Min(c)}])
  <2> HIDE DEF iter
  <2> QED BY <1>9
<1>11. FoldRight(DedupEarlier, t, base) = iter[1..m]
  BY <1>2 DEF FoldRight, MapThenFoldSet
<1> HIDE DEF iter
<1>12. ASSUME NEW k \in 1..m
       PROVE  iter[k..m] = DedupEarlier(s[k], iter[(k + 1)..m])
  <2>1. k..m # {} /\ Min(k..m) = k /\ (k..m) \ {k} = (k + 1)..m
    BY <1>0, FirstOfInterval
  <2>2. k..m \in SUBSET (1..m)
    BY <1>0
  <2> QED BY <1>2, <1>10, <2>1, <2>2
<1>13. iter[(m + 1)..m] = base
  <2>1. (m + 1)..m = {}
    BY <1>0
  <2> QED BY <1>10, <2>1
<1>14. \A k \in 0..m : iter[(m + 1 - k)..m] \in V
  <2> DEFINE D == {k \in 0..m : iter[(m + 1 - k)..m] \in V}
  <2>1. 0 \in D
    <3>1. m + 1 - 0 = m + 1 /\ 0 \in 0..m
      BY <1>0
    <3> QED BY <1>4, <1>13, <3>1
  <2>2. ASSUME NEW k \in 0..(m - 1), k \in D PROVE k + 1 \in D
    <3>1. m - k \in 1..m /\ m + 1 - (k + 1) = m - k /\ (m - k) + 1 = m + 1 - k /\ k + 1 \in 0..m
      BY <1>0
    <3>2. iter[(m - k)..m] = DedupEarlier(s[m - k], iter[(m + 1 - k)..m])
      BY <1>12, <3>1
    <3>3. s[m - k] \in SlicesOf(U)
      BY <1>0, <1>3, <3>1
    <3>4. iter[(m + 1 - k)..m] \in V
      BY <2>2
    <3>5. iter[(m - k)..m] \in V
      BY <1>0, <1>3, <3>2, <3>3, <3>4, PassTypes DEF V
    <3> QED BY <3>1, <3>5
  <2>3. 0..m \subseteq D
    <3> HIDE DEF D
    <3> QED BY <1>0, <2>1, <2>2, Upward
  <2> QED BY <2>3
<1>15. acc \in [1..(n - 1) -> V]
  <2>1. ASSUME NEW k \in 1..(n - 1) PROVE iter[k..m] \in V
    <3>1. m + 1 - k \in 0..m /\ m + 1 - (m + 1 - k) = k
      BY <1>0
    <3> QED BY <1>14, <3>1
  <2> QED BY <2>1
<1>16. Passes(acc, s, n)
  <2>1. acc[n - 1] = base
    BY <1>0, <1>13
  <2>2. ASSUME NEW k \in 1..(n - 2) PROVE acc[k] = DedupEarlier(s[k], acc[k + 1])
    <3>1. k \in 1..m /\ k \in 1..(n - 1) /\ k + 1 \in 1..(n - 1)
      BY <1>0 DEF m
    <3> QED BY <1>12, <3>1
  <2> HIDE DEF acc
  <2> QED BY <2>1, <2>2 DEF Passes, base
<1>17. DedupLineSlices(slices) =
         [result |-> acc[1].res,
          last |-> MakeSliceFromLines(DedupAB(s[n - 1].lines, s[n].lines).second,
                                      s[n].generation),
          panic |-> acc[1].panic]
  <2>1. acc[1] = iter[1..m]
    BY <1>0
  <2>2. n # 1
    OBVIOUS
  <2>3. DedupLineSlices(slices) =
          LET a == FoldRight(DedupEarlier, t, base) IN
          [result |-> a.res,
           last |-> MakeSliceFromLines(DedupAB(s[n - 1].lines, s[n].lines).second,
                                       s[n].generation),
           panic |-> a.panic]
    BY <2>2 DEF DedupLineSlices, FirstPass, base, t, m
  <2> QED BY <1>11, <2>1, <2>3
<1> HIDE DEF acc
<1> QED BY <1>15, <1>16, <1>17 DEF V


-----------------------------------------------------------------------------
(* Windows: the slices that polls hand over when the log has a line per    *)
(* tick.                                                                   *)

Consecutive(s) ==
  s \in Seq(Nat) /\ s # <<>> /\ \A j \in 1..Len(s) : s[j] = s[1] + (j - 1)

LEMMA ConsecutiveLines ==
  ASSUME NEW s, Consecutive(s)
  PROVE  /\ Len(s) \in Nat \ {0} /\ s[1] \in Nat /\ s[Len(s)] = s[1] + (Len(s) - 1)
         /\ s[1] <= s[Len(s)] /\ s[Len(s)] \in Nat
         /\ Ordered(s) /\ ToSet(s) = s[1]..s[Len(s)]
<1>1. s \in Seq(Nat) /\ Len(s) \in Nat \ {0} /\ DOMAIN s = 1..Len(s)
  BY EmptySeq DEF Consecutive
<1>2. 1 \in 1..Len(s) /\ Len(s) \in 1..Len(s) /\ s[1] \in Nat
  BY <1>1
<1>3. \A j \in 1..Len(s) : s[j] = s[1] + (j - 1)
  BY DEF Consecutive
<1>4. s[Len(s)] = s[1] + (Len(s) - 1)
  BY <1>2, <1>3
<1>5. Ordered(s)
  BY <1>1, <1>2, <1>3 DEF Ordered
<1>6. ToSet(s) = s[1]..s[Len(s)]
  <2>1. ASSUME NEW l \in s[1]..s[Len(s)] PROVE \E j \in 1..Len(s) : s[j] = l
    <3>1. l - s[1] + 1 \in 1..Len(s) /\ s[1] + ((l - s[1] + 1) - 1) = l
      BY <1>1, <1>2, <1>4
    <3>2. s[l - s[1] + 1] = s[1] + ((l - s[1] + 1) - 1)
      BY <1>3, <3>1
    <3> QED BY <3>1, <3>2
  <2>2. ASSUME NEW j \in 1..Len(s) PROVE s[j] \in s[1]..s[Len(s)]
    BY <1>1, <1>2, <1>3, <1>4
  <2> QED BY <1>1, <2>1, <2>2 DEF ToSet
<1>7. s[1] <= s[Len(s)] /\ s[Len(s)] \in Nat
  BY <1>1, <1>2, <1>4
<1> QED BY <1>1, <1>2, <1>4, <1>5, <1>6, <1>7

(* Putting two slices one after the other.                                 *)
LEMMA OrderedJoined ==
  ASSUME NEW u \in Seq(Nat), NEW v \in Seq(Nat), Ordered(u), Ordered(v),
         \A i \in 1..Len(u), j \in 1..Len(v) : u[i] < v[j]
  PROVE  Ordered(u \o v)
<1> DEFINE s == u \o v
<1>1. Len(u) \in Nat /\ Len(v) \in Nat /\ IsJoined(s, u, v)
  BY JoinedShape
<1> HIDE DEF s
<1>2. /\ Len(s) = Len(u) + Len(v)
      /\ \A j \in 1..Len(u) : s[j] = u[j]
      /\ \A j \in 1..Len(v) : s[Len(u) + j] = v[j]
  BY <1>1 DEF IsJoined
<1>3. ASSUME NEW i \in 1..Len(s), NEW j \in 1..Len(s), i < j PROVE s[i] < s[j]
  <2>1. CASE j <= Len(u)
    <3>1. i \in 1..Len(u) /\ j \in 1..Len(u)
      BY <1>1, <1>2, <1>3, <2>1
    <3> QED BY <1>2, <1>3, <3>1 DEF Ordered
  <2>2. CASE i <= Len(u) /\ ~(j <= Len(u))
    <3>1. i \in 1..Len(u) /\ j - Len(u) \in 1..Len(v) /\ Len(u) + (j - Len(u)) = j
      BY <1>1, <1>2, <1>3, <2>2
    <3>2. s[i] = u[i] /\ s[Len(u) + (j - Len(u))] = v[j - Len(u)]
      BY <1>2, <3>1
    <3> QED BY <3>1, <3>2
  <2>3. CASE ~(i <= Len(u))
    <3>1. /\ i - Len(u) \in 1..Len(v) /\ j - Len(u) \in 1..Len(v)
          /\ Len(u) + (i - Len(u)) = i /\ Len(u) + (j - Len(u)) = j
          /\ i - Len(u) < j - Len(u)
      BY <1>1, <1>2, <1>3, <2>3
    <3>2. s[Len(u) + (i - Len(u))] = v[i - Len(u)] /\ s[Len(u) + (j - Len(u))] = v[j - Len(u)]
      BY <1>2, <3>1
    <3>3. v[i - Len(u)] < v[j - Len(u)]
      BY <3>1 DEF Ordered
    <3> QED BY <3>1, <3>2, <3>3
  <2> QED BY <1>1, <1>2, <2>1, <2>2, <2>3
<1>4. Ordered(s)
  BY <1>3 DEF Ordered
<1> QED BY <1>4 DEF s

\* The lines below limit of a window, as DedupAB leaves them.
Below(first, a, limit) ==
  /\ first \in Seq(Nat) /\ Ordered(first)
  /\ IF first = <<>> THEN limit = a[1] ELSE first[1] = a[1] /\ Consecutive(first)
  /\ \A j \in 1..Len(first) : a[1] <= first[j] /\ first[j] < limit /\ first[j] <= a[Len(a)]
  /\ limit <= a[Len(a)] + 1 => ToSet(first) = a[1]..(limit - 1)

LEMMA BelowIs ==
  ASSUME NEW a, Consecutive(a), NEW limit \in Nat, a[1] <= limit
  PROVE  /\ limit > a[Len(a)] => Below(a, a, limit)
         /\ limit <= a[Len(a)] => /\ limit - a[1] \in 0..(Len(a) - 1)
                                  /\ Below(Upto(a, limit - a[1]), a, limit)
<1> DEFINE n == Len(a)
           k == limit - a[1]
<1>1. /\ n \in Nat \ {0} /\ a[1] \in Nat /\ a[n] \in Nat /\ a[n] = a[1] + (n - 1)
      /\ Ordered(a) /\ ToSet(a) = a[1]..a[n] /\ a \in Seq(Nat)
      /\ \A j \in 1..n : a[j] = a[1] + (j - 1)
  BY ConsecutiveLines DEF Consecutive
<1>2. ASSUME limit > a[n] PROVE Below(a, a, limit)
  <2>1. \A j \in 1..n : a[1] <= a[j] /\ a[j] < limit /\ a[j] <= a[n]
    <3> SUFFICES ASSUME NEW j \in 1..n PROVE a[1] <= a[j] /\ a[j] < limit /\ a[j] <= a[n]
      OBVIOUS
    <3> DEFINE from == a[1]
               to == a[n]
               at == a[j]
    <3>1. /\ n \in Nat /\ from \in Nat /\ to = from + (n - 1) /\ at = from + (j - 1)
          /\ limit > to
      BY <1>1, <1>2
    <3> HIDE DEF from, to, at, n
    <3>2. from <= at /\ at < limit /\ at <= to
      BY <3>1
    <3> QED BY <3>2 DEF from, to, at
  <2>2. limit <= a[n] + 1 => a[1]..a[n] = a[1]..(limit - 1)
    BY <1>1, <1>2
  <2>3. a # <<>> /\ Consecutive(a)
    BY DEF Consecutive
  <2> QED BY <1>1, <2>1, <2>2, <2>3 DEF Below
<1>3. ASSUME limit <= a[n] PROVE k \in 0..(n - 1) /\ Below(Upto(a, k), a, limit)
  <2>1. k \in 0..(n - 1) /\ k \in 0..n /\ k \in Nat
    BY <1>1, <1>3
  <2> DEFINE u == Upto(a, k)
  <2>2. u \in Seq(Nat) /\ Len(u) = k /\ \A j \in 1..k : u[j] = a[j]
    BY <1>1, <2>1, UptoShape
  <2>3. limit = a[1] + k
    BY <1>1
  <2> HIDE DEF u, k, n
  <2>4. \A j \in 1..k : u[j] = a[1] + (j - 1)
    <3>1. \A j \in 1..k : j \in 1..n
      BY <1>1, <2>1
    <3> QED BY <1>1, <2>2, <3>1
  <2>5. Ordered(u)
    <3>1. ASSUME NEW i \in 1..k, NEW j \in 1..k, i < j PROVE u[i] < u[j]
      <4>1. u[i] = a[1] + (i - 1) /\ u[j] = a[1] + (j - 1)
        BY <2>4
      <4>2. i \in Nat /\ j \in Nat
        BY <2>1
      <4> QED BY <1>1, <3>1, <4>1, <4>2
    <3> QED BY <2>2, <3>1 DEF Ordered
  <2>10. u = <<>> => limit = a[1]
    BY <1>1, <2>2, <2>3
  <2>6. u # <<>> => u[1] = a[1] /\ Consecutive(u)
    <3> SUFFICES ASSUME u # <<>> PROVE u[1] = a[1] /\ Consecutive(u)
      OBVIOUS
    <3>1. k # 0
      BY <2>1, <2>2, EmptySeq
    <3>2. 1 \in 1..k
      BY <2>1, <3>1
    <3>3. u[1] = a[1]
      BY <2>2, <3>2
    <3> QED BY <2>2, <2>4, <3>3 DEF Consecutive
  <2>7. ASSUME NEW j \in 1..k PROVE a[1] <= u[j] /\ u[j] < limit /\ u[j] <= a[n]
    <3>1. u[j] = a[1] + (j - 1) /\ j \in Nat /\ 1 <= j /\ j <= k
      BY <2>1, <2>4
    <3>2. a[1] \in Nat /\ n \in Nat /\ a[n] = a[1] + (n - 1) /\ k \in Nat /\ k <= n - 1
      BY <1>1, <2>1
    <3>3. a[1] <= u[j] /\ u[j] < limit
      BY <2>3, <3>1, <3>2
    <3>4. u[j] <= a[n]
      BY <3>1, <3>2
    <3> QED BY <3>3, <3>4
  <2>8. ToSet(u) = a[1]..(limit - 1)
    <3>1. CASE k = 0
      <4>1. u = <<>> /\ a[1]..(limit - 1) = {}
        BY <1>1, <2>2, <2>3, <3>1
      <4> QED BY <4>1 DEF ToSet
    <3>2. CASE k # 0
      <4>1. u # <<>>
        BY <2>2, <3>2
      <4>2. ToSet(u) = u[1]..u[Len(u)] /\ u[1] = a[1]
        BY <2>6, <4>1, ConsecutiveLines
      <4>3. k \in 1..k
        BY <2>1, <3>2
      <4>4. u[Len(u)] = limit - 1
        <5>1. u[k] = a[1] + (k - 1) /\ Len(u) = k
          BY <2>2, <2>4, <4>3, Zenon
        <5>2. a[1] \in Nat /\ k \in Nat
          BY <1>1, <2>1, Zenon
        <5> QED BY <2>3, <5>1, <5>2
      <4> QED BY <4>2, <4>4
    <3> QED BY <3>1, <3>2
  <2>9. Below(u, a, limit)
    BY <2>2, <2>5, <2>6, <2>7, <2>8, <2>10 DEF Below, n
  <2> QED BY <2>1, <2>9 DEF u
<1> QED BY <1>2, <1>3


Heads(p) == {q \in Pairs : q = p \/ q[2][1] = p[1][1]}

(* Of overlapping slices the one returned begins where the first one does, *)
(* if the second one's first line is in it.                                *)
LEMMA HeadKept ==
  ASSUME NEW p \in Pairs, Overlaps(p), Ordered(p[1]), Ordered(p[2]), bFirstOf(p) # -1
  PROVE  \E y \in Seq(Nat) : /\ DedupPair[p] = Result(<<>>, y)
                             /\ y # <<>> /\ Ordered(y) /\ y[1] = p[1][1]
<1>1. p[1] # <<>> /\ p[2] # <<>> /\ IssueOf(p) # -1
  BY OverlapsNonempty, OrderedIssue
<1>2. \E k \in 1..Len(p[1]) : p[1][k] = p[2][1]
  <2>1. IsIndexOf(bFirstOf(p), p[2][1], p[1]) /\ Len(p[1]) \in Nat
    BY <1>1, FirstLines
  <2> DEFINE k == bFirstOf(p)
  <2> HIDE DEF k
  <2>2. k \in -1..(Len(p[1]) - 1) /\ p[1][k + 1] = p[2][1] /\ k # -1
    BY <2>1, Zenon DEF IsIndexOf, k
  <2>3. k + 1 \in 1..Len(p[1])
    BY <2>1, <2>2
  <2> QED BY <2>2, <2>3
<1>3. ASSUME NEW q \in OrderedFrom(p), q \in Heads(p), ~Stops(q)
      PROVE  After(q) \in Heads(p)
  <2> DEFINE x == q[1]
             y == q[2]
             i == IssueOf(q)
             r == After(q)
  <2>1. /\ x \in Seq(Nat) /\ y \in Seq(Nat) /\ i \in Nat /\ IsIssue(i, x, y) /\ IsIssue(i, y, x)
        /\ q \in Pairs /\ x # <<>> /\ y # <<>> /\ (q = p \/ i # 0)
    BY <1>3, FixedPair, Turn, IssueSymmetric DEF OrderedFrom, From2
  <2>2. r \in Pairs
    BY <1>3, <2>1, AfterPair
  <2>3. i # 0 => x[1] = y[1]
    <3> SUFFICES ASSUME i # 0 PROVE x[1] = y[1]
      OBVIOUS
    <3>1. 1 \in 1..i
      BY <2>1
    <3> QED BY <2>1, <3>1 DEF IsIssue
  <2>4. q # p => y[1] = p[1][1]
    BY <1>3 DEF Heads
  <2>5. q = p => x = p[1] /\ y = p[2]
    OBVIOUS
  <2>6. CASE \E s \in Seq(Nat) : r = <<x, s>> /\ Inserts(s, y, x, i)
    <3>1. PICK s \in Seq(Nat) : r = <<x, s>> /\ Inserts(s, y, x, i)
      BY <2>6
    <3>2. AgreesLonger(s, y, x, i)
      BY <2>1, <3>1, InsertsAgree
    <3>3. s[1] = x[1]
      <4>1. PICK o \in Nat : \A j \in 1..(i + o + 1) : s[j] = x[j]
        BY <3>2 DEF AgreesLonger
      <4>2. 1 \in 1..(i + o + 1)
        BY <2>1
      <4> QED BY <4>1, <4>2
    <3>4. x[1] = p[1][1]
      BY <2>1, <2>3, <2>4, <2>5
    <3> QED BY <2>2, <3>1, <3>3, <3>4 DEF Heads
  <2>7. CASE \E s \in Seq(Nat) : r = <<s, y>> /\ (Inserts(s, x, y, i) \/ Appends(s, x, y, i))
    <3>1. PICK s \in Seq(Nat) : r = <<s, y>> /\ (Inserts(s, x, y, i) \/ Appends(s, x, y, i))
      BY <2>7
    <3>2. ASSUME i = 0 PROVE FALSE
      <4>1. q = p /\ Inserts(s, x, y, 0)
        BY <2>1, <3>1, <3>2 DEF Appends
      <4>2. PICK o \in Nat : o # 0 /\
              \A j \in (0 + 1)..(0 + o), k \in (0 + 1)..Len(x) : y[j] # x[k]
        BY <4>1, Zenon DEF Inserts
      <4>3. 1 \in (0 + 1)..(0 + o) /\ 1..Len(x) = (0 + 1)..Len(x)
        BY <4>2
      <4>4. \A k \in 1..Len(x) : y[1] # x[k]
        BY <4>2, <4>3
      <4> QED BY <1>2, <2>5, <4>1, <4>4
    <3>3. y[1] = p[1][1]
      BY <2>3, <2>4, <2>5, <3>2
    <3> QED BY <2>2, <3>1, <3>3 DEF Heads
  <2>8. r = <<Fixed(q).x, Fixed(q).y>>
    BY DEF After
  <2> HIDE DEF r
  <2>9. r \in Heads(p)
    BY <1>3, <2>1, <2>6, <2>7, Turn DEF r
  <2> QED BY <2>9 DEF r
<1>4. p \in Heads(p)
  BY DEF Heads
<1>5. PICK q \in OrderedFrom(p) :
        q \in Heads(p) /\ IssueOf(q) = -1 /\ DedupPair[p] = Result(<<>>, q[2])
  <2>1. \A q \in OrderedFrom(p) : q \in Heads(p) /\ ~Stops(q) => After(q) \in Heads(p)
    BY <1>3
  <2>2. \E q \in OrderedFrom(p) :
          q \in Heads(p) /\ IssueOf(q) = -1 /\ DedupPair[p] = Result(<<>>, q[2])
    BY <1>4, <2>1, OrderedFixed
  <2> QED BY <2>2
<1>6. q \in Pairs /\ q[2] # <<>> /\ Ordered(q[2])
  BY DEF OrderedFrom, From2
<1>7. q[2] \in Seq(Nat)
  BY <1>6 DEF Pairs
<1>8. q # p
  BY <1>1, <1>5
<1>9. q[2][1] = p[1][1]
  BY <1>5, <1>8 DEF Heads
<1> QED BY <1>5, <1>6, <1>7, <1>9

\* What DedupAB makes of a window a and a slice b that begins no earlier.
GoesBefore(r, a, b) ==
  \E first, second \in Seq(Nat) :
    /\ r = Result(first, second) /\ second # <<>>
    /\ Ordered(first \o second) /\ (first \o second)[1] = a[1]
    /\ Ordered(first) /\ \A j \in 1..Len(first) : a[1] <= first[j] /\ first[j] < b[1]
    /\ Consecutive(b) => second = b /\ Below(first, a, b[1])

LEMMA WindowFirst ==
  ASSUME NEW a, Consecutive(a), NEW b \in Seq(Nat), b # <<>>, Ordered(b), a[1] <= b[1]
  PROVE  GoesBefore(DedupAB(a, b), a, b)
<1> DEFINE p == <<a, b>>
           n == Len(a)
           m == Len(b)
           h == b[1]
           k == h - a[1]
<1>1. p \in Pairs /\ p[1] = a /\ p[2] = b /\ a \in Seq(Nat) /\ a # <<>>
      /\ DedupAB(a, b) = DedupPair[p]
  BY DEF Consecutive, Pairs, DedupAB
<1> HIDE DEF p
<1>2. /\ n \in Nat \ {0} /\ a[1] \in Nat /\ a[n] \in Nat /\ a[n] = a[1] + (n - 1) /\ a[1] <= a[n]
      /\ Ordered(a) /\ ToSet(a) = a[1]..a[n]
      /\ \A j \in 1..n : a[j] = a[1] + (j - 1)
  BY ConsecutiveLines DEF Consecutive
<1>3. m \in Nat \ {0} /\ h \in Nat /\ 1 \in 1..m
  BY EmptySeq
<1>4. \A j \in 1..m : b[j] \in Nat /\ h <= b[j]
  <2>1. ASSUME NEW j \in 1..m PROVE b[j] \in Nat /\ (j = 1 \/ 1 < j)
    BY <1>3
  <2> QED BY <1>3, <2>1 DEF Ordered
<1>5. /\ IsIndexOf(bFirstOf(p), h, a) /\ IsIndexOf(aLastOf(p), a[n], b)
  BY <1>1, FirstLines
<1>6. ASSUME NEW first \in Seq(Nat), Below(first, a, h), DedupPair[p] = Result(first, b)
      PROVE  GoesBefore(DedupAB(a, b), a, b)
  <2>1. Ordered(first) /\ \A j \in 1..Len(first) : a[1] <= first[j] /\ first[j] < h
    BY <1>6 DEF Below
  <2>2. \A i \in 1..Len(first), j \in 1..m : first[i] < b[j]
    <3>1. ASSUME NEW i \in 1..Len(first) PROVE first[i] \in Nat /\ first[i] < h
      BY <2>1
    <3> QED BY <1>3, <1>4, <3>1
  <2>3. Ordered(first \o b)
    BY <2>1, <2>2, OrderedJoined
  <2>4. (first \o b)[1] = a[1]
    <3>1. CASE first = <<>>
      <4>1. first \o b = b
        BY <3>1
      <4>2. h = a[1]
        BY <1>6, <3>1 DEF Below
      <4> QED BY <4>1, <4>2
    <3>2. CASE first # <<>>
      <4>1. first[1] = a[1] /\ Len(first) \in Nat \ {0}
        BY <1>6, <3>2, EmptySeq DEF Below
      <4>2. 1 \in 1..Len(first)
        BY <4>1
      <4>3. IsJoined(first \o b, first, b)
        BY JoinedShape
      <4> QED BY <4>1, <4>2, <4>3 DEF IsJoined
    <3> QED BY <3>1, <3>2
  <2> QED BY <1>1, <1>6, <2>1, <2>3, <2>4 DEF GoesBefore
<1>7. CASE h > a[n]
  <2>1. Below(a, a, h)
    BY <1>2, <1>3, <1>7, BelowIs
  <2>2. bFirstOf(p) = -1
    <3>1. \A j \in 1..n : a[j] # h
      BY <1>2, <1>3, <1>7
    <3>2. bFirstOf(p) \in -1..(n - 1) /\ (bFirstOf(p) # -1 => a[bFirstOf(p) + 1] = h)
      BY <1>5, Zenon DEF IsIndexOf
    <3> DEFINE f == bFirstOf(p)
    <3> HIDE DEF f
    <3>3. f \in -1..(n - 1) => f = -1 \/ f + 1 \in 1..n
      BY <1>2
    <3> QED BY <3>1, <3>2, <3>3 DEF f
  <2>3. aLastOf(p) = -1
    <3>1. \A j \in 1..m : b[j] # a[n]
      BY <1>2, <1>3, <1>4, <1>7
    <3>2. aLastOf(p) \in -1..(m - 1) /\ (aLastOf(p) # -1 => b[aLastOf(p) + 1] = a[n])
      BY <1>5, Zenon DEF IsIndexOf
    <3> DEFINE f == aLastOf(p)
    <3> HIDE DEF f
    <3>3. f \in -1..(m - 1) => f = -1 \/ f + 1 \in 1..m
      BY <1>3
    <3> QED BY <3>1, <3>2, <3>3 DEF f
  <2>4. ~Overlaps(p)
    BY <2>2, <2>3 DEF Overlaps
  <2>5. DedupPair[p] = Result(a, b)
    BY <1>1, <1>2, <2>2, <2>4, OrderedCases
  <2> QED BY <1>1, <1>6, <2>1, <2>5
<1>8. CASE h <= a[n]
  <2>1. k \in 0..(n - 1) /\ Below(Upto(a, k), a, h) /\ k \in 0..n
    BY <1>2, <1>3, <1>8, BelowIs
  <2>2. bFirstOf(p) = k
    <3>0. a[1] + k = h
      BY <1>2, <1>3
    <3> DEFINE f == bFirstOf(p)
    <3> HIDE DEF f, k
    <3>1. k + 1 \in 1..n /\ a[1] + ((k + 1) - 1) = h
      BY <1>2, <1>3, <2>1, <3>0
    <3>2. a[k + 1] = h
      BY <1>2, <3>1
    <3>3. /\ f \in -1..(n - 1) /\ (f # -1 => a[f + 1] = h)
          /\ f = -1 => \A j \in 1..n : a[j] # h
      BY <1>5, Zenon DEF IsIndexOf, f
    <3>4. f # -1
      BY <3>1, <3>2, <3>3
    <3>5. f + 1 \in 1..n /\ a[f + 1] = h
      BY <1>2, <3>3, <3>4
    <3>6. a[f + 1] = a[1] + ((f + 1) - 1)
      BY <1>2, <3>5
    <3>7. f = k
      BY <1>2, <1>3, <3>3, <3>4, <3>5, <3>6 DEF k
    <3> QED BY <3>7 DEF f
  <2>3. CASE ~Overlaps(p)
    <3>1. bFirstOf(p) # -1
      BY <2>1, <2>2
    <3>2. DedupPair[p] = Result(Upto(a, k), b)
      BY <1>1, <1>2, <2>2, <2>3, <3>1, OrderedCases
    <3>3. Upto(a, k) \in Seq(Nat)
      BY <1>1, <2>1, UptoShape
    <3> QED BY <1>6, <2>1, <3>2, <3>3
  <2>4. CASE Overlaps(p)
    <3>1. ~Consecutive(b)
      <4> SUFFICES ASSUME Consecutive(b) PROVE FALSE
        OBVIOUS
      <4> DEFINE t == From(a, k)
      <4>1. t \in Seq(Nat) /\ Len(t) = n - k /\ \A j \in 1..(n - k) : t[j] = a[k + j]
        BY <1>1, <2>1, FromShape
      <4>2. \A j \in 1..m : b[j] = h + (j - 1)
        BY DEF Consecutive
      <4>8. a[1] + k = h /\ k \in Nat /\ n - k \in Nat
        BY <1>2, <1>3, <2>1
      <4> HIDE DEF t, k, n, m, h
      <4>3. ASSUME NEW j \in 1..Len(t), j <= m PROVE t[j] = b[j]
        <5>1. j \in Nat /\ j \in 1..(n - k) /\ j \in 1..m
          BY <1>3, <4>1, <4>3, <4>8
        <5>2. k + j \in 1..n
          BY <1>2, <4>8, <5>1
        <5>3. t[j] = a[k + j] /\ b[j] = h + (j - 1)
          BY <4>1, <4>2, <5>1
        <5>4. a[k + j] = a[1] + ((k + j) - 1)
          BY <1>2, <5>2
        <5>5. a[1] \in Nat
          BY <1>2
        <5>6. a[1] + ((k + j) - 1) = h + (j - 1)
          BY <4>8, <5>1, <5>5
        <5> QED BY <5>3, <5>4, <5>6
      <4>4. IsIssue(Uncovered(p), t, b)
        BY <1>1, <2>2, <4>1, Issue DEF Uncovered, t
      <4>5. Uncovered(p) >= 0
        BY <2>1, <2>2, <2>4 DEF Overlaps
      <4> DEFINE u == Uncovered(p)
      <4> HIDE DEF u
      <4>6. u \in Nat \cup {-1} /\ u >= 0 /\ (u # -1 => u < Len(t) /\ u < m /\ t[u + 1] # b[u + 1])
        BY <4>4, <4>5, Zenon DEF IsIssue, u, m
      <4>7. u \in Nat /\ u + 1 \in 1..Len(t) /\ u + 1 <= m /\ t[u + 1] # b[u + 1]
        BY <1>3, <4>1, <4>6, <4>8
      <4> QED BY <4>3, <4>7
    <3>2. bFirstOf(p) # -1
      BY <2>1, <2>2
    <3>3. PICK y \in Seq(Nat) : /\ DedupPair[p] = Result(<<>>, y)
                                /\ y # <<>> /\ Ordered(y) /\ y[1] = a[1]
      BY <1>1, <1>2, <2>4, <3>2, HeadKept
    <3>4. <<>> \in Seq(Nat) /\ <<>> \o y = y /\ Len(<<>>) = 0 /\ Ordered(<<>>)
      BY DEF Ordered
    <3>5. \A j \in 1..Len(<<>>) : a[1] <= (<<>>)[j] /\ (<<>>)[j] < b[1]
      BY <3>4
    <3> QED BY <1>1, <3>1, <3>3, <3>4, <3>5 DEF GoesBefore
  <2> QED BY <2>3, <2>4
<1> QED BY <1>2, <1>3, <1>7, <1>8


LEMMA ConsecutiveJoined ==
  ASSUME NEW a, Consecutive(a), NEW b, Consecutive(b), a[1] <= b[1],
         b[1] <= a[Len(a)] + 1, NEW first, Below(first, a, b[1])
  PROVE  Consecutive(first \o b)
<1>1. /\ a[1] \in Nat /\ b[1] \in Nat /\ b \in Seq(Nat) /\ Len(b) \in Nat \ {0}
      /\ \A j \in 1..Len(b) : b[j] = b[1] + (j - 1)
  BY ConsecutiveLines DEF Consecutive
<1>2. first \in Seq(Nat) /\ Len(first) \in Nat /\ ToSet(first) = a[1]..(b[1] - 1)
  BY DEF Below
<1>3. CASE first = <<>>
  <2>1. first \o b = b
    BY <1>1, <1>3
  <2> QED BY <2>1
<1>4. CASE first # <<>>
  <2>1. Consecutive(first) /\ first[1] = a[1]
    BY <1>4 DEF Below
  <2>2. /\ Len(first) \in Nat \ {0} /\ first[Len(first)] = first[1] + (Len(first) - 1)
        /\ first[1] <= first[Len(first)] /\ first[Len(first)] \in Nat
        /\ ToSet(first) = first[1]..first[Len(first)]
        /\ \A j \in 1..Len(first) : first[j] = first[1] + (j - 1)
    BY <2>1, ConsecutiveLines DEF Consecutive
  <2> DEFINE m == Len(first)
             from == first[1]
             to == first[m]
             next == b[1]
  <2>a. /\ m \in Nat /\ to \in Nat /\ next \in Nat /\ from <= to /\ from \in Nat
        /\ to = from + (m - 1) /\ from..to = from..(next - 1)
    BY <1>1, <1>2, <2>1, <2>2
  <2>b. to = next - 1 /\ from + m = next
    <3> HIDE DEF m, from, to, next
    <3>1. to \in from..(next - 1) /\ (next - 1 > to => next - 1 \in from..to)
      BY ONLY <2>a
    <3> QED BY ONLY <2>a, <3>1
  <2>3. first[Len(first)] = b[1] - 1
    BY <2>b, Zenon
  <2>4. a[1] + Len(first) = b[1]
    BY <2>1, <2>b, Zenon
  <2> DEFINE s == first \o b
  <2>5. IsJoined(s, first, b)
    BY <1>1, <1>2, JoinedShape
  <2> HIDE DEF s
  <2>6. /\ s \in Seq(Nat) /\ Len(s) = Len(first) + Len(b)
        /\ \A j \in 1..Len(first) : s[j] = first[j]
        /\ \A j \in 1..Len(b) : s[Len(first) + j] = b[j]
    BY <2>5 DEF IsJoined
  <2>7. s[1] = a[1] /\ s # <<>>
    <3>1. 1 \in 1..Len(first)
      BY <2>2
    <3>2. Len(s) # 0
      BY <1>1, <2>2, <2>6
    <3> QED BY <2>1, <2>6, <3>1, <3>2
  <2>8. ASSUME NEW j \in 1..Len(s) PROVE s[j] = s[1] + (j - 1)
    <3>1. CASE j <= Len(first)
      <4>1. j \in 1..Len(first)
        BY <2>2, <2>6, <3>1
      <4> QED BY <2>1, <2>2, <2>6, <2>7, <4>1
    <3>2. CASE ~(j <= Len(first))
      <4>1. j - Len(first) \in 1..Len(b) /\ Len(first) + (j - Len(first)) = j
        BY <1>1, <2>2, <2>6, <3>2
      <4>2. s[j] = b[1] + ((j - Len(first)) - 1)
        BY <1>1, <2>6, <4>1
      <4>3. a[1] \in Nat /\ b[1] \in Nat /\ Len(first) \in Nat /\ j \in Nat /\ s[1] = a[1]
        BY <1>1, <1>2, <2>2, <2>6, <2>7
      <4>4. b[1] + ((j - Len(first)) - 1) = a[1] + (j - 1)
        BY ONLY <2>4, <4>3
      <4> QED BY <4>2, <4>3, <4>4
    <3> QED BY <3>1, <3>2
  <2>9. Consecutive(s)
    BY <2>6, <2>7, <2>8 DEF Consecutive
  <2> QED BY <2>9 DEF s
<1> QED BY <1>3, <1>4

\* The first and the last line of a slice that is a window.
First(slice) == slice.lines[1]
Final(slice) == slice.lines[Len(slice.lines)]

Windows(slices) ==
  /\ slices \in Seq(SlicesOf(Nat)) /\ slices # <<>>
  /\ \A i \in 1..Len(slices) : Consecutive(slices[i].lines)

\* s has the windows as they come in the log.
InLogOrder(s, slices) ==
  /\ s \in [1..Len(slices) -> SlicesOf(Nat)]
  /\ \A k \in 1..Len(slices) : Consecutive(s[k].lines)
  /\ \A k, l \in 1..Len(slices) : k < l =>
       First(s[k]) <= First(s[l]) /\ (First(s[k]) = First(s[l]) => Final(s[k]) <= Final(s[l]))
  /\ \A i \in 1..Len(slices) : \E k \in 1..Len(slices) : s[k] = slices[i]
  /\ \A k \in 1..Len(slices) : \E i \in 1..Len(slices) : s[k] = slices[i]

LEMMA WindowsInOrder ==
  ASSUME NEW slices, Windows(slices) PROVE InLogOrder(SortedSlices(slices), slices)
<1> DEFINE n == Len(slices)
           s == SortedSlices(slices)
<1>1. Nat \in SUBSET Nat /\ slices \in Seq(SlicesOf(Nat)) /\ n \in Nat
  BY DEF Windows
<1>2. PICK order : Sorts(order, slices)
  BY <1>1, Sorting
<1> HIDE DEF n, s
<1>3. /\ \A k \in 1..n : order[k] \in 1..n
      /\ \A k, l \in 1..n : k < l => Precedes(slices, order[k], order[l])
      /\ \A i \in 1..n : \E k \in 1..n : order[k] = i
      /\ s = [k \in 1..n |-> slices[order[k]]]
  BY <1>2 DEF Sorts, n, s
<1>4. \A i \in 1..n : slices[i] \in SlicesOf(Nat) /\ Consecutive(slices[i].lines)
  BY <1>1 DEF Windows, n
<1>5. ASSUME NEW i \in 1..n
      PROVE  /\ StartOf(slices[i]) = First(slices[i]) /\ EndOf(slices[i]) = Final(slices[i])
             /\ First(slices[i]) \in Nat /\ Final(slices[i]) \in Nat
  BY <1>1, <1>4, StartsAndEnds DEF First, Final, Consecutive
<1>6. \A k \in 1..n : s[k] = slices[order[k]]
  BY <1>3
<1>7. s \in [1..n -> SlicesOf(Nat)] /\ \A k \in 1..n : Consecutive(s[k].lines)
  BY <1>3, <1>4
<1>8. ASSUME NEW k \in 1..n, NEW l \in 1..n, k < l
      PROVE  /\ First(s[k]) <= First(s[l])
             /\ First(s[k]) = First(s[l]) => Final(s[k]) <= Final(s[l])
  <2>1. Precedes(slices, order[k], order[l]) /\ order[k] \in 1..n /\ order[l] \in 1..n
    BY <1>3, <1>8
  <2>2. s[k] = slices[order[k]] /\ s[l] = slices[order[l]]
    BY <1>6
  <2> QED BY <1>5, <2>1, <2>2 DEF Precedes
<1>9. \A i \in 1..n : \E k \in 1..n : s[k] = slices[i]
  BY <1>3, <1>6
<1>10. \A k \in 1..n : \E i \in 1..n : s[k] = slices[i]
  BY <1>3, <1>6
<1> QED BY <1>7, <1>8, <1>9, <1>10 DEF InLogOrder, n, s

\* No line is missing between the windows up to the one that is last.
NoGap(slices, last) ==
  \A i \in 1..Len(slices) : First(slices[i]) < First(slices[last]) =>
    \E j \in 1..Len(slices) :
      First(slices[i]) < First(slices[j]) /\ First(slices[j]) <= Final(slices[i]) + 1

Latest(slices, last) ==
  \A i \in 1..Len(slices) :
    /\ First(slices[i]) <= First(slices[last])
    /\ First(slices[i]) = First(slices[last]) => Final(slices[i]) <= Final(slices[last])

\* What de-duplication makes of windows: the lines before the last of them.
WindowsReleased(r, slices, last) ==
  /\ r.last = slices[last] /\ r.panic = FALSE /\ Latest(slices, last)
  /\ r.result \in Seq(Nat) /\ Ordered(r.result)
  /\ \E i \in 1..Len(slices) :
       /\ \A j \in 1..Len(slices) : First(slices[i]) <= First(slices[j])
       /\ \A l \in ToSet(r.result) : First(slices[i]) <= l /\ l < First(slices[last])
       /\ NoGap(slices, last) =>
            ToSet(r.result) = First(slices[i])..(First(slices[last]) - 1)

\* The backward pass at slice k of n.
PassedTo(acc, s, k, n, full) ==
  /\ acc.panic = FALSE
  /\ acc.reference \in Seq(Nat) /\ acc.reference # <<>> /\ Ordered(acc.reference)
  /\ acc.reference[1] = First(s[k])
  /\ acc.res \in Seq(Nat) /\ Ordered(acc.res)
  /\ \A l \in ToSet(acc.res) : First(s[k]) <= l /\ l < First(s[n])
  /\ full => Consecutive(acc.reference) /\ ToSet(acc.res) = First(s[k])..(First(s[n]) - 1)

LEMMA PassStarts ==
  ASSUME NEW n \in Nat, NEW k \in 1..n, NEW s, Consecutive(s[k].lines), Consecutive(s[n].lines),
         First(s[k]) <= First(s[n]), NEW full \in BOOLEAN,
         full => First(s[n]) <= Final(s[k]) + 1
  PROVE  /\ PassedTo(FirstPass(DedupAB(s[k].lines, s[n].lines)), s, k, n, full)
         /\ DedupAB(s[k].lines, s[n].lines).second = s[n].lines
<1> DEFINE a == s[k].lines
           b == s[n].lines
           r == DedupAB(a, b)
<1>1. a[1] = First(s[k]) /\ b[1] = First(s[n]) /\ a[Len(a)] = Final(s[k])
  BY DEF First, Final
<1>2. Ordered(b) /\ b # <<>> /\ b \in Seq(Nat) /\ Consecutive(a) /\ Consecutive(b)
  BY ConsecutiveLines DEF Consecutive
<1> HIDE DEF a, b
<1>3. GoesBefore(r, a, b)
  BY <1>1, <1>2, WindowFirst
<1> HIDE DEF r
<1>4. PICK first \in Seq(Nat), second \in Seq(Nat) :
        /\ r = Result(first, second) /\ second # <<>>
        /\ Ordered(first \o second) /\ (first \o second)[1] = a[1]
        /\ Ordered(first) /\ \A j \in 1..Len(first) : a[1] <= first[j] /\ first[j] < b[1]
        /\ Consecutive(b) => second = b /\ Below(first, a, b[1])
  BY <1>3 DEF GoesBefore
<1>5. second = b /\ Below(first, a, b[1])
  BY <1>2, <1>4
<1> DEFINE ref == first \o second
           acc == FirstPass(r)
<1>6. acc.res = first /\ acc.reference = ref /\ acc.panic = FALSE /\ r.second = second
  BY <1>4 DEF FirstPass, Result
<1>7. ref \in Seq(Nat) /\ ref # <<>>
  <2>1. IsJoined(ref, first, second) /\ Len(first) \in Nat /\ Len(second) \in Nat \ {0}
    BY <1>4, JoinedShape, EmptySeq
  <2> HIDE DEF ref
  <2>2. ref \in Seq(Nat) /\ Len(ref) # 0
    BY <2>1 DEF IsJoined
  <2> QED BY <2>2
<1>8. \A l \in ToSet(first) : a[1] <= l /\ l < b[1]
  BY <1>4, Member
<1>9. full => Consecutive(ref) /\ ToSet(first) = a[1]..(b[1] - 1)
  BY <1>1, <1>2, <1>5, ConsecutiveJoined DEF Below
<1> HIDE DEF acc, ref
<1>10. PassedTo(acc, s, k, n, full)
  BY <1>1, <1>4, <1>6, <1>7, <1>8, <1>9 DEF PassedTo, ref
<1> QED BY <1>5, <1>6, <1>10 DEF acc, a, b, r

LEMMA PassGoesOn ==
  ASSUME NEW n \in Nat, NEW k \in 1..n, k + 1 \in 1..n, NEW s, s[k] \in SlicesOf(Nat),
         Consecutive(s[k].lines), Consecutive(s[k + 1].lines), Consecutive(s[n].lines),
         First(s[k]) <= First(s[k + 1]), First(s[k + 1]) <= First(s[n]),
         NEW full \in BOOLEAN, full => First(s[k + 1]) <= Final(s[k]) + 1,
         NEW acc, PassedTo(acc, s, k + 1, n, full)
  PROVE  PassedTo(DedupEarlier(s[k], acc), s, k, n, full)
<1> DEFINE a == s[k].lines
           b == acc.reference
           r == DedupAB(a, b)
           h == First(s[k + 1])
           limit == First(s[n])
<1>1. a[1] = First(s[k]) /\ a[Len(a)] = Final(s[k]) /\ b[1] = h
  BY DEF First, Final, PassedTo
<1>2. /\ Ordered(b) /\ b # <<>> /\ b \in Seq(Nat) /\ Consecutive(a)
      /\ acc.panic = FALSE /\ acc.res \in Seq(Nat) /\ Ordered(acc.res)
      /\ \A l \in ToSet(acc.res) : h <= l /\ l < limit
      /\ full => Consecutive(b) /\ ToSet(acc.res) = h..(limit - 1)
  BY DEF PassedTo
<1>3. a[1] \in Nat /\ h \in Nat /\ limit \in Nat
  BY ConsecutiveLines DEF First
<1>4. DedupEarlier(s[k], acc) = [res |-> r.first \o acc.res, reference |-> r.first \o r.second,
                                 panic |-> acc.panic \/ r.panic]
  BY DEF DedupEarlier
<1> HIDE DEF a, b
<1>5. GoesBefore(r, a, b)
  BY <1>1, <1>2, WindowFirst
<1> HIDE DEF r
<1>6. PICK first \in Seq(Nat), second \in Seq(Nat) :
        /\ r = Result(first, second) /\ second # <<>>
        /\ Ordered(first \o second) /\ (first \o second)[1] = a[1]
        /\ Ordered(first) /\ \A j \in 1..Len(first) : a[1] <= first[j] /\ first[j] < b[1]
        /\ Consecutive(b) => second = b /\ Below(first, a, b[1])
  BY <1>5 DEF GoesBefore
<1> DEFINE ref == first \o second
           res == first \o acc.res
           to == DedupEarlier(s[k], acc)
<1>7. to.res = res /\ to.reference = ref /\ to.panic = FALSE
  <2>1. r.first = first /\ r.second = second /\ r.panic = FALSE
    BY <1>6 DEF Result
  <2> DEFINE panic == acc.panic \/ r.panic
  <2>2. panic = FALSE
    <3>1. acc.panic = FALSE
      BY <1>2
    <3> QED BY <2>1, <3>1, Zenon
  <2>3. to = [res |-> r.first \o acc.res, reference |-> r.first \o r.second, panic |-> panic]
    BY <1>4, Zenon
  <2> HIDE DEF panic, to
  <2> QED BY <2>1, <2>2, <2>3
<1>8. ref \in Seq(Nat) /\ ref # <<>>
  <2>1. IsJoined(ref, first, second) /\ Len(first) \in Nat /\ Len(second) \in Nat \ {0}
    BY <1>6, JoinedShape, EmptySeq
  <2> HIDE DEF ref
  <2>2. ref \in Seq(Nat) /\ Len(ref) # 0
    BY <2>1 DEF IsJoined
  <2> QED BY <2>2
<1>9. ToSet(res) = ToSet(first) \cup ToSet(acc.res)
  BY <1>2, LinesJoined
<1>10. \A l \in ToSet(first) : l \in Nat /\ a[1] <= l /\ l < h
  <2> SUFFICES ASSUME NEW l \in ToSet(first) PROVE l \in Nat /\ a[1] <= l /\ l < h
    OBVIOUS
  <2>1. PICK j \in 1..Len(first) : first[j] = l
    BY Member, Zenon
  <2>2. first[j] \in Nat
    BY Member, Zenon
  <2> QED BY <1>1, <1>6, <2>1, <2>2
<1>11. \A l \in ToSet(acc.res) : l \in Nat /\ h <= l /\ l < limit
  <2>1. ToSet(acc.res) \in SUBSET Nat
    BY <1>2, LinesNat
  <2> QED BY <1>2, <2>1
<1>12. res \in Seq(Nat) /\ Ordered(res)
  <2>1. res \in Seq(Nat)
    BY <1>2
  <2>2. \A i \in 1..Len(first), j \in 1..Len(acc.res) : first[i] < acc.res[j]
    <3>1. ASSUME NEW i \in 1..Len(first) PROVE first[i] \in Nat /\ first[i] < h
      BY <1>10, Member
    <3>2. ASSUME NEW j \in 1..Len(acc.res) PROVE acc.res[j] \in Nat /\ h <= acc.res[j]
      BY <1>2, <1>11, Member
    <3>3. ASSUME NEW i \in 1..Len(first), NEW j \in 1..Len(acc.res) PROVE first[i] < acc.res[j]
      <4> HIDE DEF h
      <4>1. first[i] \in Nat /\ first[i] < h
        BY <3>1
      <4>2. acc.res[j] \in Nat /\ h <= acc.res[j] /\ h \in Nat
        BY <1>3, <3>2
      <4> QED BY ONLY <4>1, <4>2
    <3> QED BY <3>3
  <2> QED BY <1>2, <1>6, <2>1, <2>2, OrderedJoined
<1>13. \A l \in ToSet(res) : a[1] <= l /\ l < limit
  <2>1. ASSUME NEW l \in ToSet(first) PROVE a[1] <= l /\ l < limit
    BY <1>3, <1>10, <2>1
  <2>2. ASSUME NEW l \in ToSet(acc.res) PROVE a[1] <= l /\ l < limit
    BY <1>1, <1>3, <1>11, <2>2
  <2> HIDE DEF res, limit
  <2> QED BY <1>9, <2>1, <2>2
<1>14. full => Consecutive(ref) /\ ToSet(res) = a[1]..(limit - 1)
  <2> SUFFICES ASSUME full PROVE Consecutive(ref) /\ ToSet(res) = a[1]..(limit - 1)
    OBVIOUS
  <2>1. Consecutive(b) /\ second = b /\ Below(first, a, b[1]) /\ ToSet(acc.res) = h..(limit - 1)
    BY <1>2, <1>6
  <2>2. b[1] <= a[Len(a)] + 1 /\ a[1] <= b[1]
    BY <1>1
  <2>3. Consecutive(ref)
    BY <1>2, <2>1, <2>2, ConsecutiveJoined
  <2>4. ToSet(first) = a[1]..(h - 1)
    BY <1>1, <2>1, <2>2 DEF Below
  <2> HIDE DEF h, limit, res
  <2>5. a[1] <= h /\ h <= limit
    BY <1>1 DEF h, limit
  <2>6. ToSet(res) = a[1]..(limit - 1)
    BY <1>3, <1>9, <2>1, <2>4, <2>5
  <2> QED BY <2>3, <2>6
<1> HIDE DEF to, ref, res
<1>15. PassedTo(to, s, k, n, full)
  BY <1>1, <1>6, <1>7, <1>8, <1>12, <1>13, <1>14 DEF PassedTo, ref
<1> QED BY <1>15 DEF to


\* r is what comes of the pass over s.
PassedBackward(r, s, n, U) ==
  \E acc \in [1..(n - 1) -> Backward(U)] :
    /\ Passes(acc, s, n)
    /\ r.result = acc[1].res /\ r.panic = acc[1].panic
    /\ r.last = [lines |-> DedupAB(s[n - 1].lines, s[n].lines).second,
                 generation |-> s[n].generation]

\* r is what DedupLineSlices returns.
IsReturn(r) == r = [result |-> r.result, last |-> r.last, panic |-> r.panic]

(* Two or more slices: what comes of the pass, and which slice is kept.    *)
LEMMA SlicesPassed ==
  ASSUME NEW U \in SUBSET Nat, NEW slices \in Seq(SlicesOf(U)), NEW s, s = SortedSlices(slices),
         NEW n, n = Len(slices), n > 1, s \in [1..n -> SlicesOf(U)],
         NEW r, r = DedupLineSlices(slices)
  PROVE  PassedBackward(r, s, n, U) /\ IsReturn(r)
<1> DEFINE last == [lines |-> DedupAB(s[n - 1].lines, s[n].lines).second,
                    generation |-> s[n].generation]
<1>1. \E acc \in [1..(n - 1) -> Backward(U)] :
        /\ Passes(acc, s, n)
        /\ r = [result |-> acc[1].res, last |-> last, panic |-> acc[1].panic]
  <2>1. last = MakeSliceFromLines(DedupAB(s[n - 1].lines, s[n].lines).second, s[n].generation)
    BY Zenon DEF MakeSliceFromLines
  <2> HIDE DEF last
  <2> QED BY <2>1, PassesExist
<1> HIDE DEF last
<1>2. PICK acc \in [1..(n - 1) -> Backward(U)] :
        /\ Passes(acc, s, n)
        /\ r = [result |-> acc[1].res, last |-> last, panic |-> acc[1].panic]
  BY <1>1
<1>3. r.result = acc[1].res /\ r.panic = acc[1].panic /\ r.last = last
  BY <1>2
<1>4. IsReturn(r)
  BY <1>2 DEF IsReturn
<1> QED BY <1>2, <1>3, <1>4 DEF last, PassedBackward

LEMMA OneSlice ==
  ASSUME NEW slices, Len(slices) = 1, NEW r, r = DedupLineSlices(slices)
  PROVE  /\ r.result = <<>> /\ r.last = SortedSlices(slices)[1] /\ r.panic = FALSE
         /\ IsReturn(r)
BY DEF DedupLineSlices, IsReturn

LEMMA SameSlice ==
  ASSUME NEW U, NEW slice \in SlicesOf(U)
  PROVE  slice = [lines |-> slice.lines, generation |-> slice.generation]
BY DEF SlicesOf

LEMMA WindowsPassed ==
  ASSUME NEW slices, Windows(slices)
  PROVE  \E last \in 1..Len(slices) : WindowsReleased(DedupLineSlices(slices), slices, last)
<1> DEFINE n == Len(slices)
           s == SortedSlices(slices)
           r == DedupLineSlices(slices)
<1>1. Nat \in SUBSET Nat /\ slices \in Seq(SlicesOf(Nat)) /\ n \in Nat \ {0}
  BY EmptySeq DEF Windows
<1>2. InLogOrder(s, slices)
  BY WindowsInOrder
<1> HIDE DEF s, r, n
<1>3. /\ s \in [1..n -> SlicesOf(Nat)]
      /\ \A k \in 1..n : Consecutive(s[k].lines)
      /\ \A k, l \in 1..n : k < l =>
           First(s[k]) <= First(s[l]) /\ (First(s[k]) = First(s[l]) => Final(s[k]) <= Final(s[l]))
      /\ \A i \in 1..n : \E k \in 1..n : s[k] = slices[i]
      /\ \A k \in 1..n : \E i \in 1..n : s[k] = slices[i]
  BY <1>2, Zenon DEF InLogOrder, n
<1>12. ASSUME NEW k \in 1..n, NEW l \in 1..n, k < l
       PROVE  /\ First(s[k]) <= First(s[l])
              /\ First(s[k]) = First(s[l]) => Final(s[k]) <= Final(s[l])
  BY <1>3, <1>12, Zenon
<1>4. \A k \in 1..n : First(s[k]) \in Nat /\ Final(s[k]) \in Nat
  BY <1>3, ConsecutiveLines DEF First, Final
<1>5. 1 \in 1..n /\ n \in 1..n
  BY <1>1
<1>6. PICK last \in 1..n : s[n] = slices[last]
  BY <1>3, <1>5
<1>7. PICK first \in 1..n : s[1] = slices[first]
  BY <1>3, <1>5
<1>8. Latest(slices, last)
  <2> SUFFICES ASSUME NEW i \in 1..n
               PROVE  /\ First(slices[i]) <= First(slices[last])
                      /\ First(slices[i]) = First(slices[last])
                           => Final(slices[i]) <= Final(slices[last])
    BY DEF Latest, n
  <2>1. PICK k \in 1..n : s[k] = slices[i]
    BY <1>3
  <2>2. k = n \/ k < n
    BY <1>1
  <2>3. First(s[n]) \in Nat /\ Final(s[n]) \in Nat
    BY <1>4, <1>5
  <2>4. First(s[k]) <= First(s[n]) /\ (First(s[k]) = First(s[n]) => Final(s[k]) <= Final(s[n]))
    BY <1>5, <1>12, <2>2, <2>3
  <2> QED BY <1>6, <2>1, <2>4
<1>9. \A j \in 1..n : First(slices[first]) <= First(slices[j])
  <2> SUFFICES ASSUME NEW j \in 1..n PROVE First(slices[first]) <= First(slices[j])
    OBVIOUS
  <2>1. PICK k \in 1..n : s[k] = slices[j]
    BY <1>3
  <2>2. k = 1 \/ 1 < k
    BY <1>1
  <2>3. First(s[1]) \in Nat
    BY <1>4, <1>5
  <2>4. First(s[1]) <= First(s[k])
    BY <1>5, <1>12, <2>2, <2>3
  <2> QED BY <1>7, <2>1, <2>4
<1> DEFINE full == NoGap(slices, last)
<1>10. CASE n = 1
  <2>1. r.result = <<>> /\ r.last = s[1] /\ r.panic = FALSE
    BY <1>10, OneSlice DEF r, s, n
  <2>2. r.result \in Seq(Nat) /\ Ordered(r.result) /\ ToSet(r.result) = {}
    BY <2>1 DEF Ordered, ToSet
  <2>3. first = last /\ r.last = slices[last]
    BY <1>6, <1>7, <1>10, <2>1
  <2>4. {} = First(slices[first])..(First(slices[last]) - 1)
    BY <1>4, <1>5, <1>7, <2>3
  <2>5. WindowsReleased(r, slices, last)
    BY <1>8, <1>9, <2>1, <2>2, <2>3, <2>4 DEF WindowsReleased, n
  <2> QED BY <2>5 DEF r, n
<1>11. CASE n # 1
  <2>0. n \in Nat /\ n > 1 /\ n - 1 \in 1..n /\ n - 1 < n /\ n - 1 \in Nat
    BY <1>1, <1>11
  <2>1. PICK acc \in [1..(n - 1) -> Backward(Nat)] :
          /\ Passes(acc, s, n)
          /\ r.result = acc[1].res /\ r.panic = acc[1].panic
          /\ r.last = [lines |-> DedupAB(s[n - 1].lines, s[n].lines).second,
                       generation |-> s[n].generation]
    <3>1. PassedBackward(r, s, n, Nat)
      <4>1. s = SortedSlices(slices) /\ n = Len(slices) /\ r = DedupLineSlices(slices)
        BY DEF r, s, n
      <4>2. s \in [1..n -> SlicesOf(Nat)]
        BY <1>3
      <4> QED BY <1>1, <2>0, <4>1, <4>2, SlicesPassed
    <3> QED BY <3>1, Zenon DEF PassedBackward
  <2>2. full \in BOOLEAN
    BY Zenon DEF NoGap
  <2>3. ASSUME NEW k \in 1..(n - 1), full PROVE First(s[k + 1]) <= Final(s[k]) + 1
    <3>1. k \in 1..n /\ k + 1 \in 1..n /\ k < k + 1
      BY <2>0, <2>3
    <3>2. PICK i \in 1..n : s[k] = slices[i]
      BY <1>3, <3>1
    <3>3. First(s[k]) <= First(s[k + 1]) /\ First(s[k]) <= Final(s[k])
      BY <1>3, <3>1, ConsecutiveLines DEF First, Final
    <3>4. CASE First(s[k]) = First(s[k + 1])
      BY <1>4, <3>1, <3>3, <3>4
    <3>5. CASE First(s[k]) # First(s[k + 1])
      <4>1. First(s[k + 1]) <= First(s[n])
        <5>1. k + 1 = n \/ k + 1 < n
          BY <2>0, <3>1
        <5>2. First(s[n]) \in Nat
          BY <1>4, <1>5
        <5> QED BY <1>5, <1>12, <3>1, <5>1, <5>2
      <4>2. First(slices[i]) < First(slices[last])
        <5>1. First(s[k]) \in Nat /\ First(s[k + 1]) \in Nat /\ First(s[n]) \in Nat
          BY <1>4, <1>5, <3>1
        <5>2. First(s[k]) < First(s[n])
          BY ONLY <3>3, <3>5, <4>1, <5>1
        <5> QED BY <1>6, <3>2, <5>2
      <4>3. PICK j \in 1..n :
              First(slices[i]) < First(slices[j]) /\ First(slices[j]) <= Final(slices[i]) + 1
        BY <2>3, <4>2 DEF NoGap, n
      <4>4. PICK l \in 1..n : s[l] = slices[j]
        BY <1>3
      <4>5. ~(l <= k)
        <5>1. l <= k => l = k \/ l < k
          BY <3>1
        <5>2. First(s[k]) < First(s[l]) /\ First(s[k]) \in Nat /\ First(s[l]) \in Nat
          BY <1>4, <3>1, <3>2, <4>3, <4>4
        <5>3. l < k => First(s[l]) <= First(s[k])
          BY <1>12, <3>1
        <5>4. l # k
          BY ONLY <5>2
        <5> QED BY ONLY <5>1, <5>2, <5>3, <5>4
      <4>6. l = k + 1 \/ k + 1 < l
        BY <3>1, <4>5
      <4>7. First(s[k + 1]) <= First(s[l])
        <5>1. First(s[l]) \in Nat
          BY <1>4
        <5> QED BY <1>12, <3>1, <4>6, <5>1
      <4>8. First(s[l]) <= Final(s[k]) + 1
        BY <3>2, <4>3, <4>4
      <4>9. First(s[l]) \in Nat /\ First(s[k + 1]) \in Nat /\ Final(s[k]) \in Nat
        BY <1>4, <3>1
      <4> QED BY ONLY <4>7, <4>8, <4>9
    <3> QED BY <3>4, <3>5
  <2> DEFINE D == {k \in 0..(n - 2) : PassedTo(acc[k + 1], s, k + 1, n, full)}
  <2>4. /\ PassedTo(acc[n - 1], s, n - 1, n, full)
        /\ DedupAB(s[n - 1].lines, s[n].lines).second = s[n].lines
    <3> HIDE DEF full
    <3>1. acc[n - 1] = FirstPass(DedupAB(s[n - 1].lines, s[n].lines))
      BY <2>1 DEF Passes
    <3>2. full => First(s[n]) <= Final(s[n - 1]) + 1
      <4>1. n - 1 \in 1..(n - 1) /\ (n - 1) + 1 = n
        BY <2>0
      <4>2. full => First(s[(n - 1) + 1]) <= Final(s[n - 1]) + 1
        BY <2>3, <4>1
      <4> QED BY <4>1, <4>2
    <3>3. First(s[n - 1]) <= First(s[n]) /\ Consecutive(s[n - 1].lines) /\ Consecutive(s[n].lines)
      BY <1>3, <1>5, <2>0
    <3> QED BY <1>1, <2>0, <2>2, <3>1, <3>2, <3>3, PassStarts
  <2>5. ASSUME NEW k \in 1..(n - 2), k \in D PROVE k - 1 \in D
    <3>1. /\ k \in 1..(n - 1) /\ k + 1 \in 1..n /\ k \in 1..n /\ k - 1 \in 0..(n - 2)
          /\ (k - 1) + 1 = k /\ k < k + 1 /\ n \in Nat
      BY <2>0
    <3>2. PassedTo(acc[k + 1], s, k + 1, n, full)
      BY <2>5
    <3> HIDE DEF full
    <3>3. acc[k] = DedupEarlier(s[k], acc[k + 1])
      BY <2>1 DEF Passes
    <3>4. First(s[k]) <= First(s[k + 1])
      BY <1>12, <3>1
    <3>5. First(s[k + 1]) <= First(s[n])
      <4>1. k + 1 = n \/ k + 1 < n
        BY <2>0, <3>1
      <4>2. First(s[n]) \in Nat
        BY <1>4, <1>5
      <4> QED BY <1>5, <1>12, <3>1, <4>1, <4>2
    <3>6. s[k] \in SlicesOf(Nat) /\ Consecutive(s[k].lines) /\ Consecutive(s[k + 1].lines)
          /\ Consecutive(s[n].lines)
      BY <1>3, <1>5, <3>1
    <3>7. full => First(s[k + 1]) <= Final(s[k]) + 1
      BY <2>3, <3>1
    <3>8. PassedTo(acc[k], s, k, n, full)
      BY <2>2, <3>1, <3>2, <3>3, <3>4, <3>5, <3>6, <3>7, PassGoesOn
    <3> QED BY <3>1, <3>8
  <2>6. PassedTo(acc[1], s, 1, n, full)
    <3>1. n - 2 \in Nat /\ n - 2 \in 0..(n - 2) /\ (n - 2) + 1 = n - 1
      BY <2>0
    <3>2. n - 2 \in D
      BY <2>4, <3>1
    <3> HIDE DEF D
    <3>3. 0..(n - 2) \subseteq D
      BY <2>5, <3>1, <3>2, Downward
    <3>4. 0 \in D
      BY <3>1, <3>3
    <3>5. PassedTo(acc[0 + 1], s, 0 + 1, n, full)
      BY <3>4 DEF D
    <3> QED BY <3>5
  <2>7. r.last = slices[last]
    <3>1. s[n] = [lines |-> s[n].lines, generation |-> s[n].generation]
      BY <1>3, <1>5, SameSlice
    <3> QED BY <1>6, <2>1, <2>4, <3>1
  <2>8. /\ r.panic = FALSE /\ r.result \in Seq(Nat) /\ Ordered(r.result)
        /\ \A l \in ToSet(r.result) : First(slices[first]) <= l /\ l < First(slices[last])
        /\ full => ToSet(r.result) = First(slices[first])..(First(slices[last]) - 1)
    <3> HIDE DEF full
    <3> QED BY <1>6, <1>7, <2>1, <2>6 DEF PassedTo
  <2>9. WindowsReleased(r, slices, last)
    BY <1>8, <1>9, <2>7, <2>8 DEF WindowsReleased, n
  <2> QED BY <2>9 DEF r, n
<1> QED BY <1>10, <1>11


\* r, from slices: lines from U, and the generation of one of the slices.
Released(r, slices, U) ==
  /\ IsReturn(r)
  /\ r.result \in Seq(U) /\ r.last \in SlicesOf(U) /\ r.panic \in BOOLEAN
  /\ \E i \in 1..Len(slices) : r.last.generation = slices[i].generation

(* Whatever the slices, nothing but their lines is released.               *)
LEMMA SlicesReleased ==
  ASSUME NEW U \in SUBSET Nat, NEW slices \in Seq(SlicesOf(U)), slices # <<>>
  PROVE  Released(DedupLineSlices(slices), slices, U)
<1> DEFINE n == Len(slices)
           s == SortedSlices(slices)
           r == DedupLineSlices(slices)
<1>1. n \in Nat \ {0}
  BY EmptySeq
<1>2. PICK order : Sorts(order, slices)
  BY Sorting
<1>3. \A k \in 1..n : order[k] \in 1..n /\ slices[order[k]] \in SlicesOf(U)
  BY <1>2 DEF Sorts
<1>4. s = [k \in 1..n |-> slices[order[k]]]
  BY <1>2 DEF Sorts
<1>5. r = DedupLineSlices(slices) /\ s = SortedSlices(slices) /\ n = Len(slices)
  OBVIOUS
<1> HIDE DEF s, r, n
<1>6. s \in [1..n -> SlicesOf(U)]
  BY <1>3, <1>4
<1>7. 1 \in 1..n /\ n \in 1..n
  BY <1>1
<1>8. \A k \in 1..n : s[k] \in SlicesOf(U) /\ \E i \in 1..n : s[k] = slices[i]
  BY <1>3, <1>4
<1>9. CASE n = 1
  <2>1. r.result = <<>> /\ r.last = s[1] /\ r.panic = FALSE
    BY <1>5, <1>9, OneSlice
  <2>4. IsReturn(r)
    BY <1>5, <1>9, OneSlice
  <2>2. r.result \in Seq(U) /\ r.panic \in BOOLEAN
    <3>1. <<>> \in Seq(U) /\ FALSE \in BOOLEAN
      OBVIOUS
    <3> QED BY ONLY <2>1, <3>1
  <2>3. r.last \in SlicesOf(U) /\ \E i \in 1..n : r.last.generation = slices[i].generation
    BY <1>7, <1>8, <2>1
  <2> QED BY <1>5, <2>2, <2>3, <2>4 DEF Released
<1>10. CASE n # 1
  <2>0. n > 1 /\ n - 1 \in 1..n /\ 1 \in 1..(n - 1)
    BY <1>1, <1>10
  <2>1. PassedBackward(r, s, n, U) /\ IsReturn(r)
    BY <1>1, <1>5, <1>6, <2>0, SlicesPassed
  <2>2. PICK acc \in [1..(n - 1) -> Backward(U)] :
          /\ Passes(acc, s, n)
          /\ r.result = acc[1].res /\ r.panic = acc[1].panic
          /\ r.last = [lines |-> DedupAB(s[n - 1].lines, s[n].lines).second,
                       generation |-> s[n].generation]
    BY <2>1, Zenon DEF PassedBackward
  <2>3. acc[1] \in Backward(U)
    BY <2>0
  <2>4. r.result \in Seq(U) /\ r.panic \in BOOLEAN
    BY <2>2, <2>3 DEF Backward
  <2>5. s[n - 1].lines \in Seq(U) /\ s[n].lines \in Seq(U) /\ s[n].generation \in Nat
    BY <1>7, <1>8, <2>0 DEF SlicesOf
  <2> DEFINE second == DedupAB(s[n - 1].lines, s[n].lines).second
  <2>6. second \in Seq(U)
    BY <2>5, DedupABWithin
  <2> HIDE DEF second
  <2>7. r.last = [lines |-> second, generation |-> s[n].generation]
    BY <2>2 DEF second
  <2>8. r.last \in SlicesOf(U) /\ r.last.generation = s[n].generation
    BY <2>5, <2>6, <2>7 DEF SlicesOf
  <2>9. \E i \in 1..n : r.last.generation = slices[i].generation
    BY <1>7, <1>8, <2>8
  <2> QED BY <1>5, <2>1, <2>4, <2>8, <2>9 DEF Released
<1> QED BY <1>9, <1>10

(* One slice of a generation's.                                            *)
LEMMA GenerationSlice ==
  ASSUME NEW U \in SUBSET Nat, NEW slices \in Seq(SlicesOf(U)), slices # <<>>,
         NEW g, \A i \in 1..Len(slices) : slices[i].generation = g
  PROVE  /\ dedupGeneration(slices).slice \in SlicesOf(U)
         /\ dedupGeneration(slices).slice.generation = g
         /\ dedupGeneration(slices).panic \in BOOLEAN
<1> DEFINE r == DedupLineSlices(slices)
           d == dedupGeneration(slices)
           lines == r.result \o r.last.lines
<1>1. Released(r, slices, U)
  BY SlicesReleased
<1>2. d = [slice |-> [lines |-> lines, generation |-> r.last.generation], panic |-> r.panic]
  BY DEF dedupGeneration, MakeSliceFromLines
<1> HIDE DEF r, d
<1>3. r.result \in Seq(U) /\ r.last.lines \in Seq(U) /\ r.panic \in BOOLEAN
      /\ r.last.generation \in Nat /\ r.last.generation = g
  BY <1>1 DEF Released, SlicesOf
<1>4. lines \in Seq(U)
  BY <1>3
<1> HIDE DEF lines
<1>5. d.slice \in SlicesOf(U) /\ d.slice.generation = g /\ d.panic \in BOOLEAN
  BY <1>2, <1>3, <1>4 DEF SlicesOf
<1> QED BY <1>5 DEF d

(* Of windows that begin at the same line the longest one is left.         *)
LEMMA GenerationWindow ==
  ASSUME NEW slices, Windows(slices),
         \A i, j \in 1..Len(slices) : First(slices[i]) = First(slices[j])
  PROVE  \E last \in 1..Len(slices) :
           /\ dedupGeneration(slices) = [slice |-> slices[last], panic |-> FALSE]
           /\ \A i \in 1..Len(slices) : Final(slices[i]) <= Final(slices[last])
<1> DEFINE n == Len(slices)
           r == DedupLineSlices(slices)
<1>1. PICK last \in 1..n : WindowsReleased(r, slices, last)
  BY WindowsPassed
<1>2. slices[last] \in SlicesOf(Nat) /\ Consecutive(slices[last].lines)
  BY DEF Windows
<1>3. First(slices[last]) \in Nat /\ slices[last].lines \in Seq(Nat)
  BY <1>2, ConsecutiveLines DEF First, Consecutive
<1>4. dedupGeneration(slices) = [slice |-> [lines |-> r.result \o r.last.lines,
                                            generation |-> r.last.generation],
                                 panic |-> r.panic]
  BY DEF dedupGeneration, MakeSliceFromLines
<1> HIDE DEF r
<1>5. r.result = <<>>
  <2>1. PICK i \in 1..n : \A l \in ToSet(r.result) : First(slices[i]) <= l /\ l < First(slices[last])
    BY <1>1 DEF WindowsReleased
  <2>2. First(slices[i]) = First(slices[last]) /\ r.result \in Seq(Nat)
    BY <1>1 DEF WindowsReleased
  <2>3. \A l \in ToSet(r.result) : l \in Nat
    BY <2>2, LinesNat
  <2>4. ToSet(r.result) = {}
    BY <1>3, <2>1, <2>2, <2>3
  <2> DEFINE t == r.result
  <2> HIDE DEF t
  <2>5. t \in Seq(Nat) /\ ToSet(t) = {}
    BY <2>2, <2>4 DEF t
  <2>6. t # <<>> => 1 \in 1..Len(t)
    BY <2>5, EmptySeq
  <2>7. t = <<>>
    BY <2>5, <2>6, Member
  <2> QED BY <2>7 DEF t
<1>6. r.last = slices[last] /\ r.panic = FALSE
  BY <1>1 DEF WindowsReleased
<1>7. r.result \o r.last.lines = slices[last].lines
  BY <1>3, <1>5, <1>6
<1>8. slices[last] = [lines |-> slices[last].lines, generation |-> slices[last].generation]
  BY <1>2, SameSlice
<1>9. dedupGeneration(slices) = [slice |-> slices[last], panic |-> FALSE]
  BY <1>4, <1>6, <1>7, <1>8
<1>10. \A i \in 1..n : Final(slices[i]) <= Final(slices[last])
  BY <1>1 DEF WindowsReleased, Latest
<1> QED BY <1>9, <1>10

==============================================================================
