----------------------------- MODULE SumTheorems -----------------------------
(***************************************************************************)
(* Facts about SumFunctionOnSet, the sum of a function over a finite set   *)
(* of indices: the weight of a set of locations, the distance of points    *)
(* along all dimensions.  It folds over the set from an element that       *)
(* CHOOSE takes.  The proofs go by induction over the subsets of a finite  *)
(* set, in the form that a set of subsets that is not empty has a minimal  *)
(* member.                                                                 *)
(***************************************************************************)
EXTENDS FiniteSetTheorems, TLAPS

First(s) == CHOOSE x \in s : TRUE

(* One step of the fold, for a function iter on the subsets of S.          *)
Step(iter, f, s) == IF s = {} THEN 0 ELSE f[First(s)] + iter[s \ {First(s)}]

Folds(iter, f, S) == \A s \in SUBSET S : iter[s] = Step(iter, f, s)

IsFold(iter, f, S) == iter = [s \in SUBSET S |-> Step(iter, f, s)]

FoldsUpTo(n, iter, f, S) ==
  \A s \in SUBSET S : Cardinality(s) <= n => iter[s] = Step(iter, f, s)

LEMMA MinimalSubset ==
  ASSUME NEW S, IsFiniteSet(S), NEW T \in SUBSET (SUBSET S), T # {}
  PROVE  \E s \in T : \A x \in s : s \ {x} \notin T
<1>1. IsWellFoundedOn(StrictSubsetOrdering(S), FiniteSubsetsOf(S))
  BY FS_StrictSubsetOrderingWellFounded
<1>2. FiniteSubsetsOf(S) = SUBSET S
  BY FS_FiniteSubsetsOfFinite
<1>3. PICK s \in T : \A y \in T : ~(<<y, s>> \in StrictSubsetOrdering(S))
  BY <1>1, <1>2, WFMin
<1>4. \A x \in s : <<s \ {x}, s>> \in StrictSubsetOrdering(S)
  BY DEF StrictSubsetOrdering
<1>. QED  BY <1>3, <1>4

LEMMA FirstMember == \A s : s # {} => First(s) \in s
BY DEF First

-------------------------------------------------------------------------------
(* The recursive definition of the fold has a solution, and only one.      *)

LEMMA FoldExtends ==
  ASSUME NEW S, IsFiniteSet(S), NEW f, NEW n \in Nat, NEW g, FoldsUpTo(n, g, f, S)
  PROVE  FoldsUpTo(n + 1, [s \in SUBSET S |-> Step(g, f, s)], f, S)
<1> DEFINE h == [s \in SUBSET S |-> Step(g, f, s)]
<1>1. ASSUME NEW s \in SUBSET S, Cardinality(s) <= n + 1, s # {}
      PROVE  h[s] = f[First(s)] + h[s \ {First(s)}]
  <2> DEFINE t == s \ {First(s)}
  <2>1. IsFiniteSet(s) /\ First(s) \in s
    BY <1>1, FirstMember, FS_Subset
  <2>2. Cardinality(t) = Cardinality(s) - 1 /\ Cardinality(s) \in Nat
    BY <2>1, FS_RemoveElement, FS_CardinalityType
  <2>3. Cardinality(t) <= n
    BY <1>1, <2>2
  <2>4. t \in SUBSET S
    OBVIOUS
  <2>5. h[t] = g[t]
    BY <2>3, <2>4 DEF FoldsUpTo
  <2>6. h[s] = f[First(s)] + g[t]
    BY <1>1 DEF Step
  <2>. QED  BY <2>5, <2>6
<1>2. ASSUME NEW s \in SUBSET S, s = {}
      PROVE  h[s] = 0
  BY <1>2 DEF Step
<1> HIDE DEF h
<1>3. FoldsUpTo(n + 1, h, f, S)
  BY <1>1, <1>2 DEF FoldsUpTo, Step
<1>. QED  BY <1>3 DEF h

LEMMA NatLeast ==
  ASSUME NEW T \in SUBSET Nat, T # {}
  PROVE  \E n \in T : \A m \in T : n <= m
<1> DEFINE R == {p \in Nat \X Nat : p[1] < p[2]}
<1>1. IsWellFoundedOn(R, Nat)
  BY NatLessThanWellFounded DEF OpToRel
<1>2. \A m, n \in Nat : m < n => <<m, n>> \in R
  OBVIOUS
<1> HIDE DEF R
<1>3. PICK n \in T : \A m \in T : ~(<<m, n>> \in R)
  BY <1>1, WFMin
<1>4. ASSUME NEW m \in T
      PROVE  n <= m
  <2>1. m \in Nat /\ n \in Nat
    OBVIOUS
  <2>2. ~(m < n)
    BY <1>2, <1>3, <2>1
  <2>. QED  BY <2>1, <2>2
<1>. QED  BY <1>4

LEMMA FoldExists ==
  ASSUME NEW S, IsFiniteSet(S), NEW f
  PROVE  \E iter : IsFold(iter, f, S)
<1> DEFINE Bad == {n \in Nat : ~\E g : FoldsUpTo(n, g, f, S)}
<1>1. 0 \notin Bad
  <2> DEFINE g == [s \in SUBSET S |-> 0]
  <2>1. ASSUME NEW s \in SUBSET S, Cardinality(s) <= 0
        PROVE  s = {}
    <3>1. IsFiniteSet(s)
      BY FS_Subset
    <3>2. Cardinality(s) = 0
      BY <2>1, <3>1, FS_CardinalityType
    <3>. QED  BY <3>1, <3>2, FS_EmptySet
  <2>2. \A s \in SUBSET S : g[s] = 0
    OBVIOUS
  <2> HIDE DEF g
  <2>3. FoldsUpTo(0, g, f, S)
    BY <2>1, <2>2 DEF FoldsUpTo, Step
  <2>. QED  BY <2>3
<1>2. ASSUME NEW n \in Nat, n \notin Bad
      PROVE  n + 1 \notin Bad
  <2>1. PICK g : FoldsUpTo(n, g, f, S)
    BY <1>2
  <2>2. FoldsUpTo(n + 1, [s \in SUBSET S |-> Step(g, f, s)], f, S)
    BY <2>1, FoldExtends
  <2>. QED  BY <2>2
<1>3. Cardinality(S) \in Nat /\ \A s \in SUBSET S : Cardinality(s) <= Cardinality(S)
  BY FS_CardinalityType, FS_Subset
<1>4. Cardinality(S) \notin Bad
  <2>1. Bad \in SUBSET Nat
    OBVIOUS
  <2> HIDE DEF Bad
  <2>2. SUFFICES ASSUME Bad # {} PROVE FALSE
    BY <1>3
  <2>3. PICK n \in Bad : \A m \in Bad : n <= m
    BY <2>1, <2>2, NatLeast
  <2>4. n \in Nat /\ n # 0
    BY <1>1, <2>1
  <2>5. n - 1 \in Nat /\ n = (n - 1) + 1 /\ n - 1 \notin Bad
    BY <2>3, <2>4, <2>1
  <2>6. n \notin Bad
    BY <1>2, <2>5
  <2>. QED  BY <2>6
<1>5. PICK g : FoldsUpTo(Cardinality(S), g, f, S)
  BY <1>3, <1>4
<1>6. \A s \in SUBSET S : g[s] = Step(g, f, s)
  BY <1>3, <1>5 DEF FoldsUpTo
<1> DEFINE h == [s \in SUBSET S |-> g[s]]
<1>7. \A s \in SUBSET S : h[s] = g[s]
  OBVIOUS
<1>8. h = [s \in SUBSET S |-> Step(g, f, s)]
  BY <1>6
<1> HIDE DEF h
<1>9. \A s \in SUBSET S : Step(g, f, s) = Step(h, f, s)
  BY <1>7 DEF Step
<1>10. h = [s \in SUBSET S |-> Step(h, f, s)]
  BY <1>8, <1>9
<1>. QED  BY <1>10 DEF IsFold

LEMMA FoldUnique ==
  ASSUME NEW S, IsFiniteSet(S), NEW f, NEW g, NEW h, Folds(g, f, S), Folds(h, f, S)
  PROVE  \A s \in SUBSET S : g[s] = h[s]
<1> DEFINE T == {s \in SUBSET S : g[s] # h[s]}
<1>1. SUFFICES ASSUME T # {} PROVE FALSE
  OBVIOUS
<1>2. PICK s \in T : \A x \in s : s \ {x} \notin T
  BY <1>1, MinimalSubset
<1>3. s # {}
  BY DEF Folds, Step
<1>4. First(s) \in s /\ s \ {First(s)} \in SUBSET S
  BY <1>3, FirstMember
<1>5. g[s \ {First(s)}] = h[s \ {First(s)}]
  BY <1>2, <1>4
<1>. QED  BY <1>2, <1>3, <1>5 DEF Folds, Step

(* The sum over S is the value at S of the fold over its subsets.          *)
LEMMA SumIsFold ==
  ASSUME NEW S, IsFiniteSet(S), NEW f
  PROVE  \E iter : Folds(iter, f, S) /\ SumFunctionOnSet(f, S) = iter[S]
<1> DEFINE iter == CHOOSE g : IsFold(g, f, S)
<1>1. SumFunctionOnSet(f, S) = iter[S]
  BY DEF SumFunctionOnSet, FoldFunctionOnSet, MapThenFoldSet, First, Step, IsFold
<1>2. IsFold(iter, f, S)
  BY FoldExists
<1> HIDE DEF iter
<1>3. Folds(iter, f, S)
  BY <1>2 DEF Folds, IsFold
<1>. QED  BY <1>1, <1>3

-------------------------------------------------------------------------------
(* The sum over a set is what any element adds to the sum over the rest.   *)

LEMMA SumEmpty == \A f : SumFunctionOnSet(f, {}) = 0
<1> TAKE f
<1>1. PICK iter : Folds(iter, f, {}) /\ SumFunctionOnSet(f, {}) = iter[{}]
  BY SumIsFold, FS_EmptySet
<1>. QED  BY <1>1 DEF Folds, Step

LEMMA SumTakesFirst ==
  ASSUME NEW S, IsFiniteSet(S), S # {}, NEW f
  PROVE  SumFunctionOnSet(f, S) = f[First(S)] + SumFunctionOnSet(f, S \ {First(S)})
<1> DEFINE R == S \ {First(S)}
<1>1. IsFiniteSet(R) /\ R \in SUBSET S
  BY FS_Subset
<1>2. PICK g : Folds(g, f, S) /\ SumFunctionOnSet(f, S) = g[S]
  BY SumIsFold
<1>3. PICK h : Folds(h, f, R) /\ SumFunctionOnSet(f, R) = h[R]
  BY <1>1, SumIsFold
<1>4. Folds(g, f, R)
  BY <1>1, <1>2 DEF Folds
<1>5. g[R] = h[R]
  BY <1>1, <1>3, <1>4, FoldUnique
<1>6. g[S] = f[First(S)] + g[R]
  BY <1>2 DEF Folds, Step
<1>. QED  BY <1>2, <1>3, <1>5, <1>6

LEMMA SumIsInt ==
  ASSUME NEW S, IsFiniteSet(S), NEW f, \A x \in S : f[x] \in Int
  PROVE  SumFunctionOnSet(f, S) \in Int
<1> DEFINE T == {s \in SUBSET S : SumFunctionOnSet(f, s) \notin Int}
<1>1. SUFFICES ASSUME T # {} PROVE FALSE
  OBVIOUS
<1>2. PICK s \in T : \A x \in s : s \ {x} \notin T
  BY <1>1, MinimalSubset
<1>3. s # {}
  BY SumEmpty
<1>4. First(s) \in s /\ s \in SUBSET S
  BY <1>3, FirstMember
<1>5. SumFunctionOnSet(f, s \ {First(s)}) \in Int
  BY <1>2, <1>4
<1>6. SumFunctionOnSet(f, s) = f[First(s)] + SumFunctionOnSet(f, s \ {First(s)})
  BY <1>3, <1>4, FS_Subset, SumTakesFirst
<1>. QED  BY <1>4, <1>5, <1>6

LEMMA SumTakesOut ==
  ASSUME NEW S, IsFiniteSet(S), NEW f, \A x \in S : f[x] \in Int, NEW x \in S
  PROVE  SumFunctionOnSet(f, S) = f[x] + SumFunctionOnSet(f, S \ {x})
<1> DEFINE Sum(s) == SumFunctionOnSet(f, s)
           T == {s \in SUBSET S : \E y \in s : Sum(s) # f[y] + Sum(s \ {y})}
<1>1. SUFFICES ASSUME T # {} PROVE FALSE
  OBVIOUS
<1>2. PICK s \in T : \A y \in s : s \ {y} \notin T
  BY <1>1, MinimalSubset
<1>3. PICK y \in s : Sum(s) # f[y] + Sum(s \ {y})
  OBVIOUS
<1>4. s \in SUBSET S /\ IsFiniteSet(s) /\ s # {}
  BY <1>3, FS_Subset
<1> DEFINE z == First(s)
           r == s \ {y, z}
<1>5. z \in s /\ Sum(s) = f[z] + Sum(s \ {z})
  BY <1>4, FirstMember, SumTakesFirst
<1>6. y # z
  BY <1>3, <1>5
<1>7. s \ {z} \notin T /\ s \ {y} \notin T
  BY <1>2, <1>5
<1>8. (s \ {z}) \ {y} = r /\ (s \ {y}) \ {z} = r
  OBVIOUS
<1>9. y \in s \ {z} /\ z \in s \ {y} /\ s \ {z} \in SUBSET S /\ s \ {y} \in SUBSET S
  BY <1>4, <1>5, <1>6
<1>10. Sum(s \ {z}) = f[y] + Sum(r) /\ Sum(s \ {y}) = f[z] + Sum(r)
  BY <1>7, <1>8, <1>9
<1>11. f[y] \in Int /\ f[z] \in Int
  BY <1>4, <1>5
<1>12. IsFiniteSet(r) /\ r \in SUBSET S
  BY <1>4, FS_Subset
<1>13. Sum(r) \in Int
  BY <1>12, SumIsInt
<1> HIDE DEF Sum, z, r
<1>. QED  BY <1>3, <1>5, <1>10, <1>11, <1>13

LEMMA SumIsNat ==
  ASSUME NEW S, IsFiniteSet(S), NEW f, \A x \in S : f[x] \in Nat
  PROVE  SumFunctionOnSet(f, S) \in Nat
<1> DEFINE T == {s \in SUBSET S : SumFunctionOnSet(f, s) \notin Nat}
<1>1. SUFFICES ASSUME T # {} PROVE FALSE
  OBVIOUS
<1>2. PICK s \in T : \A x \in s : s \ {x} \notin T
  BY <1>1, MinimalSubset
<1>3. s # {}
  BY SumEmpty
<1>4. First(s) \in s /\ s \in SUBSET S
  BY <1>3, FirstMember
<1>5. SumFunctionOnSet(f, s \ {First(s)}) \in Nat
  BY <1>2, <1>4
<1>6. SumFunctionOnSet(f, s) = f[First(s)] + SumFunctionOnSet(f, s \ {First(s)})
  BY <1>3, <1>4, FS_Subset, SumTakesFirst
<1>. QED  BY <1>4, <1>5, <1>6

-------------------------------------------------------------------------------
(* Sums of two functions.                                                  *)

LEMMA SumIsMonotone ==
  ASSUME NEW S, IsFiniteSet(S), NEW f, NEW g,
         \A x \in S : f[x] \in Int /\ g[x] \in Int /\ f[x] <= g[x]
  PROVE  SumFunctionOnSet(f, S) <= SumFunctionOnSet(g, S)
<1> DEFINE T == {s \in SUBSET S : ~(SumFunctionOnSet(f, s) <= SumFunctionOnSet(g, s))}
<1>1. SUFFICES ASSUME T # {} PROVE FALSE
  OBVIOUS
<1>2. PICK s \in T : \A x \in s : s \ {x} \notin T
  BY <1>1, MinimalSubset
<1>3. s # {}
  BY SumEmpty
<1> DEFINE r == s \ {First(s)}
<1>4. First(s) \in s /\ s \in SUBSET S /\ r \in SUBSET S
  BY <1>3, FirstMember
<1>5. SumFunctionOnSet(f, r) <= SumFunctionOnSet(g, r)
  BY <1>2, <1>4
<1>6. /\ SumFunctionOnSet(f, s) = f[First(s)] + SumFunctionOnSet(f, r)
      /\ SumFunctionOnSet(g, s) = g[First(s)] + SumFunctionOnSet(g, r)
  BY <1>3, <1>4, FS_Subset, SumTakesFirst
<1>7. SumFunctionOnSet(f, r) \in Int /\ SumFunctionOnSet(g, r) \in Int
  BY <1>4, FS_Subset, SumIsInt
<1>8. ~(SumFunctionOnSet(f, s) <= SumFunctionOnSet(g, s))
  OBVIOUS
<1>9. f[First(s)] \in Int /\ g[First(s)] \in Int /\ f[First(s)] <= g[First(s)]
  BY <1>4
<1> HIDE DEF r
<1>. QED  BY <1>5, <1>6, <1>7, <1>8, <1>9

LEMMA SumOfEqual ==
  ASSUME NEW S, IsFiniteSet(S), NEW f, NEW g,
         \A x \in S : f[x] \in Int /\ g[x] = f[x]
  PROVE  SumFunctionOnSet(f, S) = SumFunctionOnSet(g, S)
<1>1. /\ SumFunctionOnSet(f, S) <= SumFunctionOnSet(g, S)
      /\ SumFunctionOnSet(g, S) <= SumFunctionOnSet(f, S)
  BY SumIsMonotone
<1>2. SumFunctionOnSet(f, S) \in Int /\ SumFunctionOnSet(g, S) \in Int
  BY SumIsInt
<1>. QED  BY <1>1, <1>2

(* A function that changes at one index changes its sum by as much.        *)
LEMMA SumChanges ==
  ASSUME NEW S, IsFiniteSet(S), NEW f, NEW g, NEW x \in S,
         \A y \in S : f[y] \in Int /\ g[y] \in Int /\ (y # x => g[y] = f[y])
  PROVE  SumFunctionOnSet(g, S) = SumFunctionOnSet(f, S) - f[x] + g[x]
<1> DEFINE r == S \ {x}
<1>1. IsFiniteSet(r) /\ \A y \in r : f[y] \in Int /\ g[y] = f[y]
  BY FS_Subset
<1>2. SumFunctionOnSet(f, r) = SumFunctionOnSet(g, r) /\ SumFunctionOnSet(f, r) \in Int
  BY <1>1, SumOfEqual, SumIsInt
<1>3. /\ SumFunctionOnSet(f, S) = f[x] + SumFunctionOnSet(f, r)
      /\ SumFunctionOnSet(g, S) = g[x] + SumFunctionOnSet(g, r)
  BY SumTakesOut
<1>. QED  BY <1>2, <1>3

===============================================================================
