------------------------ MODULE NearestNeighboursProofs ------------------------
(***************************************************************************)
(* For any points, queries and rounding that keeps the order of numbers:   *)
(* every split leaves points on both sides, the planes of the tree part    *)
(* its points also after the tree has been dumped and read, every search   *)
(* finds as many different points as it was asked for and none that it     *)
(* leaves out is closer, and every row that the classifier goes on to read *)
(* exists.                                                                 *)
(***************************************************************************)
EXTENDS NearestNeighbours, SumTheorems

-------------------------------------------------------------------------------
(* Finite sets have least and greatest members.                            *)

LEMMA LeastImage ==
  ASSUME NEW S, IsFiniteSet(S), S # {}, NEW f, \A i \in S : f[i] \in Int
  PROVE  \E i \in S : \A j \in S : f[i] <= f[j]
<1> DEFINE lower(i) == {j \in S : f[j] < f[i]}
           T == {lower(i) : i \in S}
<1>1. IsWellFoundedOn(StrictSubsetOrdering(S), FiniteSubsetsOf(S))
  BY FS_StrictSubsetOrderingWellFounded
<1>2. FiniteSubsetsOf(S) = SUBSET S
  BY FS_FiniteSubsetsOfFinite
<1>3. T \subseteq SUBSET S /\ T # {}
  OBVIOUS
<1>4. \E x \in T : \A y \in T : ~(<<y, x>> \in StrictSubsetOrdering(S))
  <2> HIDE DEF T
  <2>. QED  BY <1>1, <1>2, <1>3, WFMin
<1>5. PICK i \in S : \A j \in S : ~(<<lower(j), lower(i)>> \in StrictSubsetOrdering(S))
  BY <1>4
<1>6. ASSUME NEW j \in S, f[j] < f[i]
      PROVE  FALSE
  <2>1. lower(j) \in SUBSET S /\ lower(i) \in SUBSET S
    OBVIOUS
  <2>2. lower(j) \subseteq lower(i)
    BY <1>6
  <2>3. j \in lower(i) /\ j \notin lower(j)
    BY <1>6
  <2>4. <<lower(j), lower(i)>> \in StrictSubsetOrdering(S)
    <3> HIDE DEF lower
    <3>. QED  BY <2>1, <2>2, <2>3 DEF StrictSubsetOrdering
  <2>. QED  BY <2>4, <1>5
<1>. QED  BY <1>5, <1>6

LEMMA GreatestImage ==
  ASSUME NEW S, IsFiniteSet(S), S # {}, NEW f, \A i \in S : f[i] \in Int
  PROVE  \E i \in S : \A j \in S : f[i] >= f[j]
<1> DEFINE g == [i \in S |-> -f[i]]
<1>1. \A i \in S : g[i] \in Int /\ f[i] = -g[i]
  OBVIOUS
<1> HIDE DEF g
<1>2. PICK i \in S : \A j \in S : g[i] <= g[j]
  BY <1>1, LeastImage
<1>. QED  BY <1>1, <1>2

LEMMA MinMember ==
  ASSUME NEW S \in SUBSET Int, IsFiniteSet(S), S # {}
  PROVE  Min(S) \in S /\ \A x \in S : Min(S) <= x
<1> DEFINE f == [x \in S |-> x]
<1>1. \A x \in S : f[x] = x /\ f[x] \in Int
  OBVIOUS
<1> HIDE DEF f
<1>2. PICK x \in S : \A y \in S : f[x] <= f[y]
  BY <1>1, LeastImage
<1>3. \E z \in S : \A y \in S : z <= y
  BY <1>1, <1>2
<1>. QED  BY <1>3 DEF Min

LEMMA MaxMember ==
  ASSUME NEW S \in SUBSET Int, IsFiniteSet(S), S # {}
  PROVE  Max(S) \in S /\ \A x \in S : Max(S) >= x
<1> DEFINE f == [x \in S |-> x]
<1>1. \A x \in S : f[x] = x /\ f[x] \in Int
  OBVIOUS
<1> HIDE DEF f
<1>2. PICK x \in S : \A y \in S : f[x] >= f[y]
  BY <1>1, GreatestImage
<1>3. \E z \in S : \A y \in S : z >= y
  BY <1>1, <1>2
<1>. QED  BY <1>3 DEF Max

-------------------------------------------------------------------------------
(* One split.                                                              *)

PointsFinite ==
  /\ IsFiniteSet(Indices) /\ Indices # {} /\ Indices = 0 .. N - 1
  /\ pts \in [Indices -> Points]

LEMMA AlongBounds ==
  ASSUME PointsFinite, NEW S \in SUBSET Indices, S # {}, NEW d \in Dims
  PROVE  /\ Min(Along(S, d)) \in Along(S, d) /\ Max(Along(S, d)) \in Along(S, d)
         /\ \A i \in S : Min(Along(S, d)) <= pts[i][d] /\ pts[i][d] <= Max(Along(S, d))
         /\ Along(S, d) \subseteq Coords
<1>1. IsFiniteSet(S)
  BY FS_Subset DEF PointsFinite
<1>2. \A i \in S : pts[i][d] \in Coords
  BY DEF PointsFinite, Points
<1>3. Coords \subseteq Int
  BY SizesAssumption DEF Coords
<1> DEFINE f == [i \in S |-> pts[i][d]]
<1>4. \A i \in S : f[i] \in Int /\ f[i] = pts[i][d]
  BY <1>2, <1>3
<1> HIDE DEF f
<1>5. \E i \in S : \A j \in S : f[i] <= f[j]
  BY <1>1, <1>4, LeastImage
<1>6. \E i \in S : \A j \in S : f[i] >= f[j]
  BY <1>1, <1>4, GreatestImage
<1>7. \E x \in Along(S, d) : \A y \in Along(S, d) : x <= y
  BY <1>4, <1>5 DEF Along
<1>8. \E x \in Along(S, d) : \A y \in Along(S, d) : x >= y
  BY <1>4, <1>6 DEF Along
<1>9. Min(Along(S, d)) \in Along(S, d) /\ \A y \in Along(S, d) : Min(Along(S, d)) <= y
  BY <1>7 DEF Min
<1>10. Max(Along(S, d)) \in Along(S, d) /\ \A y \in Along(S, d) : Max(Along(S, d)) >= y
  BY <1>8 DEF Max
<1>11. Along(S, d) \subseteq Coords
  BY <1>2 DEF Along
<1>12. \A i \in S : pts[i][d] \in Along(S, d)
  BY DEF Along
<1>. QED  BY <1>3, <1>9, <1>10, <1>11, <1>12

InBox(S, b) == \A i \in S, d \in Dims : b.lo[d] <= pts[i][d] /\ pts[i][d] <= b.hi[d]

LEMMA DimsFinite == IsFiniteSet(Dims) /\ Dims # {} /\ Dims \subseteq Int
<1>1. 1 \in Dims
  BY SizesAssumption DEF Dims
<1>2. IsFiniteSet(1 .. Dim)
  BY SizesAssumption, FS_Interval
<1>. QED  BY <1>1, <1>2 DEF Dims

LEMMA CutDimType ==
  ASSUME PointsFinite, NEW S \in SUBSET Indices, S # {},
         NEW b, b.lo \in Points, b.hi \in Points, InBox(S, b)
  PROVE  CutDim(S, b) \in Dims
<1>1. IsFiniteSet(Dims) /\ Dims # {} /\ Dims \subseteq Int
  BY DimsFinite
<1>2. Coords \subseteq Int
  BY SizesAssumption DEF Coords
<1>3. ASSUME NEW d \in Dims
      PROVE  Side(b, d) \in Int /\ Side(b, d) >= 0
  <2>1. b.lo[d] \in Int /\ b.hi[d] \in Int
    BY <1>2 DEF Points
  <2>2. PICK i \in S : TRUE
    OBVIOUS
  <2>3. pts[i][d] \in Int /\ b.lo[d] <= pts[i][d] /\ pts[i][d] <= b.hi[d]
    BY <1>2 DEF InBox, PointsFinite, Points
  <2>. QED  BY <2>1, <2>3 DEF Side
<1>4. ASSUME NEW d \in Dims
      PROVE  Spread(S, d) \in Int
  <2>1. Min(Along(S, d)) \in Int /\ Max(Along(S, d)) \in Int
    BY <1>2, AlongBounds
  <2>. QED  BY <2>1 DEF Spread
<1> DEFINE long == LongSides(b)
           widest == {d \in long : \A e \in long : Spread(S, d) >= Spread(S, e)}
<1>5. long # {}
  <2> DEFINE f == [d \in Dims |-> Side(b, d)]
  <2>1. \A d \in Dims : f[d] = Side(b, d) /\ f[d] \in Int
    BY <1>3
  <2> HIDE DEF f
  <2>2. PICK d \in Dims : \A e \in Dims : f[d] >= f[e]
    BY <1>1, <2>1, GreatestImage
  <2>3. ASSUME NEW e \in Dims
        PROVE  1000 * Side(b, d) >= 999 * Side(b, e)
    BY <1>3, <2>1, <2>2
  <2>. QED  BY <2>3 DEF LongSides
<1>6. long \subseteq Dims /\ IsFiniteSet(long)
  BY <1>1, FS_Subset DEF LongSides
<1> HIDE DEF long
<1>7. widest # {}
  <2> DEFINE g == [d \in long |-> Spread(S, d)]
  <2>1. \A d \in long : g[d] = Spread(S, d) /\ g[d] \in Int
    BY <1>4, <1>6
  <2> HIDE DEF g
  <2>2. PICK d \in long : \A e \in long : g[d] >= g[e]
    BY <1>5, <1>6, <2>1, GreatestImage
  <2>. QED  BY <2>1, <2>2
<1>8. widest \subseteq Int /\ widest \subseteq long /\ IsFiniteSet(widest)
  BY <1>1, <1>6, FS_Subset
<1>9. CutDim(S, b) = CHOOSE d \in widest : \A e \in widest : d <= e
  BY DEF CutDim, long
<1> HIDE DEF widest
<1>10. CutDim(S, b) = Min(widest)
  BY <1>9 DEF Min
<1>. QED  BY <1>6, <1>7, <1>8, <1>10, MinMember

(* Of more than one number, some are not on each side of their middle.     *)
LEMMA LowCountBounds ==
  ASSUME NEW n \in Nat, n > 1, NEW br1 \in Nat, NEW br2 \in Nat,
         br1 <= n - 1, br1 + br2 >= 1
  PROVE  (IF br1 > n \div 2 THEN br1
          ELSE IF br1 + br2 < n \div 2 THEN br1 + br2 ELSE n \div 2) \in 1 .. n - 1
<1>1. n \div 2 \in 1 .. n - 1
  OBVIOUS
<1>. QED  BY <1>1

(* A set that has some of two disjoint finite sets.                        *)
LEMMA CountParts ==
  ASSUME NEW S, IsFiniteSet(S), NEW B \in SUBSET S, NEW t \in SUBSET S, B \cap t = {}
  PROVE  /\ Cardinality(B \cup t) = Cardinality(B) + Cardinality(t)
         /\ Cardinality(B) \in Nat /\ Cardinality(t) \in Nat
<1>1. IsFiniteSet(B) /\ IsFiniteSet(t)
  BY FS_Subset
<1>2. Cardinality(B) \in Nat /\ Cardinality(t) \in Nat
  BY <1>1, FS_CardinalityType
<1>3. Cardinality(B \cup t) = Cardinality(B) + Cardinality(t) - Cardinality(B \cap t)
  BY <1>1, FS_Union
<1>4. Cardinality(B \cap t) = 0
  BY FS_EmptySet
<1>. QED  BY <1>2, <1>3, <1>4

(* LowCount leaves a point for each side.                                  *)
LEMMA LowCountType ==
  ASSUME PointsFinite, NEW S \in SUBSET Indices, Cardinality(S) > 1,
         NEW b, b.lo \in Points, b.hi \in Points, InBox(S, b),
         NEW d \in Dims, NEW cv, cv = CutVal(S, b, d)
  PROVE  /\ cv \in Coords /\ b.lo[d] <= cv /\ cv <= b.hi[d]
         /\ LowCount(S, b, d, cv) \in 1 .. Cardinality(S) - 1
<1>1. IsFiniteSet(S)
  BY FS_Subset DEF PointsFinite
<1>2. Cardinality(S) \in Nat
  BY <1>1, FS_CardinalityType
<1>3. S # {}
  BY <1>1, <1>2, FS_EmptySet
<1>4. Coords \subseteq Int /\ \A x, y \in Coords, z \in Int : x <= z /\ z <= y => z \in Coords
  BY SizesAssumption DEF Coords
<1>5. \A i \in S : pts[i][d] \in Coords
  BY DEF PointsFinite, Points
<1> DEFINE least == Min(Along(S, d))
           most  == Max(Along(S, d))
           mid   == Middle(b, d)
           B     == Below(S, d, cv)
           T     == On(S, d, cv)
           n     == Cardinality(S)
<1>6. PICK i \in S, j \in S : pts[i][d] = least /\ pts[j][d] = most
  <2>1. least \in Along(S, d) /\ most \in Along(S, d)
    BY <1>3, AlongBounds
  <2>. QED  BY <2>1 DEF Along
<1>7. least \in Coords /\ most \in Coords
  BY <1>5, <1>6
<1>8. b.lo[d] \in Coords /\ b.hi[d] \in Coords /\ b.lo[d] <= least /\ most <= b.hi[d]
  BY <1>6 DEF InBox, Points
<1>9. mid \in Int
  <2>1. b.lo[d] \in Int /\ b.hi[d] \in Int
    BY <1>4, <1>8
  <2>2. \A x, y \in Int : (x + y) \div 2 \in Int
    OBVIOUS
  <2>. QED  BY <2>1, <2>2 DEF Middle
<1>10. least <= most
  BY <1>3, <1>6, AlongBounds
<1>11. cv = IF mid < least THEN least ELSE IF mid > most THEN most ELSE mid
  BY DEF CutVal
<1>12. LowCount(S, b, d, cv)
         = IF mid < least THEN 1 ELSE IF mid > most THEN n - 1
           ELSE IF Cardinality(B) > n \div 2 THEN Cardinality(B)
           ELSE IF Cardinality(B) + Cardinality(T) < n \div 2
                THEN Cardinality(B) + Cardinality(T) ELSE n \div 2
  BY DEF LowCount
<1>13. B \subseteq S /\ T \subseteq S /\ j \in S /\ i \in S
  BY <1>6 DEF Below, On
<1>14. /\ j \in B => pts[j][d] < cv
       /\ pts[i][d] < cv \/ pts[i][d] = cv => i \in B \cup T
  BY <1>13 DEF Below, On
<1> HIDE DEF least, most, mid, B, T
<1>15. cv \in Coords /\ b.lo[d] <= cv /\ cv <= b.hi[d]
  <2>1. least <= cv /\ cv <= most /\ cv \in Int
    BY <1>4, <1>7, <1>9, <1>10, <1>11
  <2>2. b.lo[d] \in Int /\ b.hi[d] \in Int /\ least \in Int /\ most \in Int
    BY <1>4, <1>7, <1>8
  <2>3. cv \in Coords
    BY <1>4, <1>7, <2>1
  <2>. QED  BY <1>8, <2>1, <2>2, <2>3
<1>16. CASE mid < least \/ mid > most
  BY <1>2, <1>4, <1>7, <1>9, <1>10, <1>12, <1>15, <1>16
<1>17. CASE ~(mid < least \/ mid > most)
  <2>1. cv = mid /\ least <= cv /\ cv <= most
    BY <1>4, <1>7, <1>9, <1>11, <1>17
  <2>2. j \notin B /\ i \in B \cup T
    BY <1>4, <1>6, <1>7, <1>14, <1>15, <2>1
  <2>3. IsFiniteSet(B) /\ IsFiniteSet(T)
    BY <1>1, <1>13, FS_Subset
  <2>4. Cardinality(B) \in Nat /\ Cardinality(T) \in Nat
    BY <2>3, FS_CardinalityType
  <2>5. IsFiniteSet(S \ {j}) /\ Cardinality(S \ {j}) = n - 1
    BY <1>1, <1>13, FS_RemoveElement
  <2>6. Cardinality(B) <= n - 1
    <3>1. B \subseteq S \ {j}
      BY <1>13, <2>2
    <3>. QED  BY <3>1, <2>5, FS_Subset
  <2>7. Cardinality(B) + Cardinality(T) >= 1
    <3>1. B # {} \/ T # {}
      BY <2>2
    <3>2. Cardinality(B) # 0 \/ Cardinality(T) # 0
      BY <2>3, <3>1, FS_EmptySet
    <3>. QED  BY <2>4, <3>2
  <2>8. LowCount(S, b, d, cv)
          = IF Cardinality(B) > n \div 2 THEN Cardinality(B)
            ELSE IF Cardinality(B) + Cardinality(T) < n \div 2
                 THEN Cardinality(B) + Cardinality(T) ELSE n \div 2
    BY <1>12, <1>17
  <2> HIDE DEF n
  <2>9. n \in Nat /\ n > 1
    BY <1>2 DEF n
  <2>10. LowCount(S, b, d, cv) \in 1 .. n - 1
    BY <2>4, <2>6, <2>7, <2>8, <2>9, LowCountBounds
  <2>. QED  BY <1>15, <2>10 DEF n
<1>. QED  BY <1>16, <1>17

(* The plane is inside of the box, and there are points on both sides.     *)
LEMMA SplitParts ==
  ASSUME PointsFinite, NEW S \in SUBSET Indices, Cardinality(S) > 1,
         NEW b, b.lo \in Points, b.hi \in Points, InBox(S, b),
         NEW d \in Dims, NEW cv, cv = CutVal(S, b, d), NEW low \in LowSides(S, b, d, cv)
  PROVE  /\ cv \in Coords /\ b.lo[d] <= cv /\ cv <= b.hi[d]
         /\ low \subseteq S /\ low # {} /\ S \ low # {}
         /\ \A i \in low : pts[i][d] <= cv
         /\ \A i \in S \ low : cv <= pts[i][d]
<1>1. IsFiniteSet(S)
  BY FS_Subset DEF PointsFinite
<1>2. Coords \subseteq Int /\ \A i \in S : pts[i][d] \in Coords
  BY SizesAssumption DEF Coords, PointsFinite, Points
<1>3. /\ cv \in Coords /\ b.lo[d] <= cv /\ cv <= b.hi[d]
      /\ LowCount(S, b, d, cv) \in 1 .. Cardinality(S) - 1
  BY LowCountType
<1> DEFINE B == Below(S, d, cv)
           count == LowCount(S, b, d, cv)
<1>4. PICK ties \in SUBSET On(S, d, cv) : low = B \cup ties
                                         /\ Cardinality(B) + Cardinality(ties) = count
  BY DEF LowSides
<1>5. \A i \in S : /\ i \in B <=> pts[i][d] < cv
                   /\ i \in ties => pts[i][d] = cv
  BY DEF Below, On
<1>6. B \subseteq S /\ ties \subseteq S
  BY DEF Below, On
<1> HIDE DEF B, count
<1>7. B \cap ties = {}
  BY <1>2, <1>3, <1>5, <1>6
<1>8. Cardinality(low) = count
  BY <1>1, <1>4, <1>6, <1>7, CountParts
<1>9. count \in 1 .. Cardinality(S) - 1
  BY <1>3 DEF count
<1>10. Cardinality(S) \in Nat
  BY <1>1, FS_CardinalityType
<1>11. Cardinality(low) # 0 /\ low # S
  BY <1>8, <1>9, <1>10
<1>12. low \subseteq S /\ low # {} /\ S \ low # {}
  BY <1>4, <1>6, <1>11, FS_EmptySet
<1>13. ASSUME NEW i \in S
       PROVE  (i \in low => pts[i][d] <= cv) /\ (i \notin low => cv <= pts[i][d])
  <2>1. pts[i][d] \in Int /\ cv \in Int
    BY <1>2, <1>3
  <2>2. i \in low => pts[i][d] < cv \/ pts[i][d] = cv
    BY <1>4, <1>5
  <2>3. i \notin low => ~(pts[i][d] < cv)
    BY <1>4, <1>5
  <2>. QED  BY <2>1, <2>2, <2>3
<1>. QED  BY <1>3, <1>12, <1>13

-------------------------------------------------------------------------------
(* The tree while it grows, and once it has been read.                     *)

ModelTypes ==
  /\ PointsFinite
  /\ box \in [lo : Points, hi : Points]
  /\ tree \in [DOMAIN tree -> Nodes] /\ DOMAIN tree \subseteq Paths
  /\ calls \in Seq(AllCalls)

(* A node or a call that is still to be made has the points S.             *)
Has(q, S) ==
  \/ q \in DOMAIN tree /\ tree[q].points = S
  \/ \E j \in DOMAIN calls : calls[j].path = q /\ calls[j].points = S

CallsSound ==
  \A j \in DOMAIN calls : calls[j].points # {} /\ InBox(calls[j].points, calls[j])

(* No node is made twice, and none before its parent.                      *)
PathsSound ==
  /\ \A j \in DOMAIN calls : calls[j].path \notin DOMAIN tree
  /\ \A j, l \in DOMAIN calls : j # l => calls[j].path # calls[l].path
  /\ \A q \in Paths, side \in {"lo", "hi"} :
       /\ Append(q, side) \in DOMAIN tree => q \in DOMAIN tree
       /\ \A j \in DOMAIN calls : calls[j].path = Append(q, side) => q \in DOMAIN tree

Parted(p) ==
  \E low \in SUBSET tree[p].points :
    /\ Has(Append(p, "lo"), low) /\ Has(Append(p, "hi"), tree[p].points \ low)
    /\ \A i \in low :
         tree[p].lv <= pts[i][tree[p].cd] /\ pts[i][tree[p].cd] <= tree[p].cv
    /\ \A i \in tree[p].points \ low :
         tree[p].cv <= pts[i][tree[p].cd] /\ pts[i][tree[p].cd] <= tree[p].hv

TreeSound ==
  \A p \in DOMAIN tree :
    /\ tree[p].points # {}
    /\ IsLeaf(tree[p]) => \E i \in Indices : tree[p].points = {i}
    /\ ~IsLeaf(tree[p]) => Parted(p)

ModelInv ==
  /\ ModelTypes /\ CallsSound /\ PathsSound /\ TreeSound
  /\ phase # "build" => calls = <<>>
  /\ Has(<<>>, Indices)

LEMMA ModelInit == Init => ModelInv
<1> SUFFICES ASSUME Init PROVE ModelInv
  OBVIOUS
<1>1. PointsFinite
  <2>1. PICK a \in PointArrays : pts = a
    BY DEF Init
  <2>. QED  BY <2>1, PointsAssumption DEF PointsFinite, N, Indices
<1>2. Indices # {} /\ Indices \in SUBSET Indices
  BY <1>1 DEF PointsFinite
<1>3. ASSUME NEW d \in Dims
      PROVE  /\ Min(Along(Indices, d)) \in Coords /\ Max(Along(Indices, d)) \in Coords
             /\ \A i \in Indices : /\ Min(Along(Indices, d)) <= pts[i][d]
                                   /\ pts[i][d] <= Max(Along(Indices, d))
  <2>1. /\ Min(Along(Indices, d)) \in Along(Indices, d)
        /\ Max(Along(Indices, d)) \in Along(Indices, d)
        /\ Along(Indices, d) \subseteq Coords
        /\ \A i \in Indices : /\ Min(Along(Indices, d)) <= pts[i][d]
                              /\ pts[i][d] <= Max(Along(Indices, d))
    BY <1>1, <1>2, AlongBounds
  <2>. QED  BY <2>1
<1>4. /\ box = [lo |-> [d \in Dims |-> Min(Along(Indices, d))],
                hi |-> [d \in Dims |-> Max(Along(Indices, d))]]
      /\ tree = <<>> /\ calls = <<Call(<<>>, Indices, box.lo, box.hi)>> /\ phase = "build"
  BY DEF Init, Indices
<1>5. box \in [lo : Points, hi : Points]
  BY <1>3, <1>4 DEF Points
<1>6. InBox(Indices, box)
  BY <1>3, <1>4 DEF InBox
<1>7. DOMAIN tree = {} /\ tree = [x \in {} |-> x]
  BY <1>4
<1>8. <<>> \in Paths
  BY DEF Paths
<1>9. Call(<<>>, Indices, box.lo, box.hi) \in AllCalls
  BY <1>2, <1>5, <1>8 DEF Call, AllCalls
<1>10. /\ calls \in Seq(AllCalls) /\ DOMAIN calls = {1}
       /\ calls[1] = [path |-> <<>>, points |-> Indices, lo |-> box.lo, hi |-> box.hi]
  BY <1>4, <1>9 DEF Call
<1>11. ModelTypes
  BY <1>1, <1>5, <1>7, <1>10 DEF ModelTypes
<1>12. CallsSound
  BY <1>2, <1>6, <1>10 DEF CallsSound, InBox
<1>13. PathsSound
  <2>1. \A q \in Paths, side \in {"lo", "hi"} : Append(q, side) # <<>>
    BY DEF Paths
  <2>. QED  BY <1>7, <1>10, <2>1 DEF PathsSound
<1>14. TreeSound
  BY <1>7 DEF TreeSound
<1>15. Has(<<>>, Indices)
  BY <1>10 DEF Has
<1>. QED  BY <1>4, <1>11, <1>12, <1>13, <1>14, <1>15 DEF ModelInv

(* The node of the first call joins the tree.                              *)
LEMMA Grown ==
  ASSUME ModelInv, calls # <<>>, NEW node, node \in Nodes,
         node.points = Head(calls).points,
         tree' = WithNode(Head(calls).path, node)
  PROVE  /\ calls[1] = Head(calls) /\ 1 \in DOMAIN calls /\ Head(calls) \in AllCalls
         /\ DOMAIN tree' = DOMAIN tree \cup {calls[1].path}
         /\ tree' \in [DOMAIN tree' -> Nodes] /\ DOMAIN tree' \subseteq Paths
         /\ calls[1].path \notin DOMAIN tree
         /\ tree'[calls[1].path] = node
         /\ \A q \in DOMAIN tree : tree'[q] = tree[q]
<1>1. /\ calls[1] = Head(calls) /\ 1 \in DOMAIN calls /\ Head(calls) \in AllCalls
  BY DEF ModelInv, ModelTypes
<1>2. calls[1].path \notin DOMAIN tree /\ calls[1].path \in Paths
  BY <1>1 DEF ModelInv, PathsSound, AllCalls
<1>3. tree' = [q \in DOMAIN tree \cup {calls[1].path} |->
                 IF q = calls[1].path THEN node ELSE tree[q]]
  BY <1>1 DEF WithNode
<1>4. tree \in [DOMAIN tree -> Nodes] /\ DOMAIN tree \subseteq Paths
  BY DEF ModelInv, ModelTypes
<1>. QED  BY <1>1, <1>2, <1>3, <1>4

(* Nothing that a node or a call has gets lost when the first call is made *)
(* and the others stay.                                                    *)
LEMMA KeepsHas ==
  ASSUME ModelInv, calls # <<>>, NEW node, node \in Nodes,
         node.points = Head(calls).points,
         tree' = WithNode(Head(calls).path, node),
         \A j \in 2 .. Len(calls) : \E l \in DOMAIN calls' : calls'[l] = calls[j],
         NEW q, NEW S, Has(q, S)
  PROVE  Has(q, S)'
<1>1. /\ calls[1] = Head(calls)
      /\ DOMAIN tree' = DOMAIN tree \cup {calls[1].path}
      /\ tree'[calls[1].path] = node
      /\ \A r \in DOMAIN tree : tree'[r] = tree[r]
  BY Grown
<1>2. CASE q \in DOMAIN tree /\ tree[q].points = S
  BY <1>1, <1>2 DEF Has
<1>3. CASE \E j \in DOMAIN calls : calls[j].path = q /\ calls[j].points = S
  <2>1. PICK j \in DOMAIN calls : calls[j].path = q /\ calls[j].points = S
    BY <1>3
  <2>2. CASE j = 1
    BY <1>1, <2>1, <2>2 DEF Has
  <2>3. CASE j # 1
    <3>1. j \in 2 .. Len(calls)
      BY <2>1, <2>3 DEF ModelInv, ModelTypes
    <3>. QED  BY <2>1, <3>1 DEF Has
  <2>. QED  BY <2>2, <2>3
<1>. QED  BY <1>2, <1>3 DEF Has

(* So the nodes that were there before stay sound.                         *)
LEMMA KeepsTree ==
  ASSUME ModelInv, calls # <<>>, NEW node, node \in Nodes,
         node.points = Head(calls).points,
         tree' = WithNode(Head(calls).path, node), pts' = pts,
         \A j \in 2 .. Len(calls) : \E l \in DOMAIN calls' : calls'[l] = calls[j],
         NEW p \in DOMAIN tree
  PROVE  /\ tree'[p].points # {}
         /\ IsLeaf(tree'[p]) => \E i \in Indices' : tree'[p].points = {i}
         /\ ~IsLeaf(tree'[p]) => Parted(p)'
<1>1. tree'[p] = tree[p]
  BY Grown
<1>2. /\ tree[p].points # {}
      /\ IsLeaf(tree[p]) => \E i \in Indices : tree[p].points = {i}
      /\ ~IsLeaf(tree[p]) => Parted(p)
  BY DEF ModelInv, TreeSound
<1>3. ASSUME Parted(p)
      PROVE  Parted(p)'
  <2>1. PICK low \in SUBSET tree[p].points :
          /\ Has(Append(p, "lo"), low) /\ Has(Append(p, "hi"), tree[p].points \ low)
          /\ \A i \in low :
               tree[p].lv <= pts[i][tree[p].cd] /\ pts[i][tree[p].cd] <= tree[p].cv
          /\ \A i \in tree[p].points \ low :
               tree[p].cv <= pts[i][tree[p].cd] /\ pts[i][tree[p].cd] <= tree[p].hv
    BY <1>3 DEF Parted
  <2>2. \A q, S : Has(q, S) => Has(q, S)'
    <3> TAKE q, S
    <3> HAVE Has(q, S)
    <3>. QED  BY KeepsHas
  <2>3. PICK high, left, right :
          high = tree[p].points \ low /\ left = Append(p, "lo") /\ right = Append(p, "hi")
    OBVIOUS
  <2>4. Has(Append(p, "lo"), low)' /\ Has(Append(p, "hi"), high)'
    <3>1. Has(left, low) /\ Has(right, high)
      BY <2>1, <2>3
    <3>2. Has(left, low)'
      BY <2>2, <3>1
    <3>3. Has(right, high)'
      BY <2>2, <3>1
    <3>. QED  BY <2>3, <3>2, <3>3 DEF Has
  <2>. QED  BY <1>1, <2>1, <2>3, <2>4 DEF Parted
<1>. QED  BY <1>1, <1>2, <1>3 DEF Indices

LEMMA MakeLeafModel ==
  ASSUME ModelInv, MakeLeaf
  PROVE  ModelInv'
<1> DEFINE c == Head(calls)
           node == Leaf(c.points)
<1>1. /\ phase = "build" /\ calls # <<>> /\ Cardinality(c.points) <= 1
      /\ tree' = WithNode(c.path, node) /\ calls' = Tail(calls)
      /\ pts' = pts /\ box' = box /\ phase' = "build"
  BY DEF MakeLeaf
<1>2. /\ calls[1] = c /\ 1 \in DOMAIN calls /\ c \in AllCalls
  BY <1>1 DEF ModelInv, ModelTypes
<1>3. c.points # {} /\ c.points \subseteq Indices /\ PointsFinite
  BY <1>2 DEF ModelInv, CallsSound, AllCalls, ModelTypes
<1>4. node \in Nodes /\ node.points = c.points /\ node.cd = 0
  <2>1. Lowest \in Coords
    <3>1. PICK i \in Indices : TRUE
      BY <1>3
    <3>2. pts[i][1] \in Coords
      <4>1. 1 \in Dims
        BY SizesAssumption DEF Dims
      <4>. QED  BY <1>3, <4>1 DEF PointsFinite, Points
    <3>. QED  BY <3>2, SizesAssumption DEF Coords
  <2>2. 0 \in 0 .. Dim
    BY SizesAssumption
  <2>. QED  BY <1>3, <2>1, <2>2 DEF Leaf, Nodes
<1> HIDE DEF node
<1>5. /\ DOMAIN tree' = DOMAIN tree \cup {c.path}
      /\ tree' \in [DOMAIN tree' -> Nodes] /\ DOMAIN tree' \subseteq Paths
      /\ c.path \notin DOMAIN tree
      /\ tree'[c.path] = node
      /\ \A q \in DOMAIN tree : tree'[q] = tree[q]
  BY <1>1, <1>2, <1>4, Grown
<1>6. /\ calls' \in Seq(AllCalls) /\ DOMAIN calls = 1 .. Len(calls)
      /\ \A j \in DOMAIN calls' : j + 1 \in DOMAIN calls /\ calls'[j] = calls[j + 1] /\ j \in Int
      /\ \A j \in 2 .. Len(calls) : j - 1 \in DOMAIN calls' /\ calls'[j - 1] = calls[j]
  <2>1. calls \in Seq(AllCalls)
    BY DEF ModelInv, ModelTypes
  <2>2. /\ calls' \in Seq(AllCalls) /\ Len(calls') = Len(calls) - 1
        /\ \A j \in 1 .. Len(calls) - 1 : calls'[j] = calls[j + 1]
    BY <1>1, <2>1
  <2>3. DOMAIN calls = 1 .. Len(calls) /\ DOMAIN calls' = 1 .. Len(calls) - 1
        /\ Len(calls) \in Nat
    BY <2>1, <2>2
  <2>4. ASSUME NEW j \in 2 .. Len(calls)
        PROVE  j - 1 \in DOMAIN calls' /\ calls'[j - 1] = calls[j]
    <3>1. j - 1 \in 1 .. Len(calls) - 1 /\ (j - 1) + 1 = j
      BY <2>3
    <3>. QED  BY <2>2, <2>3, <3>1
  <2>5. \A j \in DOMAIN calls' : j + 1 \in DOMAIN calls /\ j \in Int
    BY <2>3
  <2>. QED  BY <2>2, <2>3, <2>4, <2>5
<1>7. \A q, S : Has(q, S) => Has(q, S)'
  <2> TAKE q, S
  <2> HAVE Has(q, S)
  <2>. QED  BY <1>1, <1>4, <1>6, KeepsHas
<1>8. ModelTypes'
  <2>1. PointsFinite'
    BY <1>1 DEF ModelInv, ModelTypes, PointsFinite, Indices, N
  <2>2. (box \in [lo : Points, hi : Points])'
    BY <1>1 DEF ModelInv, ModelTypes
  <2>. QED  BY <1>1, <1>5, <1>6, <2>1, <2>2 DEF ModelTypes, Nodes, AllCalls, Indices
<1>9. CallsSound'
  BY <1>1, <1>6 DEF ModelInv, CallsSound, InBox
<1>10. PathsSound'
  <2>1. \A j \in DOMAIN calls' : calls'[j].path \notin DOMAIN tree'
    BY <1>2, <1>5, <1>6 DEF ModelInv, PathsSound
  <2>2. \A j, l \in DOMAIN calls' : j # l => calls'[j].path # calls'[l].path
    BY <1>6 DEF ModelInv, PathsSound
  <2>3. \A q \in Paths, side \in {"lo", "hi"} :
          /\ Append(q, side) \in DOMAIN tree' => q \in DOMAIN tree'
          /\ \A j \in DOMAIN calls' : calls'[j].path = Append(q, side) => q \in DOMAIN tree'
    BY <1>2, <1>5, <1>6 DEF ModelInv, PathsSound
  <2>. QED  BY <2>1, <2>2, <2>3 DEF PathsSound
<1>11. TreeSound'
  <2>1. ASSUME NEW p \in DOMAIN tree
        PROVE  /\ tree'[p].points # {}
               /\ IsLeaf(tree'[p]) => \E i \in Indices' : tree'[p].points = {i}
               /\ ~IsLeaf(tree'[p]) => Parted(p)'
    BY <1>1, <1>4, <1>6, KeepsTree
  <2>2. \E i \in Indices : c.points = {i}
    <3>1. IsFiniteSet(c.points)
      BY <1>3, FS_Subset DEF PointsFinite
    <3>2. Cardinality(c.points) \in Nat /\ Cardinality(c.points) # 0
      BY <1>3, <3>1, FS_CardinalityType, FS_EmptySet
    <3>3. Cardinality(c.points) = 1
      BY <1>1, <3>2
    <3>. QED  BY <1>3, <3>1, <3>3, FS_Singleton
  <2>3. IsLeaf(tree'[c.path]) /\ tree'[c.path].points = c.points
    BY <1>4, <1>5 DEF IsLeaf
  <2>. QED  BY <1>1, <1>3, <1>5, <2>1, <2>2, <2>3 DEF TreeSound, Indices
<1>12. Has(<<>>, Indices)'
  <2>1. Has(<<>>, Indices)
    BY DEF ModelInv
  <2>. QED  BY <1>1, <1>7, <2>1 DEF Indices, Has
<1>. QED  BY <1>1, <1>8, <1>9, <1>10, <1>11, <1>12 DEF ModelInv

LEMMA SplitModel ==
  ASSUME ModelInv, Split
  PROVE  ModelInv'
<1> DEFINE c  == Head(calls)
           cd == CutDim(c.points, c)
           cv == CutVal(c.points, c, cd)
           node == [points |-> c.points, cd |-> cd, cv |-> cv,
                    lv |-> c.lo[cd], hv |-> c.hi[cd]]
           hiOfLow == [c.hi EXCEPT ![cd] = cv]
           loOfHigh == [c.lo EXCEPT ![cd] = cv]
<1>1. PICK low \in LowSides(c.points, c, cd, cv) :
        /\ phase = "build" /\ calls # <<>> /\ Cardinality(c.points) > 1
        /\ tree' = WithNode(c.path, node)
        /\ calls' = <<Call(Append(c.path, "lo"), low, c.lo, hiOfLow),
                      Call(Append(c.path, "hi"), c.points \ low, loOfHigh, c.hi)>>
                    \o Tail(calls)
        /\ pts' = pts /\ box' = box /\ phase' = "build"
  BY DEF Split
<1>2. calls[1] = c /\ 1 \in DOMAIN calls /\ c \in AllCalls
  BY <1>1 DEF ModelInv, ModelTypes
<1>3. /\ c.points # {} /\ c.points \subseteq Indices /\ PointsFinite
      /\ c.path \in Paths /\ c.lo \in Points /\ c.hi \in Points /\ InBox(c.points, c)
  BY <1>2 DEF ModelInv, CallsSound, AllCalls, ModelTypes
<1>4. cd \in Dims
  <2> HIDE DEF c
  <2>. QED  BY <1>3, CutDimType
<1>5. /\ cv \in Coords /\ c.lo[cd] <= cv /\ cv <= c.hi[cd]
      /\ low \subseteq c.points /\ low # {} /\ c.points \ low # {}
      /\ \A i \in low : pts[i][cd] <= cv
      /\ \A i \in c.points \ low : cv <= pts[i][cd]
  <2> HIDE DEF c, cd
  <2>. QED  BY <1>1, <1>3, <1>4, SplitParts
<1> HIDE DEF c, cd, cv
<1>6. /\ hiOfLow \in Points /\ loOfHigh \in Points
      /\ \A d \in Dims : /\ hiOfLow[d] = IF d = cd THEN cv ELSE c.hi[d]
                         /\ loOfHigh[d] = IF d = cd THEN cv ELSE c.lo[d]
  BY <1>3, <1>4, <1>5 DEF Points
<1>7. node \in Nodes /\ node.points = c.points
  <2>1. cd \in 0 .. Dim /\ c.lo[cd] \in Coords /\ c.hi[cd] \in Coords
    BY <1>3, <1>4, SizesAssumption DEF Dims, Points
  <2>. QED  BY <1>3, <1>5, <2>1 DEF Nodes
<1>8. ~IsLeaf(node)
  BY <1>4 DEF IsLeaf, Dims
<1> HIDE DEF hiOfLow, loOfHigh
<1>9. /\ node.cd = cd /\ node.cv = cv /\ node.lv = c.lo[cd] /\ node.hv = c.hi[cd]
  OBVIOUS
<1> DEFINE c1 == Call(Append(c.path, "lo"), low, c.lo, hiOfLow)
           c2 == Call(Append(c.path, "hi"), c.points \ low, loOfHigh, c.hi)
<1>10. /\ c1 \in AllCalls /\ c1.path = Append(c.path, "lo") /\ c1.points = low
       /\ c1.lo = c.lo /\ c1.hi = hiOfLow
  <2>1. Append(c.path, "lo") \in Paths
    BY <1>3 DEF Paths
  <2>. QED  BY <1>3, <1>5, <1>6, <2>1 DEF AllCalls, Call
<1>11. /\ c2 \in AllCalls /\ c2.path = Append(c.path, "hi") /\ c2.points = c.points \ low
       /\ c2.lo = loOfHigh /\ c2.hi = c.hi
  <2>1. Append(c.path, "hi") \in Paths
    BY <1>3 DEF Paths
  <2>. QED  BY <1>3, <1>5, <1>6, <2>1 DEF AllCalls, Call
<1>12. calls' = <<c1, c2>> \o Tail(calls) /\ tree' = WithNode(c.path, node)
  BY <1>1
<1> HIDE DEF node, c1, c2
<1>13. /\ DOMAIN tree' = DOMAIN tree \cup {c.path}
       /\ tree' \in [DOMAIN tree' -> Nodes] /\ DOMAIN tree' \subseteq Paths
       /\ c.path \notin DOMAIN tree
       /\ tree'[c.path] = node
       /\ \A q \in DOMAIN tree : tree'[q] = tree[q]
  BY <1>1, <1>2, <1>7, <1>12, Grown DEF c
<1>14. /\ calls' \in Seq(AllCalls) /\ calls'[1] = c1 /\ calls'[2] = c2
       /\ 1 \in DOMAIN calls' /\ 2 \in DOMAIN calls'
       /\ \A j \in DOMAIN calls' :
            j # 1 /\ j # 2 => j - 1 \in DOMAIN calls /\ j - 1 # 1 /\ calls'[j] = calls[j - 1]
       /\ \A j \in 2 .. Len(calls) : j + 1 \in DOMAIN calls' /\ calls'[j + 1] = calls[j]
       /\ DOMAIN calls \subseteq Int /\ DOMAIN calls' \subseteq Int
  <2>1. calls \in Seq(AllCalls) /\ calls # <<>>
    BY <1>1 DEF ModelInv, ModelTypes
  <2> DEFINE rest == Tail(calls)
  <2>2. /\ rest \in Seq(AllCalls) /\ Len(rest) = Len(calls) - 1 /\ Len(calls) \in Nat
        /\ \A j \in 1 .. Len(calls) - 1 : rest[j] = calls[j + 1]
    BY <2>1
  <2>3. <<c1, c2>> \in Seq(AllCalls) /\ Len(<<c1, c2>>) = 2
    BY <1>10, <1>11
  <2> HIDE DEF rest
  <2>4. /\ calls' \in Seq(AllCalls) /\ Len(calls') = Len(calls) + 1
        /\ calls'[1] = c1 /\ calls'[2] = c2
        /\ \A j \in 3 .. Len(calls) + 1 : calls'[j] = rest[j - 2]
    BY <1>12, <2>2, <2>3 DEF rest
  <2>5. DOMAIN calls = 1 .. Len(calls) /\ DOMAIN calls' = 1 .. Len(calls) + 1
    BY <2>1, <2>4
  <2>6. ASSUME NEW j \in 3 .. Len(calls) + 1
        PROVE  j - 1 \in 2 .. Len(calls) /\ calls'[j] = calls[j - 1]
    <3>1. j - 2 \in 1 .. Len(calls) - 1 /\ (j - 2) + 1 = j - 1
      BY <2>2
    <3>. QED  BY <2>2, <2>4, <3>1
  <2>7. ASSUME NEW j \in 2 .. Len(calls)
        PROVE  j + 1 \in DOMAIN calls' /\ calls'[j + 1] = calls[j]
    <3>1. j + 1 \in 3 .. Len(calls) + 1 /\ (j + 1) - 1 = j
      BY <2>2
    <3>. QED  BY <2>5, <2>6, <3>1
  <2>8. 1 \in DOMAIN calls' /\ 2 \in DOMAIN calls'
    BY <1>2, <2>2, <2>5
  <2>9. ASSUME NEW j \in DOMAIN calls', j # 1, j # 2
        PROVE  j - 1 \in DOMAIN calls /\ j - 1 # 1 /\ calls'[j] = calls[j - 1]
    <3>1. j \in 3 .. Len(calls) + 1
      BY <2>2, <2>5, <2>9
    <3>. QED  BY <2>2, <2>5, <2>6, <3>1
  <2>. QED  BY <2>4, <2>5, <2>7, <2>8, <2>9
<1>15. \A q, S : Has(q, S) => Has(q, S)'
  <2> TAKE q, S
  <2> HAVE Has(q, S)
  <2>. QED  BY <1>1, <1>7, <1>12, <1>14, KeepsHas DEF c
<1>16. ModelTypes'
  <2>1. PointsFinite'
    BY <1>1 DEF ModelInv, ModelTypes, PointsFinite, Indices, N
  <2>2. (box \in [lo : Points, hi : Points])'
    BY <1>1 DEF ModelInv, ModelTypes
  <2>. QED  BY <1>1, <1>13, <1>14, <2>1, <2>2 DEF ModelTypes, Nodes, AllCalls, Indices
<1>17. CallsSound'
  <2>1. ASSUME NEW i \in c.points, NEW d \in Dims
        PROVE  /\ c.lo[d] <= pts[i][d] /\ pts[i][d] <= c.hi[d]
               /\ i \in low => pts[i][d] <= hiOfLow[d]
               /\ i \notin low => loOfHigh[d] <= pts[i][d]
    BY <1>3, <1>5, <1>6 DEF InBox
  <2>2. InBox(low, c1) /\ InBox(c.points \ low, c2)
    BY <1>5, <1>10, <1>11, <2>1 DEF InBox
  <2>3. ASSUME NEW j \in DOMAIN calls'
        PROVE  calls'[j].points # {} /\ InBox(calls'[j].points, calls'[j])
    <3>1. CASE j = 1
      BY <1>5, <1>10, <1>14, <2>2, <3>1
    <3>2. CASE j = 2
      BY <1>5, <1>11, <1>14, <2>2, <3>2
    <3>3. CASE j # 1 /\ j # 2
      BY <1>14, <3>3 DEF ModelInv, CallsSound
    <3>. QED  BY <3>1, <3>2, <3>3
  <2>. QED  BY <1>1, <2>3 DEF CallsSound, InBox
<1>18. PathsSound'
  <2>1. /\ c1.path # c2.path /\ c1.path # c.path /\ c2.path # c.path
        /\ \A q \in Paths, side \in {"lo", "hi"} :
             c1.path = Append(q, side) \/ c2.path = Append(q, side) => q = c.path
    <3>1. \A q, r \in Paths, s, t \in {"lo", "hi"} :
            /\ Append(q, s) # q
            /\ Append(q, s) = Append(r, t) => q = r /\ s = t
      <4> TAKE q, r \in Paths, s, t \in {"lo", "hi"}
      <4>1. q \in Seq({"lo", "hi"}) /\ r \in Seq({"lo", "hi"})
        BY DEF Paths
      <4>2. Append(q, s) # q
        BY <4>1
      <4>3. ASSUME Append(q, s) = Append(r, t)
            PROVE  q = r /\ s = t
        <5>1. Len(q) + 1 = Len(r) + 1 /\ Len(q) \in Nat /\ Len(r) \in Nat
          BY <4>1, <4>3
        <5>2. \A k \in 1 .. Len(q) : q[k] = r[k]
          BY <4>1, <4>3, <5>1
        <5>3. s = t
          BY <4>1, <4>3, <5>1
        <5>. QED  BY <4>1, <5>1, <5>2, <5>3
      <4>. QED  BY <4>2, <4>3
    <3>2. "lo" # "hi"
      OBVIOUS
    <3>. QED  BY <1>3, <1>10, <1>11, <3>1, <3>2
  <2>2. /\ c1.path \notin DOMAIN tree /\ c2.path \notin DOMAIN tree
        /\ \A j \in DOMAIN calls : calls[j].path # c1.path /\ calls[j].path # c2.path
    BY <1>3, <1>10, <1>11, <1>13 DEF ModelInv, PathsSound
  <2>3. \A j \in DOMAIN calls : /\ calls[j].path \notin DOMAIN tree
                                /\ j # 1 => calls[j].path # c.path
    BY <1>2 DEF ModelInv, PathsSound
  <2>4. \A j \in DOMAIN calls' : calls'[j].path \notin DOMAIN tree'
    BY <1>13, <1>14, <2>1, <2>2, <2>3
  <2>5. ASSUME NEW j \in DOMAIN calls', NEW l \in DOMAIN calls', j # l
        PROVE  calls'[j].path # calls'[l].path
    <3>1. CASE j \in {1, 2} \/ l \in {1, 2}
      BY <1>14, <2>1, <2>2, <2>5, <3>1
    <3>2. CASE ~(j \in {1, 2} \/ l \in {1, 2})
      <4>1. j - 1 # l - 1
        BY <1>14, <2>5
      <4>. QED  BY <1>14, <3>2, <4>1 DEF ModelInv, PathsSound
    <3>. QED  BY <3>1, <3>2
  <2>6. ASSUME NEW q \in Paths, NEW side \in {"lo", "hi"}
        PROVE  /\ Append(q, side) \in DOMAIN tree' => q \in DOMAIN tree'
               /\ \A j \in DOMAIN calls' : calls'[j].path = Append(q, side) => q \in DOMAIN tree'
    <3>1. Append(q, side) \in DOMAIN tree' => q \in DOMAIN tree'
      BY <1>2, <1>13 DEF ModelInv, PathsSound
    <3>2. ASSUME NEW j \in DOMAIN calls', calls'[j].path = Append(q, side)
          PROVE  q \in DOMAIN tree'
      BY <1>13, <1>14, <2>1, <3>2 DEF ModelInv, PathsSound
    <3>. QED  BY <3>1, <3>2
  <2>. QED  BY <2>4, <2>5, <2>6 DEF PathsSound
<1>19. TreeSound'
  <2>1. ASSUME NEW p \in DOMAIN tree
        PROVE  /\ tree'[p].points # {}
               /\ IsLeaf(tree'[p]) => \E i \in Indices' : tree'[p].points = {i}
               /\ ~IsLeaf(tree'[p]) => Parted(p)'
    BY <1>1, <1>7, <1>12, <1>14, KeepsTree DEF c
  <2>2. ASSUME NEW p, p = c.path
        PROVE  Parted(p)'
    <3>1. PICK high : high = c.points \ low
      OBVIOUS
    <3>2. /\ \A i \in low : c.lo[cd] <= pts[i][cd] /\ pts[i][cd] <= cv
          /\ \A i \in high : cv <= pts[i][cd] /\ pts[i][cd] <= c.hi[cd]
      BY <1>3, <1>4, <1>5, <3>1 DEF InBox
    <3>3. /\ \E j \in DOMAIN calls' : calls'[j].path = Append(p, "lo") /\ calls'[j].points = low
          /\ \E j \in DOMAIN calls' : calls'[j].path = Append(p, "hi") /\ calls'[j].points = high
      BY <1>10, <1>11, <1>14, <2>2, <3>1
    <3>4. Has(Append(p, "lo"), low)' /\ Has(Append(p, "hi"), high)'
      BY <3>3 DEF Has
    <3>5. /\ tree'[p].points = c.points /\ tree'[p].cd = cd
          /\ tree'[p].cv = cv /\ tree'[p].lv = c.lo[cd] /\ tree'[p].hv = c.hi[cd]
      BY <1>7, <1>9, <1>13, <2>2
    <3>6. /\ low \in SUBSET tree'[p].points /\ high = tree'[p].points \ low
          /\ \A i \in low : /\ tree'[p].lv <= pts'[i][tree'[p].cd]
                            /\ pts'[i][tree'[p].cd] <= tree'[p].cv
          /\ \A i \in high : /\ tree'[p].cv <= pts'[i][tree'[p].cd]
                             /\ pts'[i][tree'[p].cd] <= tree'[p].hv
      BY <1>1, <1>5, <3>1, <3>2, <3>5
    <3>. QED  BY <3>4, <3>6 DEF Parted
  <2>. QED  BY <1>3, <1>7, <1>8, <1>13, <2>1, <2>2 DEF TreeSound, IsLeaf
<1>20. Has(<<>>, Indices)'
  <2>1. Has(<<>>, Indices)
    BY DEF ModelInv
  <2>2. pts' = pts
    BY <1>1
  <2>. QED  BY <1>15, <2>1, <2>2 DEF Indices, Has
<1>. QED  BY <1>1, <1>16, <1>17, <1>18, <1>19, <1>20 DEF ModelInv

(* Printing keeps the order of coordinates, and so the planes still part   *)
(* the points.                                                             *)
LEMMA DumpModel ==
  ASSUME ModelInv, DumpAndRead
  PROVE  ModelInv'
<1>1. /\ calls = <<>> /\ calls' = calls
      /\ pts' = [i \in Indices |-> PrintedPoint(pts[i])]
      /\ box' = [lo |-> PrintedPoint(box.lo), hi |-> PrintedPoint(box.hi)]
      /\ tree' = [p \in DOMAIN tree |->
                    [tree[p] EXCEPT !.cv = Printed(@), !.lv = Printed(@), !.hv = Printed(@)]]
  BY DEF DumpAndRead, Indices
<1>2. /\ PointsFinite /\ box \in [lo : Points, hi : Points]
      /\ tree \in [DOMAIN tree -> Nodes] /\ DOMAIN tree \subseteq Paths
  BY DEF ModelInv, ModelTypes
<1>3. \A x \in Points :
        PrintedPoint(x) \in Points /\ \A d \in Dims : PrintedPoint(x)[d] = Printed(x[d])
  BY PrintedAssumption DEF PrintedPoint, Points
<1>4. Indices' = Indices
  BY <1>1 DEF Indices
<1>5. \A i \in Indices : /\ pts'[i] \in Points
                         /\ \A d \in Dims : pts'[i][d] = Printed(pts[i][d])
  BY <1>1, <1>2, <1>3 DEF PointsFinite
<1>6. PointsFinite'
  BY <1>1, <1>2, <1>4, <1>5 DEF PointsFinite, N, Indices
<1>7. DOMAIN tree' = DOMAIN tree
  BY <1>1
<1>8. ASSUME NEW p \in DOMAIN tree
      PROVE  /\ tree'[p] \in [points : SUBSET Indices, cd : 0 .. Dim,
                              cv : Coords, lv : Coords, hv : Coords]
             /\ tree'[p].points = tree[p].points /\ tree'[p].cd = tree[p].cd
             /\ tree'[p].cv = Printed(tree[p].cv) /\ tree'[p].lv = Printed(tree[p].lv)
             /\ tree'[p].hv = Printed(tree[p].hv)
  <2>1. tree[p] \in [points : SUBSET Indices, cd : 0 .. Dim,
                     cv : Coords, lv : Coords, hv : Coords]
    BY <1>2 DEF Nodes
  <2>2. \A x \in Coords : Printed(x) \in Coords
    BY PrintedAssumption
  <2>3. tree'[p] = [tree[p] EXCEPT !.cv = Printed(tree[p].cv), !.lv = Printed(tree[p].lv),
                                   !.hv = Printed(tree[p].hv)]
    BY <1>1, <2>1
  <2> HIDE <1>1
  <2>. QED  BY <2>1, <2>2, <2>3
<1>9. (tree \in [DOMAIN tree -> Nodes])'
  <2>1. \A p \in DOMAIN tree' : tree'[p] \in Nodes'
    BY <1>4, <1>7, <1>8 DEF Nodes
  <2>2. tree' = [p \in DOMAIN tree' |-> tree'[p]]
    BY <1>1
  <2>. QED  BY <2>1, <2>2
<1>10. ModelTypes'
  <2>1. (box \in [lo : Points, hi : Points])'
    BY <1>1, <1>2, <1>3
  <2>2. (calls \in Seq(AllCalls))'
    BY <1>1, <1>4 DEF ModelInv, ModelTypes, AllCalls
  <2>. QED  BY <1>2, <1>6, <1>7, <1>9, <2>1, <2>2 DEF ModelTypes
<1>11. DOMAIN calls = {} /\ DOMAIN calls' = {}
  <2>1. DOMAIN <<>> = {}
    OBVIOUS
  <2>. QED  BY <1>1, <2>1
<1>12. CallsSound' /\ PathsSound'
  BY <1>7, <1>11 DEF ModelInv, CallsSound, PathsSound
<1>13. \A q, S : Has(q, S) => Has(q, S)'
  BY <1>7, <1>8, <1>11 DEF Has
<1>14. TreeSound'
  <2>1. ASSUME NEW p \in DOMAIN tree, Parted(p), ~IsLeaf(tree[p])
        PROVE  Parted(p)'
    <3>1. PICK low \in SUBSET tree[p].points :
            /\ Has(Append(p, "lo"), low) /\ Has(Append(p, "hi"), tree[p].points \ low)
            /\ \A i \in low :
                 tree[p].lv <= pts[i][tree[p].cd] /\ pts[i][tree[p].cd] <= tree[p].cv
            /\ \A i \in tree[p].points \ low :
                 tree[p].cv <= pts[i][tree[p].cd] /\ pts[i][tree[p].cd] <= tree[p].hv
      BY <2>1 DEF Parted
    <3>2. PICK high, left, right :
            high = tree[p].points \ low /\ left = Append(p, "lo") /\ right = Append(p, "hi")
      OBVIOUS
    <3>3. Has(Append(p, "lo"), low)' /\ Has(Append(p, "hi"), high)'
      <4>1. Has(left, low) /\ Has(right, high)
        BY <3>1, <3>2
      <4>2. Has(left, low)' /\ Has(right, high)'
        BY <1>13, <4>1
      <4>. QED  BY <3>2, <4>2 DEF Has
    <3>4. /\ tree[p].points \subseteq Indices /\ tree[p].cd \in Dims
          /\ tree[p].cv \in Coords /\ tree[p].lv \in Coords /\ tree[p].hv \in Coords
      BY <1>2, <2>1, SizesAssumption DEF Nodes, IsLeaf, Dims
    <3>5. \A i \in Indices, d \in Dims : pts[i][d] \in Coords
      BY <1>2 DEF PointsFinite, Points
    <3>6. /\ \A i \in low : /\ tree'[p].lv <= pts'[i][tree'[p].cd]
                            /\ pts'[i][tree'[p].cd] <= tree'[p].cv
          /\ \A i \in high : /\ tree'[p].cv <= pts'[i][tree'[p].cd]
                             /\ pts'[i][tree'[p].cd] <= tree'[p].hv
      BY <1>5, <1>8, <3>1, <3>2, <3>4, <3>5, PrintedAssumption
    <3>7. low \in SUBSET tree'[p].points /\ high = tree'[p].points \ low
      BY <1>8, <3>2
    <3>. QED  BY <3>3, <3>6, <3>7 DEF Parted
  <2>. QED  BY <1>4, <1>7, <1>8, <2>1 DEF ModelInv, TreeSound, IsLeaf
<1>15. Has(<<>>, Indices)'
  <2>1. Has(<<>>, Indices)
    BY DEF ModelInv
  <2>. QED  BY <1>4, <1>13, <2>1 DEF Has
<1>. QED  BY <1>1, <1>10, <1>12, <1>14, <1>15 DEF ModelInv

LEMMA SameModel ==
  ASSUME ModelInv, UNCHANGED model, phase = "build" => phase' = "build"
  PROVE  ModelInv'
<1>1. pts' = pts /\ box' = box /\ tree' = tree /\ calls' = calls
  BY DEF model
<1>2. ModelTypes'
  BY <1>1 DEF ModelInv, ModelTypes, PointsFinite, Indices, N, Nodes, AllCalls
<1>3. CallsSound' /\ PathsSound'
  BY <1>1 DEF ModelInv, CallsSound, PathsSound, InBox
<1>4. TreeSound'
  <2>1. ASSUME NEW p \in DOMAIN tree, Parted(p)
        PROVE  Parted(p)'
    BY <1>1, <2>1 DEF Parted, Has
  <2>. QED  BY <1>1, <2>1 DEF ModelInv, TreeSound, Indices
<1>5. (phase # "build" => calls = <<>>)' /\ Has(<<>>, Indices)'
  <2>1. Has(<<>>, Indices) /\ (phase # "build" => calls = <<>>)
    BY DEF ModelInv
  <2>2. Has(<<>>, Indices)'
    BY <1>1, <2>1 DEF Has, Indices
  <2>. QED  BY <1>1, <2>1, <2>2
<1>. QED  BY <1>2, <1>3, <1>4, <1>5 DEF ModelInv

LEMMA ModelStep == ModelInv /\ [Next]_vars => ModelInv'
<1> SUFFICES ASSUME ModelInv, [Next]_vars PROVE ModelInv'
  OBVIOUS
<1>1. CASE MakeLeaf
  BY <1>1, MakeLeafModel
<1>2. CASE Split
  BY <1>2, SplitModel
<1>3. CASE DumpAndRead
  BY <1>3, DumpModel
<1>4. ASSUME NEW q \in Queries, NEW a \in Algorithms, Search(q, a)
      PROVE  ModelInv'
  BY <1>4, SameModel DEF Search
<1>5. CASE SkipFar \/ VisitLeaf \/ VisitSplit
  BY <1>5, SameModel DEF SkipFar, VisitLeaf, VisitSplit, Visits, Looking
<1>6. CASE SearchDone \/ ChooseNeighbour \/ Classified
  BY <1>6, SameModel DEF SearchDone, ChooseNeighbour, Classified
<1>7. CASE UNCHANGED vars
  BY <1>7, SameModel DEF vars
<1>. QED  BY <1>1, <1>2, <1>3, <1>4, <1>5, <1>6, <1>7 DEF Next

(* Every point belongs to a leaf of its own in the tree, or to a call that *)
(* is still to be made, and the planes above it are on the right sides of  *)
(* it.                                                                     *)
THEOREM ModelInvariant == Spec => []ModelInv
<1>. QED  BY ModelInit, ModelStep, PTL DEF Spec

(* NoTrivialLeaf: sliding the plane to the points always leaves a point on *)
(* either side, whatever the points are.                                   *)
THEOREM EveryNodeHasPoints == Spec => []NoTrivialLeaf
<1>1. ModelInv => NoTrivialLeaf
  BY DEF ModelInv, TreeSound, NoTrivialLeaf
<1>. QED  BY <1>1, ModelInvariant, PTL

(* Separated: the children of a node share out its points, and its plane   *)
(* and its bounds lie as the search takes them to, before and after the    *)
(* rounding of the dump.                                                   *)
THEOREM PlanesSeparate == Spec => []Separated
<1>1. ASSUME ModelInv
      PROVE  Separated
  <2> SUFFICES ASSUME phase # "build", NEW p \in DOMAIN tree, ~IsLeaf(tree[p])
               PROVE  /\ {Append(p, "lo"), Append(p, "hi")} \subseteq DOMAIN tree
                      /\ Child(p, "lo").points \cup Child(p, "hi").points = tree[p].points
                      /\ Child(p, "lo").points \cap Child(p, "hi").points = {}
                      /\ \A i \in Child(p, "lo").points :
                           /\ tree[p].lv <= pts[i][tree[p].cd]
                           /\ pts[i][tree[p].cd] <= tree[p].cv
                      /\ \A i \in Child(p, "hi").points :
                           /\ tree[p].cv <= pts[i][tree[p].cd]
                           /\ pts[i][tree[p].cd] <= tree[p].hv
    BY DEF Separated
  <2>1. DOMAIN calls = {}
    BY <1>1 DEF ModelInv
  <2>2. Parted(p)
    BY <1>1 DEF ModelInv, TreeSound
  <2>3. PICK low \in SUBSET tree[p].points :
          /\ Has(Append(p, "lo"), low) /\ Has(Append(p, "hi"), tree[p].points \ low)
          /\ \A i \in low :
               tree[p].lv <= pts[i][tree[p].cd] /\ pts[i][tree[p].cd] <= tree[p].cv
          /\ \A i \in tree[p].points \ low :
               tree[p].cv <= pts[i][tree[p].cd] /\ pts[i][tree[p].cd] <= tree[p].hv
    BY <2>2 DEF Parted
  <2>4. /\ Append(p, "lo") \in DOMAIN tree /\ Child(p, "lo").points = low
        /\ Append(p, "hi") \in DOMAIN tree /\ Child(p, "hi").points = tree[p].points \ low
    BY <2>1, <2>3 DEF Has, Child
  <2> HIDE DEF Child
  <2>. QED  BY <2>3, <2>4
<1>. QED  BY <1>1, ModelInvariant, PTL

-------------------------------------------------------------------------------
(* A search: what is left on the stack and what was found.                 *)

LEMMA SizesType ==
  ASSUME ModelInv, algorithm \in 1 .. 3
  PROVE  /\ N \in Nat /\ K \in Nat \ {0} /\ NumNeighbours \in Nat \ {0}
         /\ K = NumNeighbours + Extra(algorithm) + 1 /\ Extra(algorithm) \in {0, 5, 32}
<1>1. N \in Nat
  BY FS_CardinalityType DEF ModelInv, ModelTypes, PointsFinite, N, Indices
<1>2. Extra(algorithm) \in {0, 5, 32}
  BY DEF Extra
<1>3. K = NumNeighbours + Extra(algorithm) + 1
  BY DEF K
<1>. QED  BY <1>1, <1>2, <1>3, SizesAssumption

(* A place of ANNmin_k: after the keys that are not larger.                *)
LEMMA PlaceType ==
  ASSUME NEW n \in Nat, DOMAIN keys = 1 .. n, NEW key
  PROVE  Place(key) \in 1 .. n + 1
<1> DEFINE S == {0} \cup {j \in DOMAIN keys : keys[j] <= key}
<1>1. S \subseteq 0 .. n /\ S # {}
  OBVIOUS
<1>2. IsFiniteSet(0 .. n)
  BY FS_Interval
<1>3. IsFiniteSet(S) /\ S \in SUBSET Int
  BY <1>1, <1>2, FS_Subset
<1>4. Place(key) = Max(S) + 1
  BY DEF Place
<1> HIDE DEF S
<1>5. Max(S) \in 0 .. n
  BY <1>1, <1>3, MaxMember
<1>. QED  BY <1>4, <1>5

LEMMA SlidEntries ==
  ASSUME K \in Nat \ {0}, NEW T, NEW s \in Seq(T), Len(s) <= K,
         NEW x \in T, NEW place \in 1 .. Len(s) + 1, NEW r, r = Slid(s, place, x)
  PROVE  /\ r \in Seq(T) /\ Len(r) = IF Len(s) < K THEN Len(s) + 1 ELSE K
         /\ \A j \in DOMAIN r : /\ j < place => j \in DOMAIN s /\ r[j] = s[j]
                                /\ j = place => r[j] = x
                                /\ j > place => j - 1 \in DOMAIN s /\ r[j] = s[j - 1]
<1> DEFINE m == IF Len(s) < K THEN Len(s) + 1 ELSE K
<1>1. Len(s) \in Nat /\ DOMAIN s = 1 .. Len(s)
  OBVIOUS
<1>2. m \in Nat /\ m <= Len(s) + 1
  BY <1>1
<1>3. r = [j \in 1 .. m |-> IF j < place THEN s[j] ELSE IF j = place THEN x ELSE s[j - 1]]
  BY DEF Slid
<1>4. m = IF Len(s) < K THEN Len(s) + 1 ELSE K
  OBVIOUS
<1> HIDE DEF m
<1>5. ASSUME NEW j \in 1 .. m
      PROVE  /\ j < place => j \in DOMAIN s /\ r[j] = s[j]
             /\ j = place => r[j] = x
             /\ j > place => j - 1 \in DOMAIN s /\ r[j] = s[j - 1]
  BY <1>1, <1>2, <1>3
<1>6. \A j \in 1 .. m : r[j] \in T
  BY <1>1, <1>2, <1>5
<1>7. r \in Seq(T) /\ Len(r) = m /\ DOMAIN r = 1 .. m
  <2>1. r \in [1 .. m -> T]
    BY <1>3, <1>6
  <2>. QED  BY <1>2, <2>1
<1>. QED  BY <1>4, <1>5, <1>7

LEMMA SlidParts ==
  ASSUME K \in Nat \ {0}, NEW T, NEW s \in Seq(T), Len(s) <= K,
         NEW x \in T, NEW place \in 1 .. Len(s) + 1, NEW r, r = Slid(s, place, x)
  PROVE  /\ r \in Seq(T) /\ Len(r) <= K
         /\ Len(r) = IF Len(s) < K THEN Len(s) + 1 ELSE K
         /\ \A j \in DOMAIN r : r[j] = x \/ \E l \in DOMAIN s : r[j] = s[l]
         /\ Len(s) < K => /\ \E j \in DOMAIN r : r[j] = x
                          /\ \A l \in DOMAIN s : \E j \in DOMAIN r : r[j] = s[l]
         /\ (\A j, l \in DOMAIN s : j # l => s[j] # s[l]) /\ (\A l \in DOMAIN s : s[l] # x)
              => \A j, l \in DOMAIN r : j # l => r[j] # r[l]
<1> DEFINE m == IF Len(s) < K THEN Len(s) + 1 ELSE K
<1>1. Len(s) \in Nat /\ DOMAIN s = 1 .. Len(s)
  OBVIOUS
<1>2. m \in Nat /\ m <= K /\ m <= Len(s) + 1
  BY <1>1
<1>3. Len(s) < K => m = Len(s) + 1
  OBVIOUS
<1>4. m = IF Len(s) < K THEN Len(s) + 1 ELSE K
  OBVIOUS
<1> HIDE DEF m
<1>5. r \in Seq(T) /\ Len(r) = m /\ DOMAIN r = 1 .. m
  <2>1. r \in Seq(T) /\ Len(r) = m
    BY <1>4, SlidEntries
  <2>. QED  BY <2>1
<1>6. ASSUME NEW j \in 1 .. m
      PROVE  /\ j < place => j \in DOMAIN s /\ r[j] = s[j]
             /\ j = place => r[j] = x
             /\ j > place => j - 1 \in DOMAIN s /\ r[j] = s[j - 1]
  <2>1. \A k \in DOMAIN r : /\ k < place => k \in DOMAIN s /\ r[k] = s[k]
                            /\ k = place => r[k] = x
                            /\ k > place => k - 1 \in DOMAIN s /\ r[k] = s[k - 1]
    BY SlidEntries
  <2>. QED  BY <1>5, <2>1
<1>7. \A j \in DOMAIN r : r[j] = x \/ \E l \in DOMAIN s : r[j] = s[l]
  BY <1>2, <1>6, <1>5
<1>8. ASSUME Len(s) < K
      PROVE  /\ \E j \in DOMAIN r : r[j] = x
             /\ \A l \in DOMAIN s : \E j \in DOMAIN r : r[j] = s[l]
  <2>1. place \in 1 .. m
    BY <1>1, <1>3, <1>8
  <2>2. ASSUME NEW l \in DOMAIN s
        PROVE  \E j \in DOMAIN r : r[j] = s[l]
    <3>1. CASE l < place
      <4>1. l \in 1 .. m
        BY <1>1, <1>3, <1>8
      <4>. QED  BY <1>6, <1>5, <3>1, <4>1
    <3>2. CASE ~(l < place)
      <4>1. l + 1 \in 1 .. m /\ l + 1 > place /\ (l + 1) - 1 = l
        BY <1>1, <1>3, <1>8, <3>2
      <4>. QED  BY <1>6, <1>5, <4>1
    <3>. QED  BY <3>1, <3>2
  <2>. QED  BY <1>6, <1>5, <2>1, <2>2
<1>9. ASSUME \A j, l \in DOMAIN s : j # l => s[j] # s[l], \A l \in DOMAIN s : s[l] # x,
              NEW j \in DOMAIN r, NEW l \in DOMAIN r, j # l
       PROVE  r[j] # r[l]
  <2>1. j \in 1 .. m /\ l \in 1 .. m /\ j \in Int /\ l \in Int
    BY <1>2, <1>5
  <2>2. CASE j = place \/ l = place
    BY <1>6, <1>9, <2>1, <2>2
  <2>3. CASE j < place /\ l < place
    BY <1>6, <1>9, <2>1, <2>3
  <2>4. CASE j < place /\ l > place
    BY <1>6, <1>9, <2>1, <2>4
  <2>5. CASE j > place /\ l < place
    BY <1>6, <1>9, <2>1, <2>5
  <2>6. CASE j > place /\ l > place
    BY <1>6, <1>9, <2>1, <2>6
  <2>. QED  BY <2>1, <2>2, <2>3, <2>4, <2>5, <2>6
<1>. QED  BY <1>2, <1>4, <1>5, <1>7, <1>8, <1>9

SearchTypes ==
  /\ phase \in {"build", "ready", "search", "choose"}
  /\ algorithm \in 1 .. 3 /\ query \in Queries
  /\ \E T : stack \in Seq(T)
  /\ \E T : keys \in Seq(T)
  /\ \A j \in DOMAIN stack : stack[j].path \in DOMAIN tree /\ stack[j].far \in BOOLEAN
  /\ infos \in Seq(Indices) /\ Len(infos) <= K /\ Len(keys) = Len(infos)
  /\ phase # "search" => stack = <<>> /\ infos = <<>>
  /\ died \in {"no", "tooManyNeighbours", "trivialLeaf"}

(* The points that the search can still find below an entry of its stack.  *)
Under(e) == tree[e.path].points

SearchSound ==
  phase = "search" =>
    /\ K <= N
    /\ \A j, l \in DOMAIN stack : j # l => Under(stack[j]) \cap Under(stack[l]) = {}
    /\ \A j \in DOMAIN stack, m \in DOMAIN infos : infos[m] \notin Under(stack[j])
    /\ \A j, l \in DOMAIN infos : j # l => infos[j] # infos[l]
    /\ Len(infos) < K =>
         \A i \in Indices : \/ \E m \in DOMAIN infos : infos[m] = i
                            \/ \E j \in DOMAIN stack : i \in Under(stack[j])

SearchInv == SearchTypes /\ SearchSound

LEMMA SearchInit == Init => SearchInv
<1> SUFFICES ASSUME Init PROVE SearchInv
  OBVIOUS
<1>1. /\ phase = "build" /\ algorithm = 1 /\ stack = <<>> /\ keys = <<>> /\ infos = <<>>
      /\ died = "no"
  BY DEF Init
<1>2. query \in Queries
  BY PointsAssumption DEF Init
<1>3. \A T : <<>> \in Seq(T)
  OBVIOUS
<1>4. DOMAIN stack = {} /\ Len(infos) = 0 /\ Len(keys) = 0
  BY <1>1
<1>5. K \in Nat \ {0}
  <2>1. Extra(algorithm) = 0
    BY <1>1 DEF Extra
  <2>. QED  BY <2>1, SizesAssumption DEF K
<1>6. infos \in Seq(Indices) /\ (\E T : stack \in Seq(T)) /\ (\E T : keys \in Seq(T))
  BY <1>1, <1>3
<1>7. Len(infos) <= K
  BY <1>4, <1>5
<1>. QED  BY <1>1, <1>2, <1>4, <1>6, <1>7 DEF SearchInv, SearchTypes, SearchSound

LEMMA Popped ==
  ASSUME SearchTypes, stack # <<>>, NEW rest, rest = Tail(stack)
  PROVE  /\ 1 \in DOMAIN stack /\ Head(stack) = stack[1]
         /\ \E T : stack \in Seq(T) /\ rest \in Seq(T)
         /\ DOMAIN rest \subseteq Int
         /\ \A j \in DOMAIN rest : j + 1 \in DOMAIN stack /\ rest[j] = stack[j + 1]
         /\ \A j \in DOMAIN rest : j + 1 # 1
         /\ \A j \in DOMAIN stack : j # 1 => j - 1 \in DOMAIN rest /\ rest[j - 1] = stack[j]
<1>1. PICK T : stack \in Seq(T)
  BY DEF SearchTypes
<1>2. /\ rest \in Seq(T) /\ Len(rest) = Len(stack) - 1 /\ Len(stack) \in Nat
      /\ \A j \in 1 .. Len(stack) - 1 : rest[j] = stack[j + 1]
      /\ Head(stack) = stack[1] /\ 1 \in DOMAIN stack
  BY <1>1
<1>3. DOMAIN stack = 1 .. Len(stack) /\ DOMAIN rest = 1 .. Len(stack) - 1
  BY <1>1, <1>2
<1>4. ASSUME NEW j \in DOMAIN rest
      PROVE  j + 1 \in DOMAIN stack /\ rest[j] = stack[j + 1] /\ j + 1 # 1 /\ j \in Int
  BY <1>2, <1>3
<1>5. ASSUME NEW j \in DOMAIN stack, j # 1
      PROVE  j - 1 \in DOMAIN rest /\ rest[j - 1] = stack[j]
  <2>1. j - 1 \in 1 .. Len(stack) - 1 /\ (j - 1) + 1 = j
    BY <1>2, <1>3, <1>5
  <2>. QED  BY <1>2, <1>3, <2>1
<1>. QED  BY <1>1, <1>2, <1>4, <1>5

LEMMA SkipFarSearch ==
  ASSUME ModelInv, SearchInv, SkipFar
  PROVE  SearchInv'
<1>1. /\ phase = "search" /\ stack # <<>> /\ stack' = Tail(stack) /\ phase' = phase
      /\ ~Closer(Head(stack).dist) /\ UNCHANGED <<algorithm, query, keys, infos, died>>
      /\ UNCHANGED <<pts, tree>>
  BY DEF SkipFar, Looking, model
<1>2. /\ \E T : stack' \in Seq(T)
      /\ DOMAIN stack' \subseteq Int
      /\ \A j \in DOMAIN stack' : j + 1 \in DOMAIN stack /\ stack'[j] = stack[j + 1]
  BY <1>1, Popped DEF SearchInv
<1>3. K' = K /\ N' = N /\ Indices' = Indices
  BY <1>1 DEF K, N, Indices
<1>4. ~(Len(infos) < K)
  BY <1>1 DEF Closer
<1>5. SearchTypes'
  BY <1>1, <1>2, <1>3 DEF SearchInv, SearchTypes
<1>6. \A j, l \in DOMAIN stack' : j # l => Under(stack'[j]) \cap Under(stack'[l]) = {}
  BY <1>1, <1>2 DEF SearchInv, SearchSound
<1>7. \A j \in DOMAIN stack', m \in DOMAIN infos : infos[m] \notin Under(stack'[j])
  BY <1>1, <1>2 DEF SearchInv, SearchSound
<1>8. K <= N /\ \A j, l \in DOMAIN infos : j # l => infos[j] # infos[l]
  BY <1>1 DEF SearchInv, SearchSound
<1>. QED  BY <1>1, <1>3, <1>4, <1>5, <1>6, <1>7, <1>8 DEF SearchInv, SearchSound, Under

(* VisitLeaf: the point i of the leaf is kept, if it is not farther than   *)
(* the points that were found.                                             *)
LeafVisited(i) ==
  /\ phase = "search" /\ UNCHANGED <<phase, algorithm, query, pts, tree, died>>
  /\ 1 \in DOMAIN stack /\ Under(stack[1]) = {i}
  /\ \E T : stack' \in Seq(T)
  /\ DOMAIN stack' \subseteq Int
  /\ \A j \in DOMAIN stack' : j + 1 \in DOMAIN stack /\ stack'[j] = stack[j + 1] /\ j + 1 # 1
  /\ \A j \in DOMAIN stack : j # 1 => j - 1 \in DOMAIN stack' /\ stack'[j - 1] = stack[j]
  /\ LET dist == Distance(query, pts[i]) IN
     \/ /\ NotFarther(dist)
        /\ keys' = Slid(keys, Place(dist), dist) /\ infos' = Slid(infos, Place(dist), i)
     \/ ~NotFarther(dist) /\ UNCHANGED <<keys, infos>>

LEMMA LeafIsVisited ==
  ASSUME ModelInv, SearchInv, VisitLeaf
  PROVE  \E i \in Indices : LeafVisited(i)
<1>1. /\ phase = "search" /\ stack # <<>> /\ stack' = Tail(stack) /\ phase' = phase
      /\ IsLeaf(tree[Head(stack).path])
      /\ UNCHANGED <<algorithm, query>> /\ UNCHANGED <<pts, tree>>
  BY DEF VisitLeaf, Visits, Looking, model
<1>2. /\ 1 \in DOMAIN stack /\ Head(stack) = stack[1]
      /\ \E T : stack' \in Seq(T)
      /\ DOMAIN stack' \subseteq Int
      /\ \A j \in DOMAIN stack' : j + 1 \in DOMAIN stack /\ stack'[j] = stack[j + 1] /\ j + 1 # 1
      /\ \A j \in DOMAIN stack : j # 1 => j - 1 \in DOMAIN stack' /\ stack'[j - 1] = stack[j]
  BY <1>1, Popped DEF SearchInv
<1>3. stack[1].path \in DOMAIN tree
  BY <1>2 DEF SearchInv, SearchTypes
<1>4. PICK i \in Indices : Under(stack[1]) = {i}
  BY <1>1, <1>2, <1>3 DEF ModelInv, TreeSound, Under
<1> DEFINE dist == Distance(query, pts[i])
<1>5. /\ died' = died
      /\ \/ /\ NotFarther(dist)
            /\ keys' = Slid(keys, Place(dist), dist) /\ infos' = Slid(infos, Place(dist), i)
         \/ ~NotFarther(dist) /\ UNCHANGED <<keys, infos>>
  BY <1>1, <1>2, <1>4 DEF VisitLeaf, Under
<1>6. LeafVisited(i)
  BY <1>1, <1>2, <1>4, <1>5 DEF LeafVisited
<1>. QED  BY <1>6

LEMMA VisitLeafSearch ==
  ASSUME ModelInv, SearchInv, VisitLeaf
  PROVE  SearchInv'
<1>1. PICK i \in Indices : LeafVisited(i)
  BY LeafIsVisited
<1> DEFINE dist == Distance(query, pts[i])
<1>2. /\ phase = "search" /\ UNCHANGED <<phase, algorithm, query, pts, tree, died>>
      /\ 1 \in DOMAIN stack /\ Under(stack[1]) = {i}
      /\ \E T : stack' \in Seq(T)
      /\ DOMAIN stack' \subseteq Int
      /\ \A j \in DOMAIN stack' : j + 1 \in DOMAIN stack /\ stack'[j] = stack[j + 1] /\ j + 1 # 1
      /\ \A j \in DOMAIN stack : j # 1 => j - 1 \in DOMAIN stack' /\ stack'[j - 1] = stack[j]
      /\ \/ /\ NotFarther(dist)
            /\ keys' = Slid(keys, Place(dist), dist) /\ infos' = Slid(infos, Place(dist), i)
         \/ ~NotFarther(dist) /\ UNCHANGED <<keys, infos>>
  BY <1>1 DEF LeafVisited
<1>3. K' = K /\ N' = N /\ Indices' = Indices /\ K \in Nat \ {0}
  BY <1>2, SizesType DEF K, N, Indices, SearchInv, SearchTypes
<1>4. /\ infos \in Seq(Indices) /\ Len(infos) \in Nat /\ Len(infos) <= K
      /\ Len(keys) = Len(infos)
      /\ \A j, l \in DOMAIN infos : j # l => infos[j] # infos[l]
      /\ \A l \in DOMAIN infos : infos[l] # i
      /\ K <= N
  BY <1>2 DEF SearchInv, SearchTypes, SearchSound
<1>5. /\ infos' \in Seq(Indices) /\ Len(infos') <= K /\ Len(keys') = Len(infos')
      /\ \E T : keys' \in Seq(T)
      /\ \A j \in DOMAIN infos' : infos'[j] = i \/ \E l \in DOMAIN infos : infos'[j] = infos[l]
      /\ Len(infos') < K => /\ \E j \in DOMAIN infos' : infos'[j] = i
                            /\ \A l \in DOMAIN infos : \E j \in DOMAIN infos' : infos'[j] = infos[l]
                            /\ Len(infos) < K
      /\ \A j, l \in DOMAIN infos' : j # l => infos'[j] # infos'[l]
  <2>1. CASE /\ NotFarther(dist)
             /\ keys' = Slid(keys, Place(dist), dist) /\ infos' = Slid(infos, Place(dist), i)
    <3>1. PICK T : keys \in Seq(T)
      BY DEF SearchInv, SearchTypes
    <3>2. PICK U : keys \in Seq(U) /\ dist \in U
      <4>1. keys \in Seq(T \cup {dist})
        BY <3>1
      <4>. QED  BY <4>1
    <3>3. DOMAIN keys = 1 .. Len(infos)
      BY <1>4, <3>1
    <3>4. PICK place \in 1 .. Len(infos) + 1 : place = Place(dist)
      BY <1>4, <3>3, PlaceType
    <3> HIDE DEF dist
    <3>5. /\ keys' \in Seq(U)
          /\ Len(keys') = IF Len(keys) < K THEN Len(keys) + 1 ELSE K
      BY <1>3, <1>4, <2>1, <3>2, <3>4, SlidParts
    <3>6. /\ infos' \in Seq(Indices) /\ Len(infos') <= K
          /\ Len(infos') = IF Len(infos) < K THEN Len(infos) + 1 ELSE K
          /\ \A j \in DOMAIN infos' : infos'[j] = i \/ \E l \in DOMAIN infos : infos'[j] = infos[l]
          /\ Len(infos) < K =>
               /\ \E j \in DOMAIN infos' : infos'[j] = i
               /\ \A l \in DOMAIN infos : \E j \in DOMAIN infos' : infos'[j] = infos[l]
          /\ (\A j, l \in DOMAIN infos : j # l => infos[j] # infos[l])
                 /\ (\A l \in DOMAIN infos : infos[l] # i)
               => \A j, l \in DOMAIN infos' : j # l => infos'[j] # infos'[l]
      <4>1. infos \in Seq(Indices) /\ Len(infos) <= K /\ K \in Nat \ {0}
        BY <1>3, <1>4
      <4>2. infos' = Slid(infos, place, i)
        BY <2>1, <3>4
      <4>. QED  BY <4>1, <4>2, SlidParts
    <3>7. Len(infos') < K => Len(infos) < K
      BY <1>3, <1>4, <3>6
    <3>. QED  BY <1>4, <3>5, <3>6, <3>7
  <2>2. CASE ~NotFarther(dist) /\ UNCHANGED <<keys, infos>>
    <3>1. ~(Len(infos) < K)
      BY <2>2 DEF NotFarther
    <3>. QED  BY <1>4, <2>2, <3>1 DEF SearchInv, SearchTypes
  <2>. QED  BY <1>2, <2>1, <2>2
<1>6. SearchTypes'
  <2>1. \A j \in DOMAIN stack' : stack'[j].path \in DOMAIN tree' /\ stack'[j].far \in BOOLEAN
    BY <1>2 DEF SearchInv, SearchTypes
  <2>2. (infos \in Seq(Indices))' /\ Len(infos') <= K'
    BY <1>3, <1>5
  <2>. QED  BY <1>2, <1>5, <2>1, <2>2 DEF SearchInv, SearchTypes
<1>7. \A j, l \in DOMAIN stack' : j # l => Under(stack'[j]) \cap Under(stack'[l]) = {}
  BY <1>2 DEF SearchInv, SearchSound
<1>8. \A j \in DOMAIN stack', m \in DOMAIN infos' : infos'[m] \notin Under(stack'[j])
  <2>1. \A j \in DOMAIN stack' : i \notin Under(stack'[j])
    BY <1>2 DEF SearchInv, SearchSound
  <2>2. \A j \in DOMAIN stack', m \in DOMAIN infos : infos[m] \notin Under(stack'[j])
    BY <1>2 DEF SearchInv, SearchSound
  <2>. QED  BY <1>5, <2>1, <2>2
<1>9. ASSUME Len(infos') < K, NEW p \in Indices
      PROVE  \/ \E m \in DOMAIN infos' : infos'[m] = p
             \/ \E j \in DOMAIN stack' : p \in Under(stack'[j])
  <2>1. \/ \E m \in DOMAIN infos : infos[m] = p
        \/ \E j \in DOMAIN stack : p \in Under(stack[j])
    BY <1>2, <1>5, <1>9 DEF SearchInv, SearchSound
  <2>2. CASE \E m \in DOMAIN infos : infos[m] = p
    BY <1>5, <1>9, <2>2
  <2>3. CASE \E j \in DOMAIN stack : p \in Under(stack[j])
    <3>1. PICK j \in DOMAIN stack : p \in Under(stack[j])
      BY <2>3
    <3>2. CASE j = 1
      BY <1>2, <1>5, <1>9, <3>1, <3>2
    <3>3. CASE j # 1
      BY <1>2, <3>1, <3>3
    <3>. QED  BY <3>2, <3>3
  <2>. QED  BY <2>1, <2>2, <2>3
<1>10. SearchSound'
  BY <1>2, <1>3, <1>4, <1>5, <1>7, <1>8, <1>9 DEF SearchSound, Under
<1>. QED  BY <1>6, <1>10 DEF SearchInv

(* VisitSplit: the children take the place of the node on the stack, the   *)
(* nearer one first.                                                       *)
SplitVisited(near, far) ==
  /\ phase = "search" /\ UNCHANGED <<phase, algorithm, query, keys, infos, died, pts, tree>>
  /\ 1 \in DOMAIN stack /\ stack[1].path \in DOMAIN tree /\ ~IsLeaf(tree[stack[1].path])
  /\ near.path \in DOMAIN tree /\ far.path \in DOMAIN tree
  /\ near.far \in BOOLEAN /\ far.far \in BOOLEAN
  /\ Under(near) \cup Under(far) = Under(stack[1])
  /\ Under(near) \cap Under(far) = {}
  /\ LET p == stack[1].path
         low == query[tree[p].cd] < tree[p].cv
     IN  /\ near.path = Append(p, IF low THEN "lo" ELSE "hi")
         /\ far.path = Append(p, IF low THEN "hi" ELSE "lo")
         /\ near.dist = stack[1].dist /\ far.dist = FarDistance(tree[p], stack[1].dist)
  /\ \E T : stack' \in Seq(T)
  /\ 1 \in DOMAIN stack' /\ 2 \in DOMAIN stack' /\ stack'[1] = near /\ stack'[2] = far
  /\ \A j \in DOMAIN stack' :
       j # 1 /\ j # 2 => j - 1 \in DOMAIN stack /\ j - 1 # 1 /\ stack'[j] = stack[j - 1]
  /\ \A j \in DOMAIN stack : j # 1 => j + 1 \in DOMAIN stack' /\ stack'[j + 1] = stack[j]
  /\ DOMAIN stack' \subseteq Int

LEMMA SplitIsVisited ==
  ASSUME ModelInv, SearchInv, VisitSplit
  PROVE  \E near, far : SplitVisited(near, far)
<1> DEFINE e == Head(stack)
           node == tree[e.path]
           side == IF query[node.cd] < node.cv THEN "lo" ELSE "hi"
           other == IF query[node.cd] < node.cv THEN "hi" ELSE "lo"
           near == [path |-> Append(e.path, side), dist |-> e.dist, far |-> FALSE]
           far  == [path |-> Append(e.path, other), dist |-> FarDistance(node, e.dist),
                    far |-> TRUE]
<1>1. /\ phase = "search" /\ stack # <<>> /\ ~IsLeaf(node)
      /\ stack' = <<near, far>> \o Tail(stack)
      /\ phase' = phase /\ UNCHANGED <<algorithm, query, keys, infos, died>>
      /\ UNCHANGED <<pts, tree>>
  BY DEF VisitSplit, Visits, Looking, model
<1>2. PICK rest : rest = Tail(stack)
  OBVIOUS
<1>3. /\ 1 \in DOMAIN stack /\ e = stack[1]
      /\ DOMAIN rest \subseteq Int
      /\ \A j \in DOMAIN rest : j + 1 \in DOMAIN stack /\ rest[j] = stack[j + 1] /\ j + 1 # 1
      /\ \A j \in DOMAIN stack : j # 1 => j - 1 \in DOMAIN rest /\ rest[j - 1] = stack[j]
      /\ \E T : stack \in Seq(T) /\ rest \in Seq(T)
  BY <1>1, <1>2, Popped DEF SearchInv
<1>4. e.path \in DOMAIN tree
  BY <1>3 DEF SearchInv, SearchTypes
<1>5. PICK lows \in SUBSET node.points :
        /\ Append(e.path, "lo") \in DOMAIN tree
        /\ tree[Append(e.path, "lo")].points = lows
        /\ Append(e.path, "hi") \in DOMAIN tree
        /\ tree[Append(e.path, "hi")].points = node.points \ lows
  <2>1. Parted(e.path) /\ DOMAIN calls = {}
    <3>1. DOMAIN <<>> = {}
      OBVIOUS
    <3>. QED  BY <1>1, <1>4, <3>1 DEF ModelInv, TreeSound
  <2> HIDE DEF e
  <2>2. PICK low \in SUBSET tree[e.path].points :
          Has(Append(e.path, "lo"), low) /\ Has(Append(e.path, "hi"), tree[e.path].points \ low)
    BY <2>1 DEF Parted
  <2>. QED  BY <2>1, <2>2 DEF Has
<1>6. /\ near.path \in DOMAIN tree /\ far.path \in DOMAIN tree
      /\ near.far \in BOOLEAN /\ far.far \in BOOLEAN
      /\ Under(near) \cup Under(far) = Under(stack[1])
      /\ Under(near) \cap Under(far) = {}
  <2> HIDE DEF e
  <2>1. CASE query[node.cd] < node.cv
    BY <1>3, <1>5, <2>1 DEF Under
  <2>2. CASE ~(query[node.cd] < node.cv)
    BY <1>3, <1>5, <2>2 DEF Under
  <2>. QED  BY <2>1, <2>2
<1>7. stack' = <<near, far>> \o rest
  BY <1>1, <1>2
<1>8. LET p == stack[1].path
          low == query[tree[p].cd] < tree[p].cv
      IN  /\ near.path = Append(p, IF low THEN "lo" ELSE "hi")
          /\ far.path = Append(p, IF low THEN "hi" ELSE "lo")
          /\ near.dist = stack[1].dist /\ far.dist = FarDistance(tree[p], stack[1].dist)
  BY <1>3
<1>9. stack[1].path \in DOMAIN tree /\ ~IsLeaf(tree[stack[1].path])
  BY <1>1, <1>3, <1>4
<1> HIDE DEF e, near, far
<1>10. /\ \E T : stack' \in Seq(T)
       /\ 1 \in DOMAIN stack' /\ 2 \in DOMAIN stack' /\ stack'[1] = near /\ stack'[2] = far
       /\ \A j \in DOMAIN stack' :
            j # 1 /\ j # 2 => j - 1 \in DOMAIN stack /\ j - 1 # 1 /\ stack'[j] = stack[j - 1]
       /\ \A j \in DOMAIN stack : j # 1 => j + 1 \in DOMAIN stack' /\ stack'[j + 1] = stack[j]
       /\ DOMAIN stack' \subseteq Int
  <2>1. PICK T : stack \in Seq(T) /\ rest \in Seq(T)
    BY <1>3
  <2>2. PICK U : U = T \cup {near, far}
    OBVIOUS
  <2>3. rest \in Seq(U) /\ near \in U /\ far \in U /\ Len(rest) \in Nat
    BY <2>1, <2>2
  <2>4. <<near, far>> \in Seq(U) /\ Len(<<near, far>>) = 2
    BY <2>3
  <2>5. /\ stack' \in Seq(U) /\ Len(stack') = Len(rest) + 2
        /\ stack'[1] = near /\ stack'[2] = far
        /\ \A j \in 3 .. Len(rest) + 2 : stack'[j] = rest[j - 2]
    BY <1>7, <2>3, <2>4
  <2>6. DOMAIN rest = 1 .. Len(rest) /\ DOMAIN stack' = 1 .. Len(rest) + 2
    BY <2>1, <2>5
  <2>7. ASSUME NEW j \in DOMAIN stack', j # 1, j # 2
        PROVE  j - 1 \in DOMAIN stack /\ j - 1 # 1 /\ stack'[j] = stack[j - 1]
    <3>1. j \in 3 .. Len(rest) + 2 /\ j - 2 \in 1 .. Len(rest) /\ (j - 2) + 1 = j - 1
      BY <2>3, <2>6, <2>7
    <3>. QED  BY <1>3, <2>5, <2>6, <3>1
  <2>8. ASSUME NEW j \in DOMAIN stack, j # 1
        PROVE  j + 1 \in DOMAIN stack' /\ stack'[j + 1] = stack[j]
    <3>1. j - 1 \in 1 .. Len(rest) /\ rest[j - 1] = stack[j] /\ j \in Int
      BY <1>3, <2>1, <2>6, <2>8
    <3>2. j + 1 \in 3 .. Len(rest) + 2 /\ (j + 1) - 2 = j - 1
      BY <2>3, <3>1
    <3>. QED  BY <2>3, <2>5, <2>6, <3>1, <3>2
  <2>. QED  BY <2>3, <2>5, <2>6, <2>7, <2>8
<1>11. SplitVisited(near, far)
  BY <1>1, <1>3, <1>6, <1>8, <1>9, <1>10 DEF SplitVisited
<1>. QED  BY <1>11

LEMMA VisitSplitSearch ==
  ASSUME ModelInv, SearchInv, VisitSplit
  PROVE  SearchInv'
<1>1. PICK near, far : SplitVisited(near, far)
  BY SplitIsVisited
<1>2. /\ phase = "search" /\ UNCHANGED <<phase, algorithm, query, keys, infos, died, pts, tree>>
      /\ 1 \in DOMAIN stack
      /\ near.path \in DOMAIN tree /\ far.path \in DOMAIN tree
      /\ near.far \in BOOLEAN /\ far.far \in BOOLEAN
      /\ Under(near) \cup Under(far) = Under(stack[1])
      /\ Under(near) \cap Under(far) = {}
      /\ \E T : stack' \in Seq(T)
      /\ 1 \in DOMAIN stack' /\ 2 \in DOMAIN stack' /\ stack'[1] = near /\ stack'[2] = far
      /\ \A j \in DOMAIN stack' :
           j # 1 /\ j # 2 => j - 1 \in DOMAIN stack /\ j - 1 # 1 /\ stack'[j] = stack[j - 1]
      /\ \A j \in DOMAIN stack : j # 1 => j + 1 \in DOMAIN stack' /\ stack'[j + 1] = stack[j]
      /\ DOMAIN stack' \subseteq Int
  BY <1>1 DEF SplitVisited
<1>3. K' = K /\ N' = N /\ Indices' = Indices
  BY <1>2 DEF K, N, Indices
<1>4. SearchTypes'
  <2>1. ASSUME NEW j \in DOMAIN stack'
        PROVE  stack'[j].path \in DOMAIN tree /\ stack'[j].far \in BOOLEAN
    BY <1>2 DEF SearchInv, SearchTypes
  <2>. QED  BY <1>2, <1>3, <2>1 DEF SearchInv, SearchTypes
<1>5. ASSUME NEW j \in DOMAIN stack', NEW l \in DOMAIN stack', j # l
      PROVE  Under(stack'[j]) \cap Under(stack'[l]) = {}
  <2>1. \A k \in DOMAIN stack : k # 1 => /\ Under(stack[k]) \cap Under(near) = {}
                                         /\ Under(stack[k]) \cap Under(far) = {}
    BY <1>2 DEF SearchInv, SearchSound
  <2>2. CASE j \in {1, 2} \/ l \in {1, 2}
    BY <1>2, <1>5, <2>1, <2>2
  <2>3. CASE ~(j \in {1, 2} \/ l \in {1, 2})
    <3>1. j - 1 # l - 1
      BY <1>2, <1>5
    <3>. QED  BY <1>2, <2>3, <3>1 DEF SearchInv, SearchSound
  <2>. QED  BY <2>2, <2>3
<1>6. ASSUME NEW j \in DOMAIN stack', NEW m \in DOMAIN infos
      PROVE  infos[m] \notin Under(stack'[j])
  <2>1. \A k \in DOMAIN stack : infos[m] \notin Under(stack[k])
    BY <1>2 DEF SearchInv, SearchSound
  <2>. QED  BY <1>2, <2>1
<1>7. ASSUME NEW i, \E j \in DOMAIN stack : i \in Under(stack[j])
      PROVE  \E j \in DOMAIN stack' : i \in Under(stack'[j])
  <2>1. PICK j \in DOMAIN stack : i \in Under(stack[j])
    BY <1>7
  <2>2. CASE j = 1
    BY <1>2, <2>1, <2>2
  <2>3. CASE j # 1
    BY <1>2, <2>1, <2>3
  <2>. QED  BY <2>2, <2>3
<1>8. SearchSound'
  <2>1. UNCHANGED <<phase, infos, tree>> /\ phase = "search"
    BY <1>2
  <2>2. /\ K <= N /\ \A j, l \in DOMAIN infos : j # l => infos[j] # infos[l]
        /\ Len(infos) < K =>
             \A i \in Indices : \/ \E m \in DOMAIN infos : infos[m] = i
                                \/ \E j \in DOMAIN stack : i \in Under(stack[j])
    BY <2>1 DEF SearchInv, SearchSound
  <2>. QED  BY <1>3, <1>5, <1>6, <1>7, <2>1, <2>2 DEF SearchSound, Under
<1>. QED  BY <1>4, <1>8 DEF SearchInv

LEMMA StartSearch ==
  ASSUME ModelInv, SearchInv, NEW q \in Queries, NEW a \in Algorithms, Search(q, a)
  PROVE  SearchInv'
<1>1. /\ phase = "ready" /\ algorithm' = a /\ query' = q /\ keys' = <<>> /\ infos' = <<>>
      /\ UNCHANGED <<pts, tree>>
      /\ \/ /\ NumNeighbours + Extra(a) + 1 > N /\ died' = "tooManyNeighbours"
            /\ phase' = phase /\ stack' = stack
         \/ /\ ~(NumNeighbours + Extra(a) + 1 > N) /\ phase' = "search" /\ died' = died
            /\ stack' = <<[path |-> <<>>, dist |-> BoxDistance(q), far |-> FALSE]>>
  BY DEF Search, model, Dies
<1>2. a \in 1 .. 3
  BY SizesAssumption
<1>3. /\ K' = NumNeighbours + Extra(a) + 1 /\ N' = N /\ Indices' = Indices
      /\ N \in Nat /\ K' \in Nat \ {0}
  <2>1. Extra(a) \in {0, 5, 32}
    BY DEF Extra
  <2>2. N \in Nat
    BY SizesType DEF SearchInv, SearchTypes
  <2>3. K' = NumNeighbours + Extra(a) + 1
    BY <1>1 DEF K, Extra
  <2>. QED  BY <1>1, <2>1, <2>2, <2>3, SizesAssumption DEF N, Indices
<1>4. /\ \A T : <<>> \in Seq(T)
      /\ Len(<<>>) = 0 /\ DOMAIN <<>> = {}
  OBVIOUS
<1>5. infos' \in Seq(Indices) /\ Len(infos') <= K' /\ Len(keys') = Len(infos')
      /\ \E T : keys' \in Seq(T)
  BY <1>1, <1>3, <1>4
<1>6. CASE phase' = phase /\ stack' = stack /\ died' = "tooManyNeighbours"
  <2>1. SearchTypes'
    BY <1>1, <1>2, <1>3, <1>4, <1>5, <1>6 DEF SearchInv, SearchTypes
  <2>2. SearchSound'
    BY <1>1, <1>6 DEF SearchSound
  <2>. QED  BY <2>1, <2>2 DEF SearchInv
<1>7. CASE /\ ~(NumNeighbours + Extra(a) + 1 > N) /\ phase' = "search" /\ died' = died
           /\ stack' = <<[path |-> <<>>, dist |-> BoxDistance(q), far |-> FALSE]>>
  <2>1. <<>> \in DOMAIN tree /\ tree[<<>>].points = Indices
    BY <1>1, <1>4 DEF ModelInv, Has
  <2>2. PICK e : e = [path |-> <<>>, dist |-> BoxDistance(q), far |-> FALSE]
    OBVIOUS
  <2>3. e.path = <<>> /\ e.far = FALSE
    BY <2>2
  <2>4. /\ stack' \in Seq({e}) /\ DOMAIN stack' = {1} /\ stack'[1] = e
    <3>1. stack' = <<e>>
      BY <1>7, <2>2
    <3>. QED  BY <3>1
  <2>5. SearchTypes'
    <3>1. \A j \in DOMAIN stack' : stack'[j].path \in DOMAIN tree' /\ stack'[j].far \in BOOLEAN
      BY <1>1, <2>1, <2>3, <2>4
    <3>2. \E T : stack' \in Seq(T)
      BY <2>4
    <3>. QED  BY <1>1, <1>2, <1>3, <1>5, <1>7, <3>1, <3>2 DEF SearchInv, SearchTypes
  <2>6. SearchSound'
    <3>1. K' <= N'
      BY <1>3, <1>7, SizesAssumption
    <3>2. DOMAIN infos' = {} /\ Len(infos') = 0
      BY <1>1, <1>4
    <3>3. \A i \in Indices : i \in Under(stack'[1])
      BY <2>1, <2>3, <2>4 DEF Under
    <3>. QED  BY <1>1, <1>3, <2>4, <3>1, <3>2, <3>3 DEF SearchSound, Under
  <2>. QED  BY <2>5, <2>6 DEF SearchInv
<1>. QED  BY <1>1, <1>6, <1>7

(* A search that has nothing left to look at has found as many different   *)
(* points as it was asked for.                                             *)
LEMMA FoundAll ==
  ASSUME ModelInv, SearchInv, phase = "search", stack = <<>>
  PROVE  /\ Len(infos) = K /\ K <= N /\ infos \in Seq(Indices)
         /\ \A j, l \in 1 .. K : j # l => infos[j] # infos[l]
<1>1. /\ infos \in Seq(Indices) /\ Len(infos) <= K /\ Len(infos) \in Nat /\ K <= N
      /\ \A j, l \in DOMAIN infos : j # l => infos[j] # infos[l]
      /\ K \in Nat /\ N \in Nat
  BY SizesType DEF SearchInv, SearchTypes, SearchSound
<1>2. ASSUME Len(infos) < K
      PROVE  FALSE
  <2>1. DOMAIN stack = {}
    <3>1. DOMAIN <<>> = {}
      OBVIOUS
    <3>. QED  BY <3>1
  <2>2. \A i \in Indices : \E m \in DOMAIN infos : infos[m] = i
    BY <1>2, <2>1 DEF SearchInv, SearchSound
  <2>3. infos \in [1 .. Len(infos) -> Indices] /\ DOMAIN infos = 1 .. Len(infos)
    BY <1>1
  <2>4. infos \in Surjection(1 .. Len(infos), Indices)
    BY <2>2, <2>3 DEF Surjection
  <2>5. Cardinality(Indices) <= Len(infos)
    BY <1>1, <2>4, FS_SurjCardinalityBound DEF ExistsSurjection
  <2>6. N <= Len(infos)
    BY <2>5 DEF N, Indices
  <2>. QED  BY <1>1, <1>2, <2>6
<1>3. Len(infos) = K /\ DOMAIN infos = 1 .. K
  BY <1>1, <1>2
<1>. QED  BY <1>1, <1>3

LEMMA SearchStep == ModelInv /\ SearchInv /\ [Next]_vars => SearchInv'
<1> SUFFICES ASSUME ModelInv, SearchInv, [Next]_vars PROVE SearchInv'
  OBVIOUS
<1>1. ASSUME NEW q \in Queries, NEW a \in Algorithms, Search(q, a)
      PROVE  SearchInv'
  BY <1>1, StartSearch
<1>2. CASE SkipFar
  BY <1>2, SkipFarSearch
<1>3. CASE VisitLeaf
  BY <1>3, VisitLeafSearch
<1>4. CASE VisitSplit
  BY <1>4, VisitSplitSearch
<1>5. CASE MakeLeaf \/ Split \/ DumpAndRead
  <2>1. /\ phase = "build" /\ phase' \in {"build", "ready"} /\ Indices' = Indices
        /\ UNCHANGED <<algorithm, query, stack, keys, infos, died>>
    BY <1>5 DEF MakeLeaf, Split, DumpAndRead, search, Indices
  <2>2. stack = <<>> /\ infos = <<>> /\ K' = K
    BY <2>1 DEF SearchInv, SearchTypes, K
  <2>3. DOMAIN stack' = {}
    <3>1. DOMAIN <<>> = {}
      OBVIOUS
    <3>. QED  BY <2>1, <2>2, <3>1
  <2>4. SearchTypes'
    BY <2>1, <2>2, <2>3 DEF SearchInv, SearchTypes
  <2>. QED  BY <2>1, <2>4 DEF SearchInv, SearchSound
<1>6. CASE SearchDone
  <2>1. /\ phase = "search" /\ stack = <<>> /\ phase' = "choose" /\ keys' = <<>> /\ infos' = <<>>
        /\ UNCHANGED <<algorithm, query, stack, died, pts, tree>>
    BY <1>6 DEF SearchDone, model
  <2>2. K' = K /\ K \in Nat /\ Indices' = Indices
    BY <2>1, SizesType DEF SearchInv, SearchTypes, K, Indices
  <2>3. (\A T : <<>> \in Seq(T)) /\ Len(<<>>) = 0
    OBVIOUS
  <2>4. /\ infos' \in Seq(Indices) /\ Len(infos') <= K /\ Len(keys') = Len(infos')
        /\ \E T : keys' \in Seq(T)
    BY <2>1, <2>2, <2>3
  <2>5. SearchTypes'
    BY <2>1, <2>2, <2>4 DEF SearchInv, SearchTypes
  <2>. QED  BY <2>1, <2>5 DEF SearchInv, SearchSound
<1>7. CASE ChooseNeighbour \/ Classified \/ UNCHANGED vars
  <2>1. /\ UNCHANGED <<algorithm, query, stack, keys, infos, died, pts, tree>>
        /\ phase' = phase \/ (phase = "choose" /\ phase' = "ready")
    <3>1. CASE ChooseNeighbour
      BY <3>1 DEF ChooseNeighbour, search, model
    <3>2. CASE Classified
      BY <3>2 DEF Classified, search, model
    <3>3. CASE UNCHANGED vars
      BY <3>3 DEF vars, search, model
    <3>. QED  BY <1>7, <3>1, <3>2, <3>3
  <2>2. K' = K /\ Indices' = Indices /\ N' = N
    BY <2>1 DEF K, Indices, N
  <2>3. SearchTypes'
    BY <2>1, <2>2 DEF SearchInv, SearchTypes
  <2>4. SearchSound'
    BY <2>1, <2>2 DEF SearchInv, SearchSound, Under
  <2>. QED  BY <2>3, <2>4 DEF SearchInv
<1>. QED  BY <1>1, <1>2, <1>3, <1>4, <1>5, <1>6, <1>7 DEF Next

-------------------------------------------------------------------------------
(* The neighbours that are used.                                           *)

(* While algorithm 1 replaces neighbours, they differ from each other; and *)
(* as long as one can be the last point, none is the spare one.            *)
Means ==
  /\ \A j, l \in 1 .. NumNeighbours : j # l => nn_idx[j] # nn_idx[l]
  /\ \/ \A j \in 1 .. NumNeighbours : nn_idx[j] # nn_idx[NumNeighbours + 1]
     \/ \A j \in 1 .. NumNeighbours : nn_idx[j] # N - 1

ChooseInv ==
  /\ chosen \in 0 .. NumNeighbours /\ rows \subseteq Indices
  /\ phase # "choose" => nn_idx = <<>>
  /\ phase = "choose" =>
       /\ K <= N /\ nn_idx \in [1 .. K -> Indices]
       /\ \A j, l \in chosen + 1 .. K : j # l => nn_idx[j] # nn_idx[l]
       /\ algorithm = 1 => Means

LEMMA ChooseInit == Init => ChooseInv
  BY SizesAssumption DEF Init, ChooseInv

LEMMA BeginChoosing ==
  ASSUME ModelInv, SearchInv, ChooseInv, SearchDone
  PROVE  ChooseInv'
<1>1. /\ phase = "search" /\ stack = <<>> /\ phase' = "choose" /\ chosen' = 0 /\ rows' = {}
      /\ nn_idx' = [l \in 1 .. K |-> IF l <= Len(infos) THEN infos[l] ELSE NullIdx]
      /\ UNCHANGED <<algorithm, pts>>
  BY DEF SearchDone, model
<1>2. /\ Len(infos) = K /\ K <= N /\ infos \in Seq(Indices)
      /\ \A j, l \in 1 .. K : j # l => infos[j] # infos[l]
  BY <1>1, FoundAll
<1>3. K' = K /\ N' = N /\ Indices' = Indices
  BY <1>1 DEF K, N, Indices
<1>4. /\ K \in Nat /\ NumNeighbours \in Nat /\ NumNeighbours + 1 <= K
  BY SizesType DEF SearchInv, SearchTypes
<1>5. nn_idx' \in [1 .. K -> Indices] /\ \A l \in 1 .. K : nn_idx'[l] = infos[l]
  BY <1>1, <1>2, <1>4
<1>6. Means'
  BY <1>2, <1>4, <1>5 DEF Means
<1>7. \A j, l \in chosen' + 1 .. K' : j # l => nn_idx'[j] # nn_idx'[l]
  BY <1>1, <1>2, <1>3, <1>4, <1>5
<1>. QED  BY <1>1, <1>2, <1>3, <1>4, <1>5, <1>6, <1>7 DEF ChooseInv

(* The first of the candidates that can be used, if there is one.          *)
LEMMA FirstGood ==
  ASSUME ModelInv, SearchInv, ChooseInv, phase = "choose", algorithm # 1,
         NEW l \in 1 .. NumNeighbours
  PROVE  \/ Good(l) \in Indices /\ ~Bad(Good(l))
         \/ /\ Good(l) = 0
            /\ Bad(nn_idx[l]) /\ \A a \in 1 .. Extra(algorithm) - 1 : Bad(nn_idx[NumNeighbours + a])
<1> DEFINE spare(a) == IF a = 0 THEN nn_idx[l] ELSE nn_idx[NumNeighbours + a]
           good == {a \in 0 .. Extra(algorithm) - 1 : ~Bad(spare(a))}
<1>1. /\ K \in Nat /\ NumNeighbours \in Nat /\ K = NumNeighbours + Extra(algorithm) + 1
      /\ Extra(algorithm) \in {5, 32}
  BY SizesType DEF SearchInv, SearchTypes, Extra
<1>2. nn_idx \in [1 .. K -> Indices]
  BY DEF ChooseInv
<1>3. Good(l) = IF good = {} THEN 0 ELSE spare(Min(good))
  BY DEF Good
<1>4. \A a \in 0 .. Extra(algorithm) - 1 : spare(a) \in Indices
  BY <1>1, <1>2
<1>5. CASE good = {}
  <2>1. \A a \in 0 .. Extra(algorithm) - 1 : Bad(spare(a))
    BY <1>5
  <2>2. spare(0) = nn_idx[l] /\ 0 \in 0 .. Extra(algorithm) - 1
    BY <1>1
  <2>3. \A a \in 1 .. Extra(algorithm) - 1 :
          a \in 0 .. Extra(algorithm) - 1 /\ spare(a) = nn_idx[NumNeighbours + a]
    BY <1>1
  <2> HIDE DEF spare, good
  <2>. QED  BY <1>3, <1>5, <2>1, <2>2, <2>3
<1>6. CASE good # {}
  <2>1. good \subseteq 0 .. Extra(algorithm) - 1 /\ good \in SUBSET Int
    OBVIOUS
  <2>2. IsFiniteSet(good)
    <3>1. Extra(algorithm) - 1 \in Int
      BY <1>1
    <3>2. IsFiniteSet(0 .. Extra(algorithm) - 1)
      BY <3>1, FS_Interval
    <3> HIDE DEF good
    <3>. QED  BY <2>1, <3>2, FS_Subset
  <2>3. \A a \in good : ~Bad(spare(a))
    OBVIOUS
  <2> HIDE DEF spare, good
  <2>4. Min(good) \in good
    BY <1>6, <2>1, <2>2, MinMember
  <2>. QED  BY <1>3, <1>4, <1>6, <2>1, <2>3, <2>4
<1>. QED  BY <1>5, <1>6

(* The rows around the chosen neighbour exist.                             *)
LEMMA RowsAround ==
  ASSUME ModelInv, SearchInv, ChooseInv, phase = "choose", chosen < NumNeighbours
  PROVE  /\ Good(chosen + 1) \in Indices
         /\ \A r \in RowSets(Good(chosen + 1)) : r \subseteq Indices
<1> DEFINE l == chosen + 1
<1>1. /\ K \in Nat /\ N \in Nat /\ NumNeighbours \in Nat \ {0} /\ K <= N
      /\ K = NumNeighbours + Extra(algorithm) + 1 /\ algorithm \in 1 .. 3
      /\ Indices = 0 .. N - 1 /\ nn_idx \in [1 .. K -> Indices]
      /\ \A j, m \in chosen + 1 .. K : j # m => nn_idx[j] # nn_idx[m]
      /\ algorithm = 1 => Means
  BY SizesType DEF SearchInv, SearchTypes, ChooseInv, ModelInv, ModelTypes, PointsFinite
<1>2. l \in 1 .. NumNeighbours /\ l \in Nat /\ chosen \in Nat
  BY <1>1 DEF ChooseInv
<1>3. MatchSteps \in 1 .. 32
  BY SizesAssumption
<1>4. \A i \in Indices : i \in Int /\ 0 <= i /\ i <= N - 1
  BY <1>1
<1>5. CASE algorithm = 1
  <2>1. Extra(algorithm) = 0 /\ K = NumNeighbours + 1
    BY <1>1, <1>5 DEF Extra
  <2>2. Good(l) = IF nn_idx[l] = N - 1 THEN nn_idx[NumNeighbours + 1] ELSE nn_idx[l]
    BY <1>5 DEF Good, Bad
  <2>3. l \in 1 .. K /\ NumNeighbours + 1 \in 1 .. K
    BY <1>1, <1>2, <2>1
  <2>4. nn_idx[l] = N - 1 => nn_idx[NumNeighbours + 1] # N - 1
    BY <1>1, <1>2, <1>5 DEF Means
  <2>5. Good(l) \in Indices /\ Good(l) # N - 1
    BY <1>1, <2>2, <2>3, <2>4
  <2>6. RowSets(Good(l)) = {Good(l) .. Good(l) + 1}
    BY <1>5 DEF RowSets
  <2>. QED  BY <1>1, <1>4, <2>5, <2>6
<1>6. CASE algorithm = 2
  <2>1. Extra(algorithm) = 32 /\ N > MatchSteps
    BY <1>1, <1>3, <1>6 DEF Extra
  <2>2. \/ Good(l) \in Indices /\ ~Bad(Good(l))
        \/ Good(l) = 0
    BY <1>2, <1>6, FirstGood
  <2>3. 0 \in Indices /\ ~(0 > N - MatchSteps - 1)
    BY <1>1, <1>3, <2>1
  <2>4. Good(l) \in Indices /\ ~(Good(l) > N - MatchSteps - 1)
    BY <1>6, <2>1, <2>2, <2>3 DEF Bad
  <2>5. RowSets(Good(l)) = {Good(l) .. Good(l) + MatchSteps}
    BY <1>6 DEF RowSets
  <2>. QED  BY <1>1, <1>3, <1>4, <2>4, <2>5
<1>7. CASE algorithm = 3
  <2>1. Extra(algorithm) = 5 /\ K = NumNeighbours + 6
    BY <1>1, <1>7 DEF Extra
  <2>2. \A i \in Indices : Bad(i) <=> i >= N - 3 \/ i = 0
    BY <1>7 DEF Bad
  <2>3. Good(l) \in Indices /\ ~Bad(Good(l))
    <3>1. SUFFICES ASSUME Bad(nn_idx[l]),
                          \A a \in 1 .. 4 : Bad(nn_idx[NumNeighbours + a])
                   PROVE  FALSE
      BY <1>2, <1>7, <2>1, FirstGood
    <3> DEFINE n == NumNeighbours
    <3>2. /\ l \in 1 .. K /\ n + 1 \in 1 .. K /\ n + 2 \in 1 .. K
          /\ n + 3 \in 1 .. K /\ n + 4 \in 1 .. K
      BY <1>1, <1>2, <2>1
    <3>3. /\ l \in chosen + 1 .. K /\ n + 1 \in chosen + 1 .. K /\ n + 2 \in chosen + 1 .. K
          /\ n + 3 \in chosen + 1 .. K /\ n + 4 \in chosen + 1 .. K
      BY <1>1, <1>2, <3>2
    <3>4. PICK i0 \in Indices, i1 \in Indices, i2 \in Indices, i3 \in Indices, i4 \in Indices :
            /\ i0 = nn_idx[l] /\ i1 = nn_idx[n + 1] /\ i2 = nn_idx[n + 2]
            /\ i3 = nn_idx[n + 3] /\ i4 = nn_idx[n + 4]
      BY <1>1, <3>2
    <3>5. Bad(i0) /\ Bad(i1) /\ Bad(i2) /\ Bad(i3) /\ Bad(i4)
      BY <3>1, <3>4
    <3>6. \A i \in Indices : Bad(i) => i \in {0, N - 3, N - 2, N - 1}
      BY <1>1, <1>4, <2>2
    <3>7. /\ l # n + 1 /\ l # n + 2 /\ l # n + 3 /\ l # n + 4 /\ n + 1 # n + 2 /\ n + 1 # n + 3
          /\ n + 1 # n + 4 /\ n + 2 # n + 3 /\ n + 2 # n + 4 /\ n + 3 # n + 4
      BY <1>1, <1>2
    <3>8. /\ i0 # i1 /\ i0 # i2 /\ i0 # i3 /\ i0 # i4 /\ i1 # i2 /\ i1 # i3
          /\ i1 # i4 /\ i2 # i3 /\ i2 # i4 /\ i3 # i4
      BY <1>1, <3>3, <3>4, <3>7
    <3>9. {i0, i1, i2, i3, i4} \subseteq {0, N - 3, N - 2, N - 1}
      BY <3>5, <3>6
    <3>. QED  BY <3>8, <3>9
  <2>4. RowSets(Good(l)) = {Good(l) .. Good(l) + 2, Good(l) - 1 .. Good(l) + 2,
                            Good(l) .. Good(l) + 3}
    BY <1>7 DEF RowSets
  <2>. QED  BY <1>1, <1>4, <2>2, <2>3, <2>4
<1>. QED  BY <1>1, <1>5, <1>6, <1>7

LEMMA ChooseStep == ModelInv /\ SearchInv /\ ChooseInv /\ [Next]_vars => ChooseInv'
<1> SUFFICES ASSUME ModelInv, SearchInv, ChooseInv, [Next]_vars PROVE ChooseInv'
  OBVIOUS
<1>1. CASE SearchDone
  BY <1>1, BeginChoosing
<1>2. CASE ChooseNeighbour
  <2> DEFINE l == chosen + 1
  <2>1. /\ phase = "choose" /\ chosen < NumNeighbours /\ chosen' = l /\ phase' = phase
        /\ nn_idx' = [nn_idx EXCEPT ![l] = Good(l)] /\ rows' \in RowSets(Good(l))
        /\ UNCHANGED <<pts, algorithm>>
    BY <1>2 DEF ChooseNeighbour, model, search
  <2>2. Good(l) \in Indices /\ rows' \subseteq Indices
    BY <2>1, RowsAround
  <2>3. /\ K \in Nat /\ NumNeighbours \in Nat /\ N \in Nat
        /\ K = NumNeighbours + Extra(algorithm) + 1 /\ Extra(algorithm) \in Nat
    BY SizesType DEF SearchInv, SearchTypes
  <2>4. /\ K <= N /\ nn_idx \in [1 .. K -> Indices] /\ chosen \in 0 .. NumNeighbours
        /\ \A j, m \in chosen + 1 .. K : j # m => nn_idx[j] # nn_idx[m]
        /\ algorithm = 1 => Means
    BY <2>1 DEF ChooseInv
  <2>5. K' = K /\ N' = N /\ Indices' = Indices
    BY <2>1 DEF K, N, Indices
  <2>6. l \in 1 .. NumNeighbours /\ l \in 1 .. K /\ chosen' \in 0 .. NumNeighbours
    BY <2>1, <2>3, <2>4
  <2>7. /\ nn_idx' \in [1 .. K -> Indices] /\ nn_idx'[l] = Good(l)
        /\ \A j \in 1 .. K : j # l => nn_idx'[j] = nn_idx[j]
    BY <2>1, <2>2, <2>4, <2>6
  <2>8. \A j, m \in l + 1 .. K : j # m => nn_idx'[j] # nn_idx'[m]
    <3>1. \A j \in l + 1 .. K : j \in 1 .. K /\ j \in chosen + 1 .. K /\ j # l
      BY <2>3, <2>4
    <3>. QED  BY <2>4, <2>7, <3>1
  <2>9. ASSUME algorithm = 1
        PROVE  Means'
    <3>1. Good(l) = IF nn_idx[l] = N - 1 THEN nn_idx[NumNeighbours + 1] ELSE nn_idx[l]
      BY <2>9 DEF Good, Bad
    <3>2. K = NumNeighbours + 1
      BY <2>3, <2>9 DEF Extra
    <3>3. \A j \in 1 .. NumNeighbours : j \in 1 .. K /\ j # NumNeighbours + 1
      BY <2>3, <3>2
    <3>4. NumNeighbours + 1 \in 1 .. K /\ NumNeighbours + 1 # l
      BY <2>3, <2>6, <3>2
    <3>5. Means
      BY <2>4, <2>9
    <3>6. CASE nn_idx[l] = N - 1
      <4>1. \A j \in 1 .. NumNeighbours : nn_idx[j] # nn_idx[NumNeighbours + 1]
        BY <2>6, <3>5, <3>6 DEF Means
      <4>2. \A j \in 1 .. NumNeighbours : j # l => nn_idx[j] # N - 1
        BY <2>6, <3>5, <3>6 DEF Means
      <4>3. Good(l) = nn_idx[NumNeighbours + 1] /\ Good(l) # N - 1
        BY <2>6, <3>1, <3>6, <4>1
      <4>4. \A j \in 1 .. NumNeighbours : nn_idx'[j] # N' - 1
        BY <2>5, <2>7, <3>3, <4>2, <4>3
      <4>5. \A j, m \in 1 .. NumNeighbours : j # m => nn_idx'[j] # nn_idx'[m]
        BY <2>7, <3>3, <3>5, <4>1, <4>3 DEF Means
      <4>. QED  BY <4>4, <4>5 DEF Means
    <3>7. CASE nn_idx[l] # N - 1
      <4>1. nn_idx' = nn_idx
        BY <2>1, <2>4, <2>6, <3>1, <3>7
      <4>. QED  BY <2>5, <3>5, <4>1 DEF Means
    <3>. QED  BY <3>6, <3>7
  <2> HIDE DEF l
  <2>. QED  BY <2>1, <2>2, <2>4, <2>5, <2>6, <2>7, <2>8, <2>9 DEF ChooseInv
<1>3. CASE Classified
  <2>1. phase' = "ready" /\ nn_idx' = <<>> /\ chosen' = 0 /\ rows' = {}
    BY <1>3 DEF Classified
  <2>. QED  BY <2>1, SizesAssumption DEF ChooseInv
<1>4. CASE MakeLeaf \/ Split \/ DumpAndRead
  <2>1. /\ phase = "build" /\ phase' # "choose" /\ Indices' = Indices
        /\ UNCHANGED <<nn_idx, chosen, rows>>
    BY <1>4 DEF MakeLeaf, Split, DumpAndRead, use, Indices
  <2>. QED  BY <2>1 DEF ChooseInv
<1>5. ASSUME NEW q \in Queries, NEW a \in Algorithms, Search(q, a)
      PROVE  ChooseInv'
  <2>1. /\ phase = "ready" /\ phase' # "choose" /\ Indices' = Indices
        /\ UNCHANGED <<nn_idx, chosen, rows>>
    BY <1>5 DEF Search, use, model, Indices
  <2>. QED  BY <2>1 DEF ChooseInv
<1>6. CASE SkipFar \/ VisitLeaf \/ VisitSplit
  <2>1. /\ phase = "search" /\ phase' = phase /\ Indices' = Indices
        /\ UNCHANGED <<nn_idx, chosen, rows>>
    BY <1>6 DEF SkipFar, VisitLeaf, VisitSplit, Visits, Looking, use, model, Indices
  <2>. QED  BY <2>1 DEF ChooseInv
<1>7. CASE UNCHANGED vars
  <2>1. UNCHANGED <<phase, pts, algorithm, nn_idx, chosen, rows>>
    BY <1>7 DEF vars, model, search, use
  <2>. QED  BY <2>1 DEF ChooseInv, Means, K, N, Indices
<1>. QED  BY <1>1, <1>2, <1>3, <1>4, <1>5, <1>6, <1>7 DEF Next

(* The whole: the tree, the searches and the choices.                      *)
THEOREM NeighbourInvariant == Spec => [](ModelInv /\ SearchInv /\ ChooseInv)
<1>1. Init => ModelInv /\ SearchInv /\ ChooseInv
  BY ModelInit, SearchInit, ChooseInit
<1>2. (ModelInv /\ SearchInv /\ ChooseInv) /\ [Next]_vars => (ModelInv /\ SearchInv /\ ChooseInv)'
  BY ModelStep, SearchStep, ChooseStep
<1>. QED  BY <1>1, <1>2, PTL DEF Spec

(* TypeOK: among others, the search only goes where the tree has a node,   *)
(* and ANNmin_k never holds more neighbours than it was asked for.         *)
THEOREM TypeCorrect == Spec => []TypeOK
<1>1. ASSUME ModelInv, SearchInv, ChooseInv
      PROVE  TypeOK
  <2>1. pts \in [Indices -> Points]
    BY <1>1 DEF ModelInv, ModelTypes, PointsFinite
  <2>2. DOMAIN keys = DOMAIN infos
    BY <1>1 DEF SearchInv, SearchTypes
  <2>3. nn_idx \in Seq(Indices \cup {NullIdx})
    <3>1. CASE phase = "choose"
      <4>1. nn_idx \in [1 .. K -> Indices] /\ K \in Nat
        BY <1>1, <3>1, SizesType DEF ChooseInv, SearchInv, SearchTypes
      <4>. QED  BY <4>1
    <3>2. CASE phase # "choose"
      <4>1. \A T : <<>> \in Seq(T)
        OBVIOUS
      <4>. QED  BY <1>1, <3>2, <4>1 DEF ChooseInv
    <3>. QED  BY <3>1, <3>2
  <2>4. rows \subseteq Int
    BY <1>1, SizesType DEF ChooseInv, ModelInv, ModelTypes, PointsFinite, SearchInv, SearchTypes
  <2>. QED  BY <1>1, <2>1, <2>2, <2>3, <2>4
            DEF TypeOK, ModelInv, ModelTypes, SearchInv, SearchTypes, ChooseInv
<1>. QED  BY <1>1, NeighbourInvariant, PTL

(* RowsExist: with one spare neighbour for algorithm 1, 32 for algorithm 2 *)
(* and 5 for algorithm 3, every row that is read around a chosen neighbour *)
(* is a row of the model.                                                  *)
THEOREM NoRowMissing == Spec => []RowsExist
<1>1. ChooseInv => RowsExist
  BY DEF ChooseInv, RowsExist
<1>. QED  BY <1>1, NeighbourInvariant, PTL

(* Different: one spare neighbour is enough for algorithm 1, because only  *)
(* one of the neighbours can be the last point of the model.               *)
THEOREM MeansOfDifferent == Spec => []Different
<1>1. ASSUME ChooseInv, SearchInv, ModelInv
      PROVE  Different
  <2>1. chosen \in 0 .. NumNeighbours /\ NumNeighbours \in Nat
    BY <1>1, SizesAssumption DEF ChooseInv
  <2>2. 1 .. chosen \subseteq 1 .. NumNeighbours
    BY <2>1
  <2>. QED  BY <1>1, <2>2 DEF ChooseInv, Means, Different
<1>. QED  BY <1>1, NeighbourInvariant, PTL

-------------------------------------------------------------------------------
(* The boxes that the nodes of the tree stand for.                         *)

Boxes == [lo : Points, hi : Points]

BoxFits(B, p) ==
  /\ InBox(tree[p].points, B[p])
  /\ ~IsLeaf(tree[p]) =>
       LET cd == tree[p].cd
           low == Append(p, "lo")
           high == Append(p, "hi")
       IN  /\ tree[p].lv = B[p].lo[cd] /\ tree[p].lv <= tree[p].cv
           /\ tree[p].hv = B[p].hi[cd] /\ tree[p].cv <= tree[p].hv
           /\ \A d \in Dims : /\ B[low].lo[d] = B[p].lo[d]
                              /\ B[low].hi[d] = IF d = cd THEN tree[p].cv ELSE B[p].hi[d]
                              /\ B[high].lo[d] = IF d = cd THEN tree[p].cv ELSE B[p].lo[d]
                              /\ B[high].hi[d] = B[p].hi[d]

(* B gives the box of every node, and of the calls still to be made, which *)
(* carry theirs with them.  The tree only stores its two sides that the    *)
(* plane of a node is parallel to.                                         *)
BoxesFit(B) ==
  /\ B[<<>>].lo = box.lo /\ B[<<>>].hi = box.hi
  /\ \A p \in DOMAIN tree : BoxFits(B, p)
  /\ \A j \in DOMAIN calls :
       B[calls[j].path].lo = calls[j].lo /\ B[calls[j].path].hi = calls[j].hi

LEMMA BoxesInit ==
  ASSUME Init
  PROVE  \E B \in [Paths -> Boxes] : BoxesFit(B)
<1> DEFINE B == [q \in Paths |-> box]
<1>1. ModelInv /\ box \in Boxes
  BY ModelInit DEF ModelInv, ModelTypes, Boxes
<1>2. /\ DOMAIN tree = {} /\ <<>> \in Paths
      /\ calls = <<Call(<<>>, DOMAIN pts, box.lo, box.hi)>>
  BY DEF Init, Paths
<1>3. DOMAIN calls = {1} /\ calls[1].path = <<>> /\ calls[1].lo = box.lo /\ calls[1].hi = box.hi
  BY <1>2 DEF Call
<1>4. B \in [Paths -> Boxes] /\ \A q \in Paths : B[q] = box
  BY <1>1
<1> HIDE DEF B
<1>5. BoxesFit(B)
  BY <1>2, <1>3, <1>4 DEF BoxesFit
<1>. QED  BY <1>4, <1>5

(* A new node has the box of its call.                                     *)
LEMMA LeafBoxes ==
  ASSUME ModelInv, MakeLeaf, NEW B \in [Paths -> Boxes], BoxesFit(B)
  PROVE  BoxesFit(B)'
<1> DEFINE c == Head(calls)
           node == Leaf(c.points)
<1>1. /\ calls # <<>> /\ tree' = WithNode(c.path, node) /\ calls' = Tail(calls)
      /\ pts' = pts /\ box' = box
  BY DEF MakeLeaf
<1>2. ModelInv'
  BY MakeLeafModel
<1>3. calls \in Seq(AllCalls) /\ calls[1] = c /\ 1 \in DOMAIN calls /\ c \in AllCalls
  BY <1>1 DEF ModelInv, ModelTypes
<1>4. /\ DOMAIN tree' = DOMAIN tree \cup {c.path} /\ c.path \notin DOMAIN tree
      /\ tree'[c.path] = node /\ \A q \in DOMAIN tree : tree'[q] = tree[q]
  <2>1. c.path \notin DOMAIN tree
    BY <1>3 DEF ModelInv, PathsSound
  <2>. QED  BY <1>1, <2>1 DEF WithNode
<1>5. \A j \in DOMAIN calls' : \E l \in DOMAIN calls : calls'[j] = calls[l]
  <2>1. /\ Len(calls) \in Nat /\ DOMAIN calls = 1 .. Len(calls)
        /\ DOMAIN calls' = 1 .. Len(calls) - 1
        /\ \A j \in 1 .. Len(calls) - 1 : calls'[j] = calls[j + 1]
    BY <1>1, <1>3
  <2>2. \A j \in 1 .. Len(calls) - 1 : j + 1 \in DOMAIN calls
    BY <2>1
  <2>. QED  BY <2>1, <2>2
<1>6. /\ node.cd = 0 /\ node.points = c.points /\ InBox(c.points, c)
      /\ B[c.path].lo = c.lo /\ B[c.path].hi = c.hi
  BY <1>3 DEF Leaf, ModelInv, CallsSound, BoxesFit
<1> HIDE DEF c, node
<1>7. ASSUME NEW p \in DOMAIN tree'
      PROVE  BoxFits(B, p)'
  <2>1. CASE p = c.path
    <3>1. InBox(c.points, B[p])
      BY <1>6, <2>1 DEF InBox
    <3>. QED  BY <1>1, <1>4, <1>6, <2>1, <3>1 DEF BoxFits, IsLeaf, InBox
  <2>2. CASE p # c.path
    BY <1>1, <1>4, <2>2 DEF BoxesFit, BoxFits, IsLeaf, InBox
  <2>. QED  BY <2>1, <2>2
<1>8. \A j \in DOMAIN calls' :
        B[calls'[j].path].lo = calls'[j].lo /\ B[calls'[j].path].hi = calls'[j].hi
  BY <1>5 DEF BoxesFit
<1>. QED  BY <1>1, <1>7, <1>8 DEF BoxesFit

(* Different calls make different nodes.                                   *)
LEMMA AppendsDiffer ==
  ASSUME NEW q \in Paths, NEW r \in Paths, NEW s \in {"lo", "hi"}, NEW t \in {"lo", "hi"}
  PROVE  /\ Append(q, s) \in Paths /\ Append(q, s) # q /\ Append(q, s) # <<>>
         /\ Append(q, s) = Append(r, t) => q = r /\ s = t
<1>1. q \in Seq({"lo", "hi"}) /\ r \in Seq({"lo", "hi"})
  BY DEF Paths
<1>2. Append(q, s) \in Paths /\ Append(q, s) # q /\ Append(q, s) # <<>>
  BY <1>1 DEF Paths
<1>3. ASSUME Append(q, s) = Append(r, t)
      PROVE  q = r /\ s = t
  <2>1. Len(q) + 1 = Len(r) + 1 /\ Len(q) \in Nat /\ Len(r) \in Nat
    BY <1>1, <1>3
  <2>2. \A k \in 1 .. Len(q) : q[k] = r[k]
    BY <1>1, <1>3, <2>1
  <2>3. s = t
    BY <1>1, <1>3, <2>1
  <2>. QED  BY <1>1, <2>1, <2>2, <2>3
<1>. QED  BY <1>2, <1>3

LEMMA TwoCalls ==
  ASSUME NEW s \in Seq(AllCalls), s # <<>>, NEW x \in AllCalls, NEW y \in AllCalls,
         NEW r, r = <<x, y>> \o Tail(s), NEW j \in DOMAIN r
  PROVE  r[j] = x \/ r[j] = y \/ \E l \in DOMAIN s : l # 1 /\ r[j] = s[l]
<1> DEFINE rest == Tail(s)
<1>1. /\ rest \in Seq(AllCalls) /\ Len(rest) = Len(s) - 1 /\ Len(s) \in Nat
      /\ \A l \in 1 .. Len(s) - 1 : rest[l] = s[l + 1]
      /\ DOMAIN s = 1 .. Len(s)
  OBVIOUS
<1>2. <<x, y>> \in Seq(AllCalls) /\ Len(<<x, y>>) = 2
  OBVIOUS
<1> HIDE DEF rest
<1>3. /\ DOMAIN r = 1 .. Len(s) + 1 /\ r[1] = x /\ r[2] = y
      /\ \A l \in 3 .. Len(s) + 1 : r[l] = rest[l - 2]
  BY <1>1, <1>2 DEF rest
<1>4. CASE j \in 3 .. Len(s) + 1
  <2>1. j - 2 \in 1 .. Len(s) - 1 /\ (j - 2) + 1 = j - 1 /\ j - 1 \in DOMAIN s /\ j - 1 # 1
    BY <1>1, <1>4
  <2>. QED  BY <1>1, <1>3, <1>4, <2>1
<1>5. CASE j \notin 3 .. Len(s) + 1
  BY <1>1, <1>3, <1>5
<1>. QED  BY <1>4, <1>5

LEMMA SplitBoxes ==
  ASSUME ModelInv, Split, NEW B \in [Paths -> Boxes], BoxesFit(B)
  PROVE  \E C \in [Paths -> Boxes] : BoxesFit(C)'
<1> DEFINE c  == Head(calls)
           cd == CutDim(c.points, c)
           cv == CutVal(c.points, c, cd)
           node == [points |-> c.points, cd |-> cd, cv |-> cv,
                    lv |-> c.lo[cd], hv |-> c.hi[cd]]
           hiOfLow == [c.hi EXCEPT ![cd] = cv]
           loOfHigh == [c.lo EXCEPT ![cd] = cv]
<1>1. PICK low \in LowSides(c.points, c, cd, cv) :
        /\ phase = "build" /\ calls # <<>> /\ Cardinality(c.points) > 1
        /\ tree' = WithNode(c.path, node)
        /\ calls' = <<Call(Append(c.path, "lo"), low, c.lo, hiOfLow),
                      Call(Append(c.path, "hi"), c.points \ low, loOfHigh, c.hi)>>
                    \o Tail(calls)
        /\ pts' = pts /\ box' = box /\ phase' = "build"
  BY DEF Split
<1>2. calls \in Seq(AllCalls) /\ calls[1] = c /\ 1 \in DOMAIN calls /\ c \in AllCalls
  BY <1>1 DEF ModelInv, ModelTypes
<1>3. /\ c.points # {} /\ c.points \subseteq Indices /\ PointsFinite
      /\ c.path \in Paths /\ c.lo \in Points /\ c.hi \in Points /\ InBox(c.points, c)
  BY <1>2 DEF ModelInv, CallsSound, AllCalls, ModelTypes
<1>4. cd \in Dims
  <2> HIDE DEF c
  <2>. QED  BY <1>3, CutDimType
<1>5. cv \in Coords /\ c.lo[cd] <= cv /\ cv <= c.hi[cd] /\ low \subseteq c.points
  <2> HIDE DEF c, cd
  <2>. QED  BY <1>1, <1>3, <1>4, SplitParts
<1> HIDE DEF c, cd, cv
<1>6. /\ hiOfLow \in Points /\ loOfHigh \in Points
      /\ \A d \in Dims : /\ hiOfLow[d] = IF d = cd THEN cv ELSE c.hi[d]
                         /\ loOfHigh[d] = IF d = cd THEN cv ELSE c.lo[d]
  BY <1>3, <1>4, <1>5 DEF Points
<1>7. /\ node.points = c.points /\ node.cd = cd /\ node.cv = cv
      /\ node.lv = c.lo[cd] /\ node.hv = c.hi[cd]
  OBVIOUS
<1> HIDE DEF hiOfLow, loOfHigh
<1> DEFINE q1 == Append(c.path, "lo")
           q2 == Append(c.path, "hi")
           c1 == Call(q1, low, c.lo, hiOfLow)
           c2 == Call(q2, c.points \ low, loOfHigh, c.hi)
<1>8. /\ q1 \in Paths /\ q2 \in Paths /\ q1 # q2 /\ q1 # c.path /\ q2 # c.path
      /\ q1 # <<>> /\ q2 # <<>>
      /\ \A q \in Paths, side \in {"lo", "hi"} : Append(q, side) \in {q1, q2} => q = c.path
  <2>1. "lo" # "hi"
    OBVIOUS
  <2>. QED  BY <1>3, <2>1, AppendsDiffer
<1>9. /\ c1 \in AllCalls /\ c2 \in AllCalls /\ c1.path = q1 /\ c2.path = q2
      /\ c1.lo = c.lo /\ c1.hi = hiOfLow /\ c2.lo = loOfHigh /\ c2.hi = c.hi
  <2> HIDE DEF q1, q2
  <2>. QED  BY <1>3, <1>5, <1>6, <1>8 DEF Call, AllCalls
<1>10. calls' = <<c1, c2>> \o Tail(calls)
  BY <1>1
<1> HIDE DEF node, c1, c2, q1, q2
<1>11. /\ DOMAIN tree' = DOMAIN tree \cup {c.path} /\ c.path \notin DOMAIN tree
       /\ tree'[c.path] = node /\ \A q \in DOMAIN tree : tree'[q] = tree[q]
       /\ DOMAIN tree \subseteq Paths
  <2>1. c.path \notin DOMAIN tree
    BY <1>2 DEF ModelInv, PathsSound
  <2>2. tree' = WithNode(c.path, node)
    BY <1>1 DEF node
  <2>. QED  BY <2>1, <2>2 DEF WithNode, ModelInv, ModelTypes
<1>12. \A j \in DOMAIN calls' :
         calls'[j] = c1 \/ calls'[j] = c2 \/ \E l \in DOMAIN calls : l # 1 /\ calls'[j] = calls[l]
  <2>1. calls # <<>>
    BY <1>1
  <2>. QED  BY <1>2, <1>9, <1>10, <2>1, TwoCalls
<1>13. PICK C \in [Paths -> Boxes] :
         /\ C[q1].lo = c.lo /\ C[q1].hi = hiOfLow /\ C[q2].lo = loOfHigh /\ C[q2].hi = c.hi
         /\ \A q \in Paths : q # q1 /\ q # q2 => C[q] = B[q]
  <2> DEFINE b1 == [lo |-> c.lo, hi |-> hiOfLow]
             b2 == [lo |-> loOfHigh, hi |-> c.hi]
  <2>1. /\ b1 \in Boxes /\ b2 \in Boxes /\ b1.lo = c.lo /\ b1.hi = hiOfLow
        /\ b2.lo = loOfHigh /\ b2.hi = c.hi
    BY <1>3, <1>6 DEF Boxes
  <2> HIDE DEF b1, b2
  <2> DEFINE C == [B EXCEPT ![q1] = b1, ![q2] = b2]
  <2>2. /\ C \in [Paths -> Boxes] /\ C[q1] = b1 /\ C[q2] = b2
        /\ \A q \in Paths : q # q1 /\ q # q2 => C[q] = B[q]
    BY <1>8, <2>1
  <2>. QED  BY <2>1, <2>2
<1>14. q1 \notin DOMAIN tree /\ q2 \notin DOMAIN tree
  <2>1. \A q \in Paths, side \in {"lo", "hi"} : Append(q, side) \in DOMAIN tree => q \in DOMAIN tree
    BY DEF ModelInv, PathsSound
  <2>. QED  BY <1>3, <1>11, <2>1 DEF q1, q2
<1>15. \A l \in DOMAIN calls : calls[l].path # q1 /\ calls[l].path # q2
  <2>1. \A q \in Paths, side \in {"lo", "hi"}, j \in DOMAIN calls :
          calls[j].path = Append(q, side) => q \in DOMAIN tree
    BY DEF ModelInv, PathsSound
  <2>. QED  BY <1>3, <1>11, <2>1 DEF q1, q2
<1>16. B[c.path].lo = c.lo /\ B[c.path].hi = c.hi
  BY <1>2 DEF BoxesFit
<1>17. ASSUME NEW p \in DOMAIN tree'
       PROVE  BoxFits(C, p)'
  <2>1. CASE p = c.path
    <3>1. C[p].lo = c.lo /\ C[p].hi = c.hi
      <4>1. p \in Paths /\ p # q1 /\ p # q2 /\ B[p].lo = c.lo /\ B[p].hi = c.hi
        BY <1>3, <1>8, <1>16, <2>1
      <4>2. C[p] = B[p]
        BY <1>13, <4>1
      <4>. QED  BY <4>1, <4>2
    <3>2. InBox(c.points, C[p])
      BY <1>3, <3>1 DEF InBox
    <3>3. q1 = Append(p, "lo") /\ q2 = Append(p, "hi")
      BY <2>1 DEF q1, q2
    <3>4. tree'[p] = node /\ pts' = pts
      BY <1>1, <1>11, <2>1
    <3>. QED  BY <1>5, <1>6, <1>7, <1>13, <3>1, <3>2, <3>3, <3>4 DEF BoxFits, InBox
  <2>2. CASE p # c.path
    <3>1. /\ p \in DOMAIN tree /\ p \in Paths /\ tree'[p] = tree[p] /\ pts' = pts
          /\ Append(p, "lo") \in Paths /\ Append(p, "hi") \in Paths
      BY <1>1, <1>11, <2>2, AppendsDiffer
    <3>2. C[p] = B[p]
      BY <1>13, <1>14, <3>1
    <3>3. C[Append(p, "lo")] = B[Append(p, "lo")] /\ C[Append(p, "hi")] = B[Append(p, "hi")]
      BY <1>8, <1>13, <2>2, <3>1
    <3>4. BoxFits(B, p)
      BY <3>1 DEF BoxesFit
    <3>. QED  BY <3>1, <3>2, <3>3, <3>4 DEF BoxFits, IsLeaf, InBox
  <2>. QED  BY <2>1, <2>2
<1>18. ASSUME NEW j \in DOMAIN calls'
       PROVE  C[calls'[j].path].lo = calls'[j].lo /\ C[calls'[j].path].hi = calls'[j].hi
  <2>1. CASE calls'[j] = c1 \/ calls'[j] = c2
    BY <1>9, <1>13, <2>1
  <2>2. CASE \E l \in DOMAIN calls : calls'[j] = calls[l]
    <3>1. PICK l \in DOMAIN calls : calls'[j] = calls[l]
      BY <2>2
    <3>2. calls[l].path \in Paths
      <4>1. calls[l] \in AllCalls
        BY <1>2
      <4>. QED  BY <4>1 DEF AllCalls
    <3>3. C[calls[l].path] = B[calls[l].path]
      BY <1>13, <1>15, <3>1, <3>2
    <3>. QED  BY <3>1, <3>3 DEF BoxesFit
  <2>. QED  BY <1>12, <2>1, <2>2
<1>19. C[<<>>] = B[<<>>]
  <2>1. <<>> \in Paths
    BY DEF Paths
  <2>. QED  BY <1>8, <1>13, <2>1
<1>20. BoxesFit(C)'
  BY <1>1, <1>17, <1>18, <1>19 DEF BoxesFit
<1>. QED  BY <1>13, <1>20

(* The boxes of the printed tree are the printed boxes.                    *)
LEMMA DumpBoxes ==
  ASSUME ModelInv, DumpAndRead, NEW B \in [Paths -> Boxes], BoxesFit(B)
  PROVE  \E C \in [Paths -> Boxes] : BoxesFit(C)'
<1>1. /\ calls = <<>> /\ calls' = calls
      /\ pts' = [i \in Indices |-> PrintedPoint(pts[i])]
      /\ box' = [lo |-> PrintedPoint(box.lo), hi |-> PrintedPoint(box.hi)]
      /\ tree' = [p \in DOMAIN tree |->
                    [tree[p] EXCEPT !.cv = Printed(@), !.lv = Printed(@), !.hv = Printed(@)]]
  BY DEF DumpAndRead, Indices
<1>2. /\ PointsFinite /\ box \in [lo : Points, hi : Points]
      /\ tree \in [DOMAIN tree -> Nodes] /\ DOMAIN tree \subseteq Paths
  BY DEF ModelInv, ModelTypes
<1>3. \A x \in Points :
        PrintedPoint(x) \in Points /\ \A d \in Dims : PrintedPoint(x)[d] = Printed(x[d])
  BY PrintedAssumption DEF PrintedPoint, Points
<1>4. \A i \in Indices, d \in Dims : /\ pts[i][d] \in Coords
                                     /\ pts'[i][d] = Printed(pts[i][d])
  BY <1>1, <1>2, <1>3 DEF PointsFinite, Points
<1>5. \A p \in DOMAIN tree :
        /\ tree[p].points \subseteq Indices /\ tree[p].cd \in 0 .. Dim
        /\ tree[p].cv \in Coords /\ tree[p].lv \in Coords /\ tree[p].hv \in Coords
        /\ tree'[p].points = tree[p].points /\ tree'[p].cd = tree[p].cd
        /\ tree'[p].cv = Printed(tree[p].cv) /\ tree'[p].lv = Printed(tree[p].lv)
        /\ tree'[p].hv = Printed(tree[p].hv)
  <2> TAKE p \in DOMAIN tree
  <2>1. tree[p] \in [points : SUBSET Indices, cd : 0 .. Dim,
                     cv : Coords, lv : Coords, hv : Coords]
    BY <1>2 DEF Nodes
  <2>2. tree'[p] = [tree[p] EXCEPT !.cv = Printed(tree[p].cv), !.lv = Printed(tree[p].lv),
                                   !.hv = Printed(tree[p].hv)]
    BY <1>1, <2>1
  <2> HIDE <1>1
  <2>. QED  BY <2>1, <2>2
<1> DEFINE C == [q \in Paths |-> [lo |-> PrintedPoint(B[q].lo), hi |-> PrintedPoint(B[q].hi)]]
<1>6. \A q \in Paths : B[q].lo \in Points /\ B[q].hi \in Points
  BY DEF Boxes
<1>7. /\ C \in [Paths -> Boxes]
      /\ \A q \in Paths, d \in Dims : /\ B[q].lo[d] \in Coords /\ B[q].hi[d] \in Coords
                                      /\ C[q].lo[d] = Printed(B[q].lo[d])
                                      /\ C[q].hi[d] = Printed(B[q].hi[d])
  <2>1. C \in [Paths -> Boxes]
    BY <1>3, <1>6 DEF Boxes
  <2>2. ASSUME NEW q \in Paths, NEW d \in Dims
        PROVE  /\ B[q].lo[d] \in Coords /\ B[q].hi[d] \in Coords
               /\ C[q].lo[d] = Printed(B[q].lo[d]) /\ C[q].hi[d] = Printed(B[q].hi[d])
    BY <1>3, <1>6 DEF Points
  <2>. QED  BY <2>1, <2>2
<1>8. C[<<>>].lo = box'.lo /\ C[<<>>].hi = box'.hi
  <2>1. <<>> \in Paths
    BY DEF Paths
  <2>2. B[<<>>].lo = box.lo /\ B[<<>>].hi = box.hi
    BY DEF BoxesFit
  <2>. QED  BY <1>1, <2>1, <2>2
<1> HIDE DEF C
<1>9. ASSUME NEW p \in DOMAIN tree
      PROVE  BoxFits(C, p)'
  <2>1. BoxFits(B, p) /\ p \in Paths
    BY <1>2 DEF BoxesFit
  <2>2. Append(p, "lo") \in Paths /\ Append(p, "hi") \in Paths
    BY <2>1, AppendsDiffer
  <2>3. ASSUME NEW i \in tree[p].points, NEW d \in Dims
        PROVE  C[p].lo[d] <= pts'[i][d] /\ pts'[i][d] <= C[p].hi[d]
    <3>1. B[p].lo[d] <= pts[i][d] /\ pts[i][d] <= B[p].hi[d] /\ i \in Indices
      BY <1>5, <2>1 DEF BoxFits, InBox
    <3>. QED  BY <1>4, <1>7, <2>1, <3>1, PrintedAssumption
  <2>4. InBox(tree[p].points, C[p])'
    BY <1>5, <2>3 DEF InBox
  <2>5. ASSUME ~IsLeaf(tree[p])
        PROVE  LET cd == tree'[p].cd
                   low == Append(p, "lo")
                   high == Append(p, "hi")
               IN  /\ tree'[p].lv = C[p].lo[cd] /\ tree'[p].lv <= tree'[p].cv
                   /\ tree'[p].hv = C[p].hi[cd] /\ tree'[p].cv <= tree'[p].hv
                   /\ \A d \in Dims :
                        /\ C[low].lo[d] = C[p].lo[d]
                        /\ C[low].hi[d] = IF d = cd THEN tree'[p].cv ELSE C[p].hi[d]
                        /\ C[high].lo[d] = IF d = cd THEN tree'[p].cv ELSE C[p].lo[d]
                        /\ C[high].hi[d] = C[p].hi[d]
    <3>1. PICK low \in Paths, high \in Paths : low = Append(p, "lo") /\ high = Append(p, "hi")
      BY <2>2
    <3>2. PICK cd : cd = tree[p].cd
      OBVIOUS
    <3>3. cd \in Dims
      BY <1>5, <2>5, <3>2, SizesAssumption DEF IsLeaf, Dims
    <3>4. /\ tree[p].lv = B[p].lo[cd] /\ tree[p].lv <= tree[p].cv
          /\ tree[p].hv = B[p].hi[cd] /\ tree[p].cv <= tree[p].hv
          /\ \A d \in Dims : /\ B[low].lo[d] = B[p].lo[d]
                             /\ B[low].hi[d] = IF d = cd THEN tree[p].cv ELSE B[p].hi[d]
                             /\ B[high].lo[d] = IF d = cd THEN tree[p].cv ELSE B[p].lo[d]
                             /\ B[high].hi[d] = B[p].hi[d]
      BY <2>1, <2>5, <3>1, <3>2 DEF BoxFits
    <3>5. /\ tree'[p].lv = C[p].lo[cd] /\ tree'[p].lv <= tree'[p].cv
          /\ tree'[p].hv = C[p].hi[cd] /\ tree'[p].cv <= tree'[p].hv
      BY <1>5, <1>7, <2>1, <3>3, <3>4, PrintedAssumption
    <3>6. \A d \in Dims : /\ C[low].lo[d] = C[p].lo[d]
                          /\ C[low].hi[d] = IF d = cd THEN tree'[p].cv ELSE C[p].hi[d]
                          /\ C[high].lo[d] = IF d = cd THEN tree'[p].cv ELSE C[p].lo[d]
                          /\ C[high].hi[d] = C[p].hi[d]
      BY <1>5, <1>7, <2>1, <3>4
    <3>. QED  BY <1>5, <3>1, <3>2, <3>5, <3>6
  <2>. QED  BY <1>5, <2>4, <2>5 DEF BoxFits, IsLeaf
<1>10. DOMAIN tree' = DOMAIN tree /\ DOMAIN calls' = {}
  <2>1. DOMAIN <<>> = {}
    OBVIOUS
  <2>. QED  BY <1>1, <2>1
<1>11. BoxesFit(C)'
  BY <1>8, <1>9, <1>10 DEF BoxesFit
<1>. QED  BY <1>7, <1>11

LEMMA SameBoxes ==
  ASSUME NEW B, BoxesFit(B), UNCHANGED model
  PROVE  BoxesFit(B)'
BY DEF BoxesFit, BoxFits, IsLeaf, InBox, model

-------------------------------------------------------------------------------
(* Distances, of points and of boxes.                                      *)

Sides(x, b) == [d \in Dims |-> Square(Outside(x[d], b.lo[d], b.hi[d]))]
Diffs(x, y) == [d \in Dims |-> Square(x[d] - y[d])]
BoxDist(x, b) == SumFunctionOnSet(Sides(x, b), Dims)

LEMMA Squares ==
  /\ \A x \in Int : Square(x) \in Nat
  /\ \A x, y \in Int : (0 <= x /\ x <= y) => Square(x) <= Square(y)
  /\ \A x, y \in Int : Square(x - y) = Square(y - x)
<1>1. ASSUME NEW x \in Int
      PROVE  Square(x) \in Nat
  <2>1. CASE x >= 0
    BY <2>1 DEF Square
  <2>2. CASE x < 0
    <3>1. x * x = (-x) * (-x) /\ -x \in Nat
      BY <2>2
    <3>. QED  BY <3>1 DEF Square
  <2>. QED  BY <2>1, <2>2
<1>2. ASSUME NEW x \in Int, NEW y \in Int, 0 <= x, x <= y
      PROVE  Square(x) <= Square(y)
  <2>1. x * x <= x * y
    BY <1>2
  <2>2. x * y <= y * y
    BY <1>2
  <2>. QED  BY <2>1, <2>2 DEF Square
<1>3. ASSUME NEW x \in Int, NEW y \in Int
      PROVE  Square(x - y) = Square(y - x)
  BY DEF Square
<1>. QED  BY <1>1, <1>2, <1>3

LEMMA CoordsAreInt ==
  \A x \in Points, d \in Dims : x[d] \in Int
BY SizesAssumption DEF Points, Coords

LEMMA SidesType ==
  ASSUME NEW x \in Points, NEW b \in Boxes
  PROVE  \A d \in Dims : /\ Sides(x, b)[d] = Square(Outside(x[d], b.lo[d], b.hi[d]))
                         /\ Outside(x[d], b.lo[d], b.hi[d]) \in Nat
                         /\ Sides(x, b)[d] \in Nat
<1> TAKE d \in Dims
<1>1. x[d] \in Int /\ b.lo[d] \in Int /\ b.hi[d] \in Int
  BY CoordsAreInt DEF Boxes
<1>2. Outside(x[d], b.lo[d], b.hi[d]) \in Nat
  BY <1>1 DEF Outside
<1>3. Sides(x, b)[d] = Square(Outside(x[d], b.lo[d], b.hi[d]))
  BY DEF Sides
<1>. QED  BY <1>2, <1>3, Squares

LEMMA DiffsType ==
  ASSUME NEW x \in Points, NEW y \in Points
  PROVE  \A d \in Dims : Diffs(x, y)[d] = Square(x[d] - y[d]) /\ Diffs(x, y)[d] \in Nat
<1> TAKE d \in Dims
<1>1. x[d] - y[d] \in Int
  BY CoordsAreInt
<1>2. Diffs(x, y)[d] = Square(x[d] - y[d])
  BY DEF Diffs
<1>. QED  BY <1>1, <1>2, Squares

LEMMA DistanceType ==
  ASSUME NEW x \in Points
  PROVE  /\ \A y \in Points : Distance(x, y) \in Int
         /\ \A b \in Boxes : BoxDist(x, b) \in Int
<1>1. ASSUME NEW y \in Points
      PROVE  Distance(x, y) \in Int
  <2>1. \A d \in Dims : Diffs(x, y)[d] \in Int
    BY DiffsType
  <2>2. SumFunctionOnSet(Diffs(x, y), Dims) \in Int
    BY <2>1, DimsFinite, SumIsInt
  <2>. QED  BY <2>2 DEF Distance, Diffs
<1>2. ASSUME NEW b \in Boxes
      PROVE  BoxDist(x, b) \in Int
  <2>1. \A d \in Dims : Sides(x, b)[d] \in Int
    BY SidesType
  <2>. QED  BY <2>1, DimsFinite, SumIsInt DEF BoxDist
<1>. QED  BY <1>1, <1>2

(* No point of a box is closer than the box.                               *)
LEMMA Farther ==
  ASSUME NEW x \in Points, NEW y \in Points, NEW b \in Boxes,
         \A d \in Dims : b.lo[d] <= y[d] /\ y[d] <= b.hi[d]
  PROVE  BoxDist(x, b) <= Distance(x, y)
<1>1. ASSUME NEW d \in Dims
      PROVE  /\ Sides(x, b)[d] \in Int /\ Diffs(x, y)[d] \in Int
             /\ Sides(x, b)[d] <= Diffs(x, y)[d]
  <2> DEFINE o == Outside(x[d], b.lo[d], b.hi[d])
  <2>1. /\ x[d] \in Int /\ y[d] \in Int /\ b.lo[d] \in Int /\ b.hi[d] \in Int
        /\ b.lo[d] <= y[d] /\ y[d] <= b.hi[d]
    BY CoordsAreInt DEF Boxes
  <2>2. (0 <= o /\ o <= x[d] - y[d]) \/ (0 <= o /\ o <= y[d] - x[d])
    BY <2>1 DEF Outside
  <2>3. o \in Int
    BY <2>1 DEF Outside
  <2>4. Sides(x, b)[d] = Square(o) /\ Sides(x, b)[d] \in Nat
    BY SidesType
  <2>5. Diffs(x, y)[d] = Square(x[d] - y[d]) /\ Diffs(x, y)[d] \in Nat
    BY DiffsType
  <2> HIDE DEF o
  <2>6. Square(o) <= Square(x[d] - y[d])
    <3>1. x[d] - y[d] \in Int /\ y[d] - x[d] \in Int
      BY <2>1
    <3>2. Square(x[d] - y[d]) = Square(y[d] - x[d])
      BY <2>1, Squares
    <3>3. CASE 0 <= o /\ o <= x[d] - y[d]
      BY <2>3, <3>1, <3>3, Squares
    <3>4. CASE 0 <= o /\ o <= y[d] - x[d]
      BY <2>3, <3>1, <3>2, <3>4, Squares
    <3>. QED  BY <2>2, <3>3, <3>4
  <2>. QED  BY <2>4, <2>5, <2>6
<1>2. SumFunctionOnSet(Sides(x, b), Dims) <= SumFunctionOnSet(Diffs(x, y), Dims)
  BY <1>1, DimsFinite, SumIsMonotone
<1>. QED  BY <1>2 DEF BoxDist, Distance, Diffs

(* A box that differs from another along one side only.                    *)
LEMMA OneSideDiffers ==
  ASSUME NEW x \in Points, NEW b \in Boxes, NEW c \in Boxes, NEW cd \in Dims,
         \A d \in Dims : d # cd => c.lo[d] = b.lo[d] /\ c.hi[d] = b.hi[d]
  PROVE  BoxDist(x, c) = BoxDist(x, b) - Square(Outside(x[cd], b.lo[cd], b.hi[cd]))
                                       + Square(Outside(x[cd], c.lo[cd], c.hi[cd]))
<1>1. \A d \in Dims : /\ Sides(x, b)[d] \in Int
                      /\ Sides(x, b)[d] = Square(Outside(x[d], b.lo[d], b.hi[d]))
  BY SidesType
<1>2. \A d \in Dims : /\ Sides(x, c)[d] \in Int
                      /\ Sides(x, c)[d] = Square(Outside(x[d], c.lo[d], c.hi[d]))
  BY SidesType
<1>3. \A d \in Dims : d # cd => Sides(x, c)[d] = Sides(x, b)[d]
  BY <1>1, <1>2
<1>4. SumFunctionOnSet(Sides(x, c), Dims)
        = SumFunctionOnSet(Sides(x, b), Dims) - Sides(x, b)[cd] + Sides(x, c)[cd]
  <2>1. PICK f, g : f = Sides(x, b) /\ g = Sides(x, c)
    OBVIOUS
  <2>2. \A d \in Dims : f[d] \in Int /\ g[d] \in Int /\ (d # cd => g[d] = f[d])
    BY <1>1, <1>2, <1>3, <2>1
  <2>3. IsFiniteSet(Dims)
    BY DimsFinite
  <2>4. SumFunctionOnSet(g, Dims) = SumFunctionOnSet(f, Dims) - f[cd] + g[cd]
    BY <2>2, <2>3, SumChanges, SMTT(30)
  <2>. QED  BY <2>1, <2>4
<1>. QED  BY <1>1, <1>2, <1>4 DEF BoxDist

(* FarDistance: the distance of the box beyond the plane, from the one of  *)
(* the box of the node; the box on this side is as far as that of the node.*)
ChildDistances(node, b, low, high) ==
  /\ query[node.cd] < node.cv =>
       /\ BoxDist(query, low) = BoxDist(query, b)
       /\ BoxDist(query, high) = FarDistance(node, BoxDist(query, b))
  /\ ~(query[node.cd] < node.cv) =>
       /\ BoxDist(query, high) = BoxDist(query, b)
       /\ BoxDist(query, low) = FarDistance(node, BoxDist(query, b))

LEMMA ChildBoxes ==
  ASSUME query \in Points, NEW b \in Boxes, NEW low \in Boxes, NEW high \in Boxes,
         NEW cd \in Dims, NEW node,
         node.cd = cd, node.lv = b.lo[cd], node.hv = b.hi[cd], node.cv \in Int,
         node.lv <= node.cv, node.cv <= node.hv,
         \A d \in Dims : /\ low.lo[d] = b.lo[d]
                         /\ low.hi[d] = IF d = cd THEN node.cv ELSE b.hi[d]
                         /\ high.lo[d] = IF d = cd THEN node.cv ELSE b.lo[d]
                         /\ high.hi[d] = b.hi[d]
  PROVE  ChildDistances(node, b, low, high)
<1> DEFINE q  == query[cd]
           cv == node.cv
           lv == b.lo[cd]
           hv == b.hi[cd]
           D  == BoxDist(query, b)
<1>1. q \in Int /\ lv \in Int /\ hv \in Int /\ cv \in Int /\ lv <= cv /\ cv <= hv
  BY CoordsAreInt DEF Boxes
<1>2. D \in Int
  BY DistanceType
<1>3. \A o \in Nat : Square(o) \in Int
  BY Squares
<1>4. BoxDist(query, low) = D - Square(Outside(q, lv, hv)) + Square(Outside(q, lv, cv))
  <2>1. \A d \in Dims : d # cd => low.lo[d] = b.lo[d] /\ low.hi[d] = b.hi[d]
    OBVIOUS
  <2>2. low.lo[cd] = lv /\ low.hi[cd] = cv
    OBVIOUS
  <2>3. BoxDist(query, low) = BoxDist(query, b) - Square(Outside(query[cd], b.lo[cd], b.hi[cd]))
                                           + Square(Outside(query[cd], low.lo[cd], low.hi[cd]))
    BY <2>1, OneSideDiffers
  <2>. QED  BY <2>2, <2>3
<1>5. BoxDist(query, high) = D - Square(Outside(q, lv, hv)) + Square(Outside(q, cv, hv))
  <2>1. \A d \in Dims : d # cd => high.lo[d] = b.lo[d] /\ high.hi[d] = b.hi[d]
    OBVIOUS
  <2>2. high.lo[cd] = cv /\ high.hi[cd] = hv
    OBVIOUS
  <2>3. BoxDist(query, high) = BoxDist(query, b) - Square(Outside(query[cd], b.lo[cd], b.hi[cd]))
                                            + Square(Outside(query[cd], high.lo[cd], high.hi[cd]))
    BY <2>1, OneSideDiffers
  <2>. QED  BY <2>2, <2>3
<1>6. FarDistance(node, D) =
        LET out == IF q - cv < 0 THEN lv - q ELSE q - hv
        IN  D + Square(q - cv) - Square(IF out < 0 THEN 0 ELSE out)
  BY DEF FarDistance
<1>7. Square(cv - q) = Square(q - cv) /\ Square(q - cv) \in Int
  BY <1>1, Squares
<1> HIDE DEF q, cv, lv, hv, D
<1>8. ASSUME q < cv
      PROVE  BoxDist(query, low) = D /\ BoxDist(query, high) = FarDistance(node, D)
  <2> DEFINE o == Outside(q, lv, hv)
  <2>1. /\ o \in Nat /\ Outside(q, lv, cv) = o /\ Outside(q, cv, hv) = cv - q
        /\ o = IF lv - q < 0 THEN 0 ELSE lv - q
    BY <1>1, <1>8 DEF Outside
  <2>2. q - cv < 0
    BY <1>1, <1>8
  <2> HIDE DEF o
  <2>3. FarDistance(node, D) = D + Square(q - cv) - Square(o)
    <3>1. FarDistance(node, D) =
            D + Square(q - cv) - Square(IF lv - q < 0 THEN 0 ELSE lv - q)
      BY <1>6, <2>2
    <3>. QED  BY <2>1, <3>1
  <2>4. /\ BoxDist(query, low) = D - Square(o) + Square(o)
        /\ BoxDist(query, high) = D - Square(o) + Square(cv - q)
    BY <1>4, <1>5, <2>1 DEF o
  <2>5. Square(o) \in Int
    BY <1>3, <2>1
  <2>. QED  BY <1>2, <1>7, <2>3, <2>4, <2>5
<1>9. ASSUME ~(q < cv)
      PROVE  BoxDist(query, high) = D /\ BoxDist(query, low) = FarDistance(node, D)
  <2> DEFINE o == Outside(q, lv, hv)
  <2>1. /\ o \in Nat /\ Outside(q, cv, hv) = o /\ Outside(q, lv, cv) = q - cv
        /\ o = IF q - hv < 0 THEN 0 ELSE q - hv
    BY <1>1, <1>9 DEF Outside
  <2>2. ~(q - cv < 0)
    BY <1>1, <1>9
  <2> HIDE DEF o
  <2>3. FarDistance(node, D) = D + Square(q - cv) - Square(o)
    BY <1>6, <2>1, <2>2
  <2>4. /\ BoxDist(query, high) = D - Square(o) + Square(o)
        /\ BoxDist(query, low) = D - Square(o) + Square(q - cv)
    BY <1>4, <1>5, <2>1 DEF o
  <2>5. Square(o) \in Int
    BY <1>3, <2>1
  <2>. QED  BY <1>2, <1>7, <2>3, <2>4, <2>5
<1>. QED  BY <1>8, <1>9 DEF q, cv, D, ChildDistances

-------------------------------------------------------------------------------
(* What was found, and what a search leaves out.                           *)

(* The distances on the stack are those of the boxes.                      *)
StackFits(B) ==
  phase = "search" =>
    \A j \in DOMAIN stack : stack[j].dist = BoxDist(query, B[stack[j].path])

Kept(i)    == \E m \in DOMAIN infos : infos[m] = i
Awaited(i) == \E j \in DOMAIN stack : i \in Under(stack[j])

(* Once K points were found, the others are to be looked at, or they are   *)
(* not closer than the last of those found.                                *)
FoundInv ==
  phase = "search" =>
    /\ \A j \in DOMAIN infos : keys[j] = Distance(query, pts[infos[j]])
    /\ \A j, l \in DOMAIN keys : j < l => keys[j] <= keys[l]
    /\ Len(infos) = K =>
         \A i \in Indices : Kept(i) \/ Awaited(i) \/ Distance(query, pts[i]) >= keys[K]

NearInv == (\E B \in [Paths -> Boxes] : BoxesFit(B) /\ StackFits(B)) /\ FoundInv

LEMMA QueryTypes ==
  ASSUME ModelInv, SearchInv
  PROVE  /\ query \in Points /\ K \in Nat \ {0}
         /\ \A i \in Indices : pts[i] \in Points /\ Distance(query, pts[i]) \in Int
         /\ Len(infos) \in Nat /\ DOMAIN infos = 1 .. Len(infos)
         /\ \A j \in DOMAIN infos : infos[j] \in Indices
         /\ DOMAIN keys = 1 .. Len(infos) /\ Len(keys) = Len(infos) /\ Len(infos) <= K
<1>1. query \in Points
  BY PointsAssumption DEF SearchInv, SearchTypes
<1>2. \A i \in Indices : pts[i] \in Points
  BY DEF ModelInv, ModelTypes, PointsFinite
<1>3. \A i \in Indices : Distance(query, pts[i]) \in Int
  BY <1>1, <1>2, DistanceType
<1>4. K \in Nat \ {0}
  BY SizesType DEF SearchInv, SearchTypes
<1>5. infos \in Seq(Indices) /\ Len(keys) = Len(infos) /\ Len(infos) <= K
  BY DEF SearchInv, SearchTypes
<1>6. DOMAIN keys = 1 .. Len(keys)
  BY DEF SearchInv, SearchTypes
<1>. QED  BY <1>1, <1>2, <1>3, <1>4, <1>5, <1>6

LEMMA KeysType ==
  ASSUME ModelInv, SearchInv, FoundInv, phase = "search"
  PROVE  \A j \in DOMAIN keys : keys[j] \in Int
BY QueryTypes DEF FoundInv

(* Place: the keys before it are not larger, the keys from it on are.      *)
LEMMA PlaceSorts ==
  ASSUME NEW n \in Nat, DOMAIN keys = 1 .. n, \A j \in 1 .. n : keys[j] \in Int,
         \A j, l \in 1 .. n : j < l => keys[j] <= keys[l], NEW key \in Int
  PROVE  \A j \in 1 .. n : /\ j < Place(key) => keys[j] <= key
                           /\ j >= Place(key) => key < keys[j]
<1> DEFINE S == {0} \cup {j \in DOMAIN keys : keys[j] <= key}
<1>1. S \subseteq 0 .. n /\ S # {}
  OBVIOUS
<1>2. IsFiniteSet(0 .. n)
  BY FS_Interval
<1>3. IsFiniteSet(S) /\ S \in SUBSET Int
  BY <1>1, <1>2, FS_Subset
<1>4. Place(key) = Max(S) + 1
  BY DEF Place
<1>5. \A j \in 1 .. n : j \in S <=> keys[j] <= key
  OBVIOUS
<1> HIDE DEF S
<1>6. Max(S) \in S /\ Max(S) \in 0 .. n /\ \A x \in S : Max(S) >= x
  BY <1>1, <1>3, MaxMember
<1> TAKE j \in 1 .. n
<1>7. ASSUME j < Place(key)
      PROVE  keys[j] <= key
  <2>1. j <= Max(S) /\ Max(S) \in 1 .. n
    BY <1>4, <1>6, <1>7
  <2>2. keys[Max(S)] <= key
    BY <1>5, <1>6, <2>1
  <2>3. keys[j] <= keys[Max(S)]
    <3>1. CASE j = Max(S)
      BY <2>1, <3>1
    <3>2. CASE j < Max(S)
      BY <2>1, <3>2
    <3>. QED  BY <2>1, <3>1, <3>2
  <2>4. keys[j] \in Int /\ keys[Max(S)] \in Int
    BY <2>1
  <2>. QED  BY <2>2, <2>3, <2>4
<1>8. ASSUME j >= Place(key)
      PROVE  key < keys[j]
  <2>1. j \notin S
    BY <1>4, <1>6, <1>8
  <2>. QED  BY <1>5, <2>1
<1>. QED  BY <1>7, <1>8

(* Nothing under an entry is closer than its distance.                     *)
LEMMA UnderIsFarther ==
  ASSUME ModelInv, SearchInv, NEW B \in [Paths -> Boxes], BoxesFit(B), StackFits(B),
         phase = "search", NEW j \in DOMAIN stack, NEW i \in Under(stack[j])
  PROVE  /\ i \in Indices /\ stack[j].dist \in Int
         /\ stack[j].dist <= Distance(query, pts[i])
<1>1. stack[j].path \in DOMAIN tree /\ stack[j].path \in Paths
  BY DEF SearchInv, SearchTypes, ModelInv, ModelTypes
<1>2. PICK p \in Paths : p = stack[j].path /\ p \in DOMAIN tree
  BY <1>1
<1>3. i \in tree[p].points /\ tree[p].points \subseteq Indices
  <2>1. tree[p] \in Nodes
    BY <1>2 DEF ModelInv, ModelTypes
  <2>. QED  BY <1>2, <2>1 DEF Nodes, Under
<1>4. B[p] \in Boxes /\ \A d \in Dims : B[p].lo[d] <= pts[i][d] /\ pts[i][d] <= B[p].hi[d]
  BY <1>2, <1>3 DEF BoxesFit, BoxFits, InBox
<1>5. i \in Indices /\ pts[i] \in Points /\ query \in Points
  BY <1>3, QueryTypes
<1>6. BoxDist(query, B[p]) <= Distance(query, pts[i]) /\ BoxDist(query, B[p]) \in Int
  BY <1>4, <1>5, Farther, DistanceType
<1>. QED  BY <1>2, <1>5, <1>6 DEF StackFits

LEMMA SkipFarNear ==
  ASSUME ModelInv, SearchInv, NearInv, SkipFar
  PROVE  NearInv'
<1>1. /\ phase = "search" /\ stack # <<>> /\ stack' = Tail(stack) /\ phase' = phase
      /\ ~Closer(Head(stack).dist) /\ UNCHANGED <<algorithm, query, keys, infos>>
      /\ UNCHANGED model
  BY DEF SkipFar, Looking
<1>2. /\ 1 \in DOMAIN stack /\ Head(stack) = stack[1]
      /\ \A j \in DOMAIN stack' : j + 1 \in DOMAIN stack /\ stack'[j] = stack[j + 1]
      /\ \A j \in DOMAIN stack : j # 1 => j - 1 \in DOMAIN stack' /\ stack'[j - 1] = stack[j]
  BY <1>1, Popped DEF SearchInv
<1>3. PICK B \in [Paths -> Boxes] : BoxesFit(B) /\ StackFits(B)
  BY DEF NearInv
<1>4. BoxesFit(B)'
  BY <1>1, <1>3, SameBoxes
<1>5. StackFits(B)'
  BY <1>1, <1>2, <1>3 DEF StackFits, BoxDist
<1>6. /\ K' = K /\ Indices' = Indices /\ pts' = pts
      /\ \A x : Under(x)' = tree[x.path].points
  BY <1>1 DEF K, Indices, model, Under
<1>7. ~(Len(infos) < K) /\ ~(Head(stack).dist < keys[K])
  BY <1>1 DEF Closer
<1>8. Len(infos) = K /\ keys[K] \in Int
  <2>1. FoundInv
    BY DEF NearInv
  <2>. QED  BY <1>1, <1>7, <2>1, QueryTypes, KeysType
<1>9. ASSUME NEW i \in Indices
      PROVE  Kept(i) \/ Awaited(i)' \/ Distance(query, pts[i]) >= keys[K]
  <2>1. Kept(i) \/ Awaited(i) \/ Distance(query, pts[i]) >= keys[K]
    BY <1>1, <1>8 DEF NearInv, FoundInv
  <2>2. ASSUME NEW j \in DOMAIN stack, i \in Under(stack[j])
        PROVE  Awaited(i)' \/ Distance(query, pts[i]) >= keys[K]
    <3>1. CASE j = 1
      <4>1. /\ stack[1].dist \in Int /\ stack[1].dist <= Distance(query, pts[i])
            /\ Distance(query, pts[i]) \in Int
        BY <1>1, <1>3, <2>2, <3>1, UnderIsFarther, QueryTypes
      <4>. QED  BY <1>2, <1>7, <1>8, <4>1
    <3>2. CASE j # 1
      <4>1. j - 1 \in DOMAIN stack' /\ stack'[j - 1] = stack[j]
        BY <1>2, <2>2, <3>2
      <4>2. i \in tree'[stack'[j - 1].path].points
        BY <1>1, <2>2, <4>1 DEF Under, model
      <4>. QED  BY <4>1, <4>2 DEF Awaited, Under
    <3>. QED  BY <3>1, <3>2
  <2>. QED  BY <2>1, <2>2 DEF Awaited
<1>10. FoundInv'
  <2>1. \A i : Kept(i)' <=> Kept(i)
    BY <1>1 DEF Kept
  <2>2. /\ \A j \in DOMAIN infos : keys[j] = Distance(query, pts[infos[j]])
        /\ \A j, l \in DOMAIN keys : j < l => keys[j] <= keys[l]
    BY <1>1 DEF NearInv, FoundInv
  <2>. QED  BY <1>1, <1>6, <1>9, <2>1, <2>2 DEF FoundInv, Distance
<1>. QED  BY <1>3, <1>4, <1>5, <1>10 DEF NearInv

(* The new keys and indices go together and are still in order, and the    *)
(* last of K keys has not grown.                                           *)
InsertsKey(i, ks, is) ==
  /\ DOMAIN ks = DOMAIN is
  /\ Len(is) = IF Len(infos) < K THEN Len(infos) + 1 ELSE K
  /\ \A j \in DOMAIN is : is[j] \in Indices /\ ks[j] = Distance(query, pts[is[j]])
  /\ \A j, l \in DOMAIN ks : j < l => ks[j] <= ks[l]
  /\ Len(infos) < K => /\ \E j \in DOMAIN is : is[j] = i
                       /\ \A l \in DOMAIN infos : \E j \in DOMAIN is : is[j] = infos[l]
  /\ Len(infos) = K =>
       /\ ks[K] \in Int /\ ks[K] <= keys[K]
       /\ (\E j \in DOMAIN is : is[j] = i) \/ Distance(query, pts[i]) >= ks[K]
       /\ \A l \in DOMAIN infos : \/ \E j \in DOMAIN is : is[j] = infos[l]
                                  \/ keys[l] >= ks[K]

LEMMA Inserted ==
  ASSUME ModelInv, SearchInv, FoundInv, phase = "search", NEW i \in Indices,
         NotFarther(Distance(query, pts[i])),
         NEW ks, ks = Slid(keys, Place(Distance(query, pts[i])), Distance(query, pts[i])),
         NEW is, is = Slid(infos, Place(Distance(query, pts[i])), i)
  PROVE  InsertsKey(i, ks, is)
<1> DEFINE dist  == Distance(query, pts[i])
           place == Place(dist)
           n     == Len(infos)
<1>1. /\ n \in Nat /\ n <= K /\ K \in Nat \ {0} /\ DOMAIN infos = 1 .. n
      /\ DOMAIN keys = 1 .. n /\ Len(keys) = n /\ dist \in Int
      /\ \A l \in 1 .. n : keys[l] \in Int /\ infos[l] \in Indices
      /\ \A l \in 1 .. n : keys[l] = Distance(query, pts[infos[l]])
      /\ \A j, l \in 1 .. n : j < l => keys[j] <= keys[l]
      /\ infos \in Seq(Indices)
  BY QueryTypes, KeysType DEF FoundInv, SearchInv, SearchTypes
<1>2. n = K => dist <= keys[K]
  BY <1>1 DEF NotFarther
<1>3. place \in 1 .. n + 1
  BY <1>1, PlaceType
<1>4. \A l \in 1 .. n : /\ l < place => keys[l] <= dist
                        /\ l >= place => dist < keys[l]
  BY <1>1, PlaceSorts
<1>5. keys \in Seq(Int)
  <2>1. keys \in [1 .. n -> Int]
    <3>1. PICK T : keys \in Seq(T)
      BY DEF SearchInv, SearchTypes
    <3>2. keys \in [1 .. n -> T]
      BY <1>1, <3>1
    <3>. QED  BY <1>1, <3>2
  <2>. QED  BY <1>1, <2>1
<1> DEFINE m == IF n < K THEN n + 1 ELSE K
<1> HIDE DEF dist, place, n
<1>6. /\ Len(ks) = m /\ ks \in Seq(Int)
      /\ \A j \in DOMAIN ks : /\ j < place => j \in DOMAIN keys /\ ks[j] = keys[j]
                              /\ j = place => ks[j] = dist
                              /\ j > place => j - 1 \in DOMAIN keys /\ ks[j] = keys[j - 1]
  <2>1. /\ ks = Slid(keys, place, dist) /\ Len(keys) <= K /\ place \in 1 .. Len(keys) + 1
        /\ K \in Nat \ {0} /\ dist \in Int
    BY <1>1, <1>3 DEF dist, place
  <2>2. PICK T : keys \in Seq(T) /\ dist \in T /\ T = Int
    BY <1>5, <2>1
  <2>3. ks \in Seq(T) /\ Len(ks) = IF Len(keys) < K THEN Len(keys) + 1 ELSE K
    <3>1. keys \in Seq(T) /\ dist \in T
      BY <2>2
    <3>. QED  BY <2>1, <3>1, SlidEntries
  <2>4. \A j \in DOMAIN ks : /\ j < place => j \in DOMAIN keys /\ ks[j] = keys[j]
                             /\ j = place => ks[j] = dist
                             /\ j > place => j - 1 \in DOMAIN keys /\ ks[j] = keys[j - 1]
    <3>1. keys \in Seq(T) /\ dist \in T
      BY <2>2
    <3>. QED  BY <2>1, <3>1, SlidEntries
  <2>. QED  BY <1>1, <2>2, <2>3, <2>4
<1>7. /\ Len(is) = m /\ is \in Seq(Indices)
      /\ \A j \in DOMAIN is : /\ j < place => j \in DOMAIN infos /\ is[j] = infos[j]
                              /\ j = place => is[j] = i
                              /\ j > place => j - 1 \in DOMAIN infos /\ is[j] = infos[j - 1]
  <2>1. /\ is = Slid(infos, place, i) /\ Len(infos) <= K /\ place \in 1 .. Len(infos) + 1
        /\ K \in Nat \ {0} /\ infos \in Seq(Indices)
    BY <1>1, <1>3 DEF dist, place, n
  <2>2. is \in Seq(Indices) /\ Len(is) = IF Len(infos) < K THEN Len(infos) + 1 ELSE K
    BY <2>1, SlidEntries
  <2>3. \A j \in DOMAIN is : /\ j < place => j \in DOMAIN infos /\ is[j] = infos[j]
                             /\ j = place => is[j] = i
                             /\ j > place => j - 1 \in DOMAIN infos /\ is[j] = infos[j - 1]
    BY <2>1, SlidEntries
  <2>. QED  BY <2>2, <2>3 DEF n
<1>8. m \in Nat /\ m <= n + 1 /\ (n < K => m = n + 1) /\ (n = K => m = K)
  BY <1>1
<1>9. m = IF Len(infos) < K THEN Len(infos) + 1 ELSE K
  BY DEF n
<1> HIDE DEF m
<1>10. DOMAIN ks = 1 .. m /\ DOMAIN is = 1 .. m
  BY <1>6, <1>7
<1>11. \A j \in 1 .. m : /\ j < place => j \in 1 .. n /\ ks[j] = keys[j] /\ is[j] = infos[j]
                         /\ j = place => ks[j] = dist /\ is[j] = i
                         /\ j > place => /\ j - 1 \in 1 .. n
                                         /\ ks[j] = keys[j - 1] /\ is[j] = infos[j - 1]
  BY <1>1, <1>6, <1>7, <1>10
<1>12. ASSUME NEW j \in 1 .. m
       PROVE  is[j] \in Indices /\ ks[j] = Distance(query, pts[is[j]]) /\ ks[j] \in Int
  <2>1. j < place \/ j = place \/ j > place
    BY <1>3, <1>8
  <2>. QED  BY <1>1, <1>11, <2>1 DEF dist
<1>13. ASSUME NEW j \in 1 .. m, NEW l \in 1 .. m, j < l
       PROVE  ks[j] <= ks[l]
  <2>1. j \in Int /\ l \in Int /\ place \in Int
    BY <1>3, <1>8
  <2>2. CASE l < place
    <3>1. j < place /\ j \in 1 .. n /\ l \in 1 .. n
      BY <1>11, <1>13, <2>1, <2>2
    <3>. QED  BY <1>1, <1>11, <1>13, <2>2, <3>1
  <2>3. CASE l = place
    <3>1. j < place /\ j \in 1 .. n
      BY <1>11, <1>13, <2>1, <2>3
    <3>. QED  BY <1>4, <1>11, <2>3, <3>1
  <2>4. CASE l > place /\ j < place
    <3>1. l - 1 \in 1 .. n /\ j \in 1 .. n /\ j < l - 1
      BY <1>11, <2>1, <2>4
    <3>. QED  BY <1>1, <1>11, <2>4, <3>1
  <2>5. CASE l > place /\ j = place
    <3>1. l - 1 \in 1 .. n /\ l - 1 >= place
      BY <1>11, <2>1, <2>5
    <3>. QED  BY <1>1, <1>4, <1>11, <2>5, <3>1
  <2>6. CASE l > place /\ j > place
    <3>1. l - 1 \in 1 .. n /\ j - 1 \in 1 .. n /\ j - 1 < l - 1
      BY <1>11, <1>13, <2>1, <2>6
    <3>. QED  BY <1>1, <1>11, <2>6, <3>1
  <2>. QED  BY <1>13, <2>1, <2>2, <2>3, <2>4, <2>5, <2>6
<1>14. ASSUME NEW l \in 1 .. n
       PROVE  \/ \E j \in 1 .. m : is[j] = infos[l]
              \/ n = K /\ l = K /\ place <= K
  <2>1. CASE l < place /\ l \in 1 .. m
    BY <1>11, <2>1
  <2>2. CASE ~(l < place) /\ l + 1 \in 1 .. m
    <3>1. l + 1 > place /\ (l + 1) - 1 = l
      BY <1>3, <2>2
    <3>. QED  BY <1>11, <2>2, <3>1
  <2>3. CASE ~(l < place) /\ l + 1 \notin 1 .. m
    BY <1>1, <1>3, <1>8, <2>3
  <2>4. CASE l \notin 1 .. m
    BY <1>1, <1>8, <2>4
  <2>. QED  BY <2>1, <2>2, <2>3, <2>4
<1>15. ASSUME n < K
       PROVE  /\ \E j \in DOMAIN is : is[j] = i
              /\ \A l \in DOMAIN infos : \E j \in DOMAIN is : is[j] = infos[l]
  <2>1. place \in 1 .. m
    BY <1>3, <1>8, <1>15
  <2>2. n # K
    BY <1>1, <1>15
  <2>. QED  BY <1>1, <1>10, <1>11, <1>14, <2>1, <2>2
<1>16. ASSUME n = K
       PROVE  /\ ks[K] \in Int /\ ks[K] <= keys[K]
              /\ (\E j \in DOMAIN is : is[j] = i) \/ dist >= ks[K]
              /\ \A l \in DOMAIN infos : \/ \E j \in DOMAIN is : is[j] = infos[l]
                                         \/ keys[l] >= ks[K]
  <2>1. K \in 1 .. m /\ m = K /\ K \in 1 .. n /\ ks[K] \in Int /\ keys[K] \in Int
    BY <1>1, <1>8, <1>12, <1>16
  <2>2. ks[K] <= keys[K]
    <3>1. CASE K < place
      BY <1>11, <2>1, <3>1
    <3>2. CASE K = place
      BY <1>2, <1>11, <1>16, <2>1, <3>2
    <3>3. CASE K > place
      <4>1. K - 1 \in 1 .. n /\ ks[K] = keys[K - 1] /\ K - 1 < K
        BY <1>1, <1>11, <2>1, <3>3
      <4>. QED  BY <1>1, <2>1, <4>1
    <3>. QED  BY <1>1, <1>3, <3>1, <3>2, <3>3
  <2>3. (\E j \in DOMAIN is : is[j] = i) \/ dist >= ks[K]
    <3>1. CASE place \in 1 .. m
      BY <1>10, <1>11, <3>1
    <3>2. CASE place \notin 1 .. m
      <4>1. K < place
        BY <1>3, <2>1, <3>2
      <4>2. ks[K] = keys[K] /\ keys[K] <= dist
        BY <1>4, <1>11, <2>1, <4>1
      <4>. QED  BY <1>1, <2>1, <4>2
    <3>. QED  BY <3>1, <3>2
  <2>4. ASSUME NEW l \in DOMAIN infos
        PROVE  (\E j \in DOMAIN is : is[j] = infos[l]) \/ keys[l] >= ks[K]
    BY <1>1, <1>10, <1>14, <2>1, <2>2, <2>4
  <2>. QED  BY <2>1, <2>2, <2>3, <2>4
<1>. QED  BY <1>6, <1>7, <1>9, <1>10, <1>12, <1>13, <1>15, <1>16 DEF dist, n, InsertsKey

LEMMA VisitLeafNear ==
  ASSUME ModelInv, SearchInv, NearInv, VisitLeaf
  PROVE  NearInv'
<1>1. PICK i \in Indices : LeafVisited(i)
  BY LeafIsVisited
<1> DEFINE dist == Distance(query, pts[i])
<1>2. /\ phase = "search" /\ UNCHANGED <<phase, algorithm, query, pts, tree>>
      /\ 1 \in DOMAIN stack /\ Under(stack[1]) = {i}
      /\ \A j \in DOMAIN stack' : j + 1 \in DOMAIN stack /\ stack'[j] = stack[j + 1]
      /\ \A j \in DOMAIN stack : j # 1 => j - 1 \in DOMAIN stack' /\ stack'[j - 1] = stack[j]
      /\ \/ /\ NotFarther(dist)
            /\ keys' = Slid(keys, Place(dist), dist) /\ infos' = Slid(infos, Place(dist), i)
         \/ ~NotFarther(dist) /\ UNCHANGED <<keys, infos>>
  BY <1>1 DEF LeafVisited
<1>3. UNCHANGED model
  BY DEF VisitLeaf
<1>4. PICK B \in [Paths -> Boxes] : BoxesFit(B) /\ StackFits(B)
  BY DEF NearInv
<1>5. BoxesFit(B)'
  BY <1>3, <1>4, SameBoxes
<1>6. StackFits(B)'
  BY <1>2, <1>4 DEF StackFits, BoxDist
<1>7. K' = K /\ Indices' = Indices /\ FoundInv
  BY <1>2 DEF K, Indices, NearInv
<1>8. \A x : x # i /\ Awaited(x) => Awaited(x)'
  <2>1. \A e : Under(e)' = Under(e)
    BY <1>2 DEF Under
  <2>2. ASSUME NEW x, x # i, NEW j \in DOMAIN stack, x \in Under(stack[j])
        PROVE  \E l \in DOMAIN stack' : x \in Under(stack'[l])
    BY <1>2, <2>2
  <2>. QED  BY <2>1, <2>2 DEF Awaited, Under
<1>9. PICK ks, is : ks = keys' /\ is = infos'
  OBVIOUS
<1>10. \A j \in Indices : Distance(query, pts[j]) \in Int
  BY QueryTypes
<1> HIDE DEF dist
<1>11. CASE ~NotFarther(dist) /\ UNCHANGED <<keys, infos>>
  <2>1. Len(infos) = K /\ dist >= keys[K]
    BY <1>2, <1>7, <1>10, <1>11, QueryTypes, KeysType DEF NotFarther, dist
  <2>2. ASSUME NEW x \in Indices
        PROVE  Kept(x) \/ Awaited(x)' \/ Distance(query, pts[x]) >= keys[K]
    BY <1>2, <1>7, <1>8, <2>1 DEF FoundInv, dist
  <2>3. \A x : Kept(x)' <=> Kept(x)
    BY <1>11 DEF Kept
  <2>4. /\ \A j \in DOMAIN infos : keys[j] = Distance(query, pts[infos[j]])
        /\ \A j, l \in DOMAIN keys : j < l => keys[j] <= keys[l]
    BY <1>2, <1>7 DEF FoundInv
  <2>5. FoundInv'
    BY <1>2, <1>7, <1>11, <2>2, <2>3, <2>4 DEF FoundInv, Distance
  <2>. QED  BY <1>4, <1>5, <1>6, <2>5 DEF NearInv
<1>12. CASE /\ NotFarther(dist)
            /\ keys' = Slid(keys, Place(dist), dist) /\ infos' = Slid(infos, Place(dist), i)
  <2>1. /\ DOMAIN ks = DOMAIN is
        /\ Len(is) = IF Len(infos) < K THEN Len(infos) + 1 ELSE K
        /\ \A j \in DOMAIN is : is[j] \in Indices /\ ks[j] = Distance(query, pts[is[j]])
        /\ \A j, l \in DOMAIN ks : j < l => ks[j] <= ks[l]
        /\ Len(infos) < K => /\ \E j \in DOMAIN is : is[j] = i
                             /\ \A l \in DOMAIN infos : \E j \in DOMAIN is : is[j] = infos[l]
        /\ Len(infos) = K =>
             /\ ks[K] \in Int /\ ks[K] <= keys[K]
             /\ (\E j \in DOMAIN is : is[j] = i) \/ dist >= ks[K]
             /\ \A l \in DOMAIN infos : \/ \E j \in DOMAIN is : is[j] = infos[l]
                                        \/ keys[l] >= ks[K]
    <3>1. /\ ks = Slid(keys, Place(Distance(query, pts[i])), Distance(query, pts[i]))
          /\ is = Slid(infos, Place(Distance(query, pts[i])), i)
          /\ NotFarther(Distance(query, pts[i]))
      BY <1>9, <1>12 DEF dist
    <3>2. InsertsKey(i, ks, is)
      BY <1>2, <1>7, <3>1, Inserted
    <3>. QED  BY <3>2 DEF InsertsKey, dist
  <2>2. /\ Len(infos) \in Nat /\ Len(infos) <= K /\ K \in Nat \ {0}
        /\ DOMAIN keys = 1 .. Len(infos) /\ \A j \in DOMAIN keys : keys[j] \in Int
    BY <1>2, <1>7, QueryTypes, KeysType
  <2>3. ASSUME Len(is) = K, NEW x \in Indices
        PROVE  \/ \E j \in DOMAIN is : is[j] = x
               \/ Awaited(x)'
               \/ Distance(query, pts[x]) >= ks[K]
    <3>1. CASE Len(infos) < K
      <4>1. Kept(x) \/ Awaited(x)
        BY <1>2, <3>1 DEF SearchInv, SearchSound, Kept, Awaited
      <4>. QED  BY <1>8, <2>1, <3>1, <4>1 DEF Kept
    <3>2. CASE Len(infos) = K
      <4>1. /\ ks[K] \in Int /\ ks[K] <= keys[K] /\ keys[K] \in Int
            /\ (\E j \in DOMAIN is : is[j] = i) \/ dist >= ks[K]
            /\ \A l \in DOMAIN infos : \/ \E j \in DOMAIN is : is[j] = infos[l]
                                       \/ keys[l] >= ks[K]
        BY <2>1, <2>2, <3>2
      <4>2. Kept(x) \/ Awaited(x) \/ Distance(query, pts[x]) >= keys[K]
        BY <1>2, <1>7, <3>2 DEF FoundInv
      <4>3. CASE Kept(x)
        <5>1. PICK l \in DOMAIN infos : infos[l] = x
          BY <4>3 DEF Kept
        <5>2. keys[l] = Distance(query, pts[x])
          BY <1>2, <1>7, <5>1 DEF FoundInv
        <5>. QED  BY <4>1, <5>1, <5>2
      <4>4. CASE Awaited(x)
        BY <1>8, <4>1, <4>4 DEF dist
      <4>5. CASE Distance(query, pts[x]) >= keys[K]
        BY <1>10, <4>1, <4>5
      <4>. QED  BY <4>2, <4>3, <4>4, <4>5
    <3>. QED  BY <2>2, <3>1, <3>2
  <2>4. FoundInv'
    <3>1. \A x : Kept(x)' <=> \E j \in DOMAIN is : is[j] = x
      BY <1>9 DEF Kept
    <3>. QED  BY <1>2, <1>7, <1>9, <2>1, <2>3, <3>1 DEF FoundInv, Distance
  <2>. QED  BY <1>4, <1>5, <1>6, <2>4 DEF NearInv
<1>. QED  BY <1>2, <1>11, <1>12

LEMMA VisitSplitNear ==
  ASSUME ModelInv, SearchInv, NearInv, VisitSplit
  PROVE  NearInv'
<1>1. PICK near, far : SplitVisited(near, far)
  BY SplitIsVisited
<1>2. PICK p : p = stack[1].path
  OBVIOUS
<1>3. /\ phase = "search" /\ UNCHANGED <<phase, algorithm, query, keys, infos, pts, tree>>
      /\ 1 \in DOMAIN stack /\ p \in DOMAIN tree /\ ~IsLeaf(tree[p])
      /\ Under(near) \cup Under(far) = Under(stack[1])
      /\ near.path = Append(p, IF query[tree[p].cd] < tree[p].cv THEN "lo" ELSE "hi")
      /\ far.path = Append(p, IF query[tree[p].cd] < tree[p].cv THEN "hi" ELSE "lo")
      /\ near.dist = stack[1].dist /\ far.dist = FarDistance(tree[p], stack[1].dist)
      /\ 1 \in DOMAIN stack' /\ 2 \in DOMAIN stack' /\ stack'[1] = near /\ stack'[2] = far
      /\ \A j \in DOMAIN stack' :
           j # 1 /\ j # 2 => j - 1 \in DOMAIN stack /\ stack'[j] = stack[j - 1]
      /\ \A j \in DOMAIN stack : j # 1 => j + 1 \in DOMAIN stack' /\ stack'[j + 1] = stack[j]
  BY <1>1, <1>2 DEF SplitVisited
<1>4. UNCHANGED model
  BY DEF VisitSplit
<1>5. PICK B \in [Paths -> Boxes] : BoxesFit(B) /\ StackFits(B)
  BY DEF NearInv
<1>6. BoxesFit(B)'
  BY <1>4, <1>5, SameBoxes
<1>7. p \in Paths /\ tree[p] \in Nodes /\ tree[p].cd \in Dims /\ tree[p].cv \in Int
  <2>1. p \in Paths /\ tree[p] \in Nodes
    BY <1>3 DEF ModelInv, ModelTypes
  <2>2. tree[p].cd \in 0 .. Dim /\ tree[p].cv \in Coords
    BY <2>1 DEF Nodes
  <2>. QED  BY <1>3, <2>1, <2>2, SizesAssumption DEF IsLeaf, Dims, Coords
<1>8. PICK low, high : low = Append(p, "lo") /\ high = Append(p, "hi")
  OBVIOUS
<1>9. low \in Paths /\ high \in Paths
  BY <1>7, <1>8, AppendsDiffer
<1>10. PICK node : node = tree[p]
  OBVIOUS
<1>11. /\ node.lv = B[p].lo[node.cd] /\ node.lv <= node.cv
       /\ node.hv = B[p].hi[node.cd] /\ node.cv <= node.hv
       /\ \A d \in Dims : /\ B[low].lo[d] = B[p].lo[d]
                          /\ B[low].hi[d] = IF d = node.cd THEN node.cv ELSE B[p].hi[d]
                          /\ B[high].lo[d] = IF d = node.cd THEN node.cv ELSE B[p].lo[d]
                          /\ B[high].hi[d] = B[p].hi[d]
  BY <1>3, <1>5, <1>8, <1>10 DEF BoxesFit, BoxFits
<1>12. stack[1].dist = BoxDist(query, B[p])
  BY <1>2, <1>3, <1>5 DEF StackFits
<1>13. /\ query[node.cd] < node.cv =>
            /\ BoxDist(query, B[low]) = BoxDist(query, B[p])
            /\ BoxDist(query, B[high]) = FarDistance(node, BoxDist(query, B[p]))
       /\ ~(query[node.cd] < node.cv) =>
            /\ BoxDist(query, B[high]) = BoxDist(query, B[p])
            /\ BoxDist(query, B[low]) = FarDistance(node, BoxDist(query, B[p]))
  <2>1. PICK cd \in Dims : cd = node.cd
    BY <1>7, <1>10
  <2>2. query \in Points /\ node.cv \in Int
    BY <1>7, <1>10, QueryTypes
  <2>3. PICK b \in Boxes, lb \in Boxes, hb \in Boxes : b = B[p] /\ lb = B[low] /\ hb = B[high]
    BY <1>7, <1>9
  <2>4. /\ node.lv = b.lo[cd] /\ node.lv <= node.cv /\ node.hv = b.hi[cd] /\ node.cv <= node.hv
        /\ \A d \in Dims : /\ lb.lo[d] = b.lo[d]
                           /\ lb.hi[d] = IF d = cd THEN node.cv ELSE b.hi[d]
                           /\ hb.lo[d] = IF d = cd THEN node.cv ELSE b.lo[d]
                           /\ hb.hi[d] = b.hi[d]
    BY <1>11, <2>1, <2>3
  <2>5. ChildDistances(node, b, lb, hb)
    BY <2>1, <2>2, <2>4, ChildBoxes
  <2>. QED  BY <2>3, <2>5 DEF ChildDistances
<1>14. near.dist = BoxDist(query, B[near.path]) /\ far.dist = BoxDist(query, B[far.path])
  <2>1. CASE query[node.cd] < node.cv
    BY <1>3, <1>8, <1>10, <1>12, <1>13, <2>1
  <2>2. CASE ~(query[node.cd] < node.cv)
    BY <1>3, <1>8, <1>10, <1>12, <1>13, <2>2
  <2>. QED  BY <2>1, <2>2
<1>15. StackFits(B)'
  <2>1. ASSUME NEW j \in DOMAIN stack'
        PROVE  stack'[j].dist = BoxDist(query, B[stack'[j].path])
    <3>1. CASE j = 1 \/ j = 2
      BY <1>3, <1>14, <3>1
    <3>2. CASE j # 1 /\ j # 2
      BY <1>3, <1>5, <3>2 DEF StackFits
    <3>. QED  BY <3>1, <3>2
  <2>. QED  BY <1>3, <2>1 DEF StackFits, BoxDist
<1>16. \A x : Awaited(x) => Awaited(x)'
  <2>1. \A e : Under(e)' = Under(e)
    BY <1>3 DEF Under
  <2>2. ASSUME NEW x, NEW j \in DOMAIN stack, x \in Under(stack[j])
        PROVE  \E l \in DOMAIN stack' : x \in Under(stack'[l])
    <3>1. CASE j = 1
      BY <1>3, <2>2, <3>1
    <3>2. CASE j # 1
      BY <1>3, <2>2, <3>2
    <3>. QED  BY <3>1, <3>2
  <2>. QED  BY <2>1, <2>2 DEF Awaited, Under
<1>17. FoundInv'
  <2>1. K' = K /\ Indices' = Indices /\ FoundInv /\ \A x : Kept(x)' <=> Kept(x)
    BY <1>3 DEF K, Indices, NearInv, Kept
  <2>. QED  BY <1>3, <1>16, <2>1 DEF FoundInv, Distance
<1>. QED  BY <1>5, <1>6, <1>15, <1>17 DEF NearInv

(* A search starts with the whole tree.                                    *)
LEMMA StartNear ==
  ASSUME ModelInv, SearchInv, NearInv, NEW q \in Queries, NEW a \in Algorithms, Search(q, a)
  PROVE  NearInv'
<1>1. /\ query' = q /\ infos' = <<>> /\ keys' = <<>> /\ UNCHANGED model
      /\ \/ phase' = "ready"
         \/ /\ phase' = "search"
            /\ stack' = <<[path |-> <<>>, dist |-> BoxDistance(q), far |-> FALSE]>>
  BY DEF Search
<1>2. PICK B \in [Paths -> Boxes] : BoxesFit(B) /\ StackFits(B)
  BY DEF NearInv
<1>3. BoxesFit(B)'
  BY <1>1, <1>2, SameBoxes
<1>4. ASSUME phase' = "search"
      PROVE  StackFits(B)'
  <2>1. BoxDistance(q) = BoxDist(q, box)
    BY DEF BoxDistance, BoxDist, Sides
  <2>2. B[<<>>] = box
    <3>1. <<>> \in Paths /\ box \in Boxes
      BY DEF Paths, ModelInv, ModelTypes, Boxes
    <3>2. B[<<>>] \in Boxes /\ B[<<>>].lo = box.lo /\ B[<<>>].hi = box.hi
      BY <1>2, <3>1 DEF BoxesFit
    <3>. QED  BY <3>1, <3>2 DEF Boxes
  <2>3. PICK e : e = [path |-> <<>>, dist |-> BoxDistance(q), far |-> FALSE]
    OBVIOUS
  <2>4. stack' = <<e>>
    BY <1>1, <1>4, <2>3
  <2>5. DOMAIN stack' = {1} /\ stack'[1].dist = BoxDist(q, B[<<>>]) /\ stack'[1].path = <<>>
    BY <2>1, <2>2, <2>3, <2>4
  <2>. QED  BY <1>1, <2>5 DEF StackFits, BoxDist
<1>5. FoundInv'
  <2>1. DOMAIN infos' = {} /\ DOMAIN keys' = {} /\ Len(infos') = 0
    <3>1. DOMAIN <<>> = {} /\ Len(<<>>) = 0
      OBVIOUS
    <3>. QED  BY <1>1, <3>1
  <2>2. K' # 0
    <3>1. SearchInv'
      BY StartSearch
    <3>2. (algorithm \in 1 .. 3)'
      BY <3>1 DEF SearchInv, SearchTypes
    <3>. QED  BY <3>2, SizesAssumption DEF K, Extra
  <2>. QED  BY <2>1, <2>2 DEF FoundInv
<1>. QED  BY <1>1, <1>2, <1>3, <1>4, <1>5 DEF NearInv, StackFits

LEMMA NearInit == Init => NearInv
<1> SUFFICES ASSUME Init PROVE NearInv
  OBVIOUS
<1>1. phase = "build"
  BY DEF Init
<1>2. \E B \in [Paths -> Boxes] : BoxesFit(B)
  BY BoxesInit
<1>. QED  BY <1>1, <1>2 DEF NearInv, StackFits, FoundInv

LEMMA NearStep == ModelInv /\ SearchInv /\ NearInv /\ [Next]_vars => NearInv'
<1> SUFFICES ASSUME ModelInv, SearchInv, NearInv, [Next]_vars PROVE NearInv'
  OBVIOUS
<1>1. PICK B \in [Paths -> Boxes] : BoxesFit(B)
  BY DEF NearInv
<1>2. CASE MakeLeaf \/ Split \/ DumpAndRead
  <2>1. \E C \in [Paths -> Boxes] : BoxesFit(C)'
    BY <1>1, <1>2, LeafBoxes, SplitBoxes, DumpBoxes
  <2>2. phase' # "search"
    BY <1>2 DEF MakeLeaf, Split, DumpAndRead
  <2>. QED  BY <2>1, <2>2 DEF NearInv, StackFits, FoundInv
<1>3. ASSUME NEW q \in Queries, NEW a \in Algorithms, Search(q, a)
      PROVE  NearInv'
  BY <1>3, StartNear
<1>4. CASE SkipFar
  BY <1>4, SkipFarNear
<1>5. CASE VisitLeaf
  BY <1>5, VisitLeafNear
<1>6. CASE VisitSplit
  BY <1>6, VisitSplitNear
<1>7. CASE SearchDone \/ ChooseNeighbour \/ Classified
  <2>1. UNCHANGED model /\ phase' # "search"
    BY <1>7 DEF SearchDone, ChooseNeighbour, Classified
  <2>2. BoxesFit(B)'
    BY <1>1, <2>1, SameBoxes
  <2>. QED  BY <2>1, <2>2 DEF NearInv, StackFits, FoundInv
<1>8. CASE UNCHANGED vars
  <2>1. PICK C \in [Paths -> Boxes] : BoxesFit(C) /\ StackFits(C)
    BY DEF NearInv
  <2>2. BoxesFit(C)'
    BY <1>8, <2>1, SameBoxes DEF vars
  <2>3. StackFits(C)'
    BY <1>8, <2>1 DEF vars, search, StackFits, BoxDist
  <2>4. FoundInv'
    BY <1>8 DEF vars, search, model, NearInv, FoundInv, Kept, Awaited, Under, K, Indices, Distance
  <2>. QED  BY <2>2, <2>3, <2>4 DEF NearInv
<1>. QED  BY <1>2, <1>3, <1>4, <1>5, <1>6, <1>7, <1>8 DEF Next

(* Nearest: the search finds the K nearest points in the order of their    *)
(* distances, although it passes over every subtree whose box it takes to  *)
(* be too far.  The distance of a box is computed from that of the box     *)
(* around it and the sides that the node stores, and it never exceeds the  *)
(* distance of a point in the box, also after the coordinates of the tree  *)
(* and of the points have been rounded.                                    *)
THEOREM NearestAreFound == Spec => []Nearest
<1>1. Init => ModelInv /\ SearchInv /\ NearInv
  BY ModelInit, SearchInit, NearInit
<1>2. (ModelInv /\ SearchInv /\ NearInv) /\ [Next]_vars => (ModelInv /\ SearchInv /\ NearInv)'
  BY ModelStep, SearchStep, NearStep
<1>3. ASSUME ModelInv, SearchInv, NearInv
      PROVE  Nearest
  <2> SUFFICES ASSUME phase = "search", stack = <<>>
               PROVE  /\ Len(infos) = K
                      /\ \A j \in 1 .. K : keys[j] = Distance(query, pts[infos[j]])
                      /\ \A j, l \in 1 .. K : j < l => keys[j] <= keys[l] /\ infos[j] # infos[l]
                      /\ \A i \in Indices : \/ i \in {infos[j] : j \in 1 .. K}
                                            \/ Distance(query, pts[i]) >= keys[K]
    BY DEF Nearest
  <2>1. Len(infos) = K /\ \A j, l \in 1 .. K : j # l => infos[j] # infos[l]
    BY <1>3, FoundAll
  <2>2. DOMAIN infos = 1 .. K /\ DOMAIN keys = 1 .. K /\ K \in Nat
    BY <1>3, <2>1, QueryTypes
  <2>3. \A i : ~Awaited(i)
    <3>1. DOMAIN <<>> = {}
      OBVIOUS
    <3>. QED  BY <3>1 DEF Awaited
  <2>4. /\ \A j \in 1 .. K : keys[j] = Distance(query, pts[infos[j]])
        /\ \A j, l \in 1 .. K : j < l => keys[j] <= keys[l]
        /\ \A i \in Indices : Kept(i) \/ Distance(query, pts[i]) >= keys[K]
    BY <1>3, <2>1, <2>2, <2>3 DEF NearInv, FoundInv
  <2>5. \A i : Kept(i) => i \in {infos[j] : j \in 1 .. K}
    BY <2>2 DEF Kept
  <2>. QED  BY <2>1, <2>2, <2>4, <2>5
<1>. QED  BY <1>1, <1>2, <1>3, PTL DEF Spec

===============================================================================
