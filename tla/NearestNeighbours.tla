--------------------------- MODULE NearestNeighbours ---------------------------
(***************************************************************************)
(* A model of the native classifier: the points that a recorded movement   *)
(* passed, in their order, and a kd-tree over them.  buildTree makes the   *)
(* tree by sliding midpoint splits with one point to a leaf and dumps it   *)
(* to a text file, which rounds every coordinate; loadModels reads it      *)
(* back.  Classifier::classify asks the tree for the neighbours of a point *)
(* and looks at where the movement went on from each of them: at the next  *)
(* rows of the model, which the last points do not have.                   *)
(*                                                                         *)
(* A coordinate is an integer: a midpoint is rounded down, distances are   *)
(* exact.  The recursion of rkd_tree and of ann_search is a stack.  Which  *)
(* of the points on a cutting plane go to its low side depends on how      *)
(* annPlaneSplit swaps them and is left open here.                         *)
(***************************************************************************)
EXTENDS Integers, Sequences, FiniteSets, FiniteSetsExt, Functions

CONSTANTS
  Dim,            (* pcaembdim                                             *)
  Lowest, Highest,      (* Bounds of a coordinate.                         *)
  PointArrays,    (* The models: arrays of points.                         *)
  Queries,        (* The points whose neighbours are asked for.            *)
  Algorithms,     (* The numbers of the algorithms of Classifier.          *)
  NumNeighbours, MatchSteps,
  Printed(_)      (* A coordinate written with %.8G and read again.        *)

Dims   == 1 .. Dim
Coords == Lowest .. Highest
Points == [Dims -> Coords]

ASSUME SizesAssumption ==
  /\ Dim \in Nat \ {0} /\ Lowest \in Int /\ Highest \in Int
  /\ NumNeighbours \in Nat \ {0} /\ MatchSteps \in 1 .. 32
  /\ Algorithms \subseteq 1 .. 3
ASSUME PointsAssumption ==
  /\ Queries \subseteq Points /\ Queries # {}
  /\ \A a \in PointArrays :
       /\ IsFiniteSet(DOMAIN a) /\ DOMAIN a # {}
       /\ DOMAIN a = 0 .. Cardinality(DOMAIN a) - 1
       /\ a \in [DOMAIN a -> Points]
ASSUME PrintedAssumption ==
  \A x, y \in Coords : Printed(x) \in Coords /\ (x <= y => Printed(x) <= Printed(y))

VARIABLES
  phase,          (* "build", "ready", "search" or "choose".               *)
  pts, box,       (* The points, and the box around them.                  *)
  tree, calls,    (* The nodes by their path from the root, and the calls  *)
                  (* of rkd_tree that are still to be made.                *)
  algorithm, query,
  stack,          (* The nodes that ann_search is still to look at.        *)
  keys, infos,    (* ANNmin_k: the distances and indices found so far.     *)
  nn_idx, chosen, (* The neighbours, and how many of them are done with.   *)
  rows,           (* The rows of the model that were just read.            *)
  died            (* What ended the process, or "no".                      *)

model  == <<pts, box, tree, calls>>
search == <<algorithm, query, stack, keys, infos>>
use    == <<nn_idx, chosen, rows>>
vars   == <<phase, model, search, use, died>>

Dies(cause) == died' = cause

N == Cardinality(DOMAIN pts)                (* n_pts, and TDEModel::length *)

-------------------------------------------------------------------------------
(* Building the tree.                                                      *)

Along(S, d)  == {pts[i][d] : i \in S}
Spread(S, d) == Max(Along(S, d)) - Min(Along(S, d))
Side(b, d)   == b.hi[d] - b.lo[d]

(* The sides within ERR of the longest; of those the first along which the *)
(* points spread most.                                                     *)
LongSides(b) == {d \in Dims : \A e \in Dims : 1000 * Side(b, d) >= 999 * Side(b, e)}
CutDim(S, b) ==
  LET widest == {d \in LongSides(b) : \A e \in LongSides(b) : Spread(S, d) >= Spread(S, e)}
  IN  CHOOSE d \in widest : \A e \in widest : d <= e

Middle(b, d) == (b.lo[d] + b.hi[d]) \div 2

(* The middle of the box, slid to the points if they are all on one side.  *)
CutVal(S, b, d) ==
  IF Middle(b, d) < Min(Along(S, d)) THEN Min(Along(S, d))
  ELSE IF Middle(b, d) > Max(Along(S, d)) THEN Max(Along(S, d))
  ELSE Middle(b, d)

Below(S, d, cv) == {i \in S : pts[i][d] < cv}
On(S, d, cv)    == {i \in S : pts[i][d] = cv}

(* Mutant: midpt_split, which does not slide.                              *)
LowCountUnslid(S, b, d, cv) ==
  LET half == Cardinality(S) \div 2
      br1  == Cardinality(Below(S, d, Middle(b, d)))
      br2  == br1 + Cardinality(On(S, d, Middle(b, d)))
  IN  IF br1 > half THEN br1 ELSE IF br2 < half THEN br2 ELSE half

(* n_lo: how many points go to the low side of the plane.                  *)
LowCount(S, b, d, cv) ==
  LET half == Cardinality(S) \div 2
      br1  == Cardinality(Below(S, d, cv))
      br2  == br1 + Cardinality(On(S, d, cv))
  IN  IF Middle(b, d) < Min(Along(S, d)) THEN 1
      ELSE IF Middle(b, d) > Max(Along(S, d)) THEN Cardinality(S) - 1
      ELSE IF br1 > half THEN br1 ELSE IF br2 < half THEN br2 ELSE half

LowSides(S, b, d, cv) ==
  {Below(S, d, cv) \cup ties : ties \in
     {t \in SUBSET On(S, d, cv) :
        Cardinality(Below(S, d, cv)) + Cardinality(t) = LowCount(S, b, d, cv)}}

(* A leaf has no cutting dimension.  Every node names its points, although *)
(* only a leaf stores them.                                                *)
Leaf(S) == [points |-> S, cd |-> 0, cv |-> Lowest, lv |-> Lowest, hv |-> Lowest]
IsLeaf(node) == node.cd = 0

Call(p, S, lo, hi) == [path |-> p, points |-> S, lo |-> lo, hi |-> hi]

WithNode(p, node) == [q \in DOMAIN tree \cup {p} |-> IF q = p THEN node ELSE tree[q]]

(* rkd_tree with at most one point; with none it gives the trivial leaf.   *)
MakeLeaf ==
  /\ phase = "build" /\ calls # <<>> /\ Cardinality(Head(calls).points) <= 1
  /\ tree' = WithNode(Head(calls).path, Leaf(Head(calls).points))
  /\ calls' = Tail(calls)
  /\ UNCHANGED <<phase, pts, box, search, use, died>>

(* Mutant: the bound is not restored after the low subtree.                *)
SplitUnrestored ==
  /\ phase = "build" /\ calls # <<>> /\ Cardinality(Head(calls).points) > 1
  /\ LET c  == Head(calls)
         cd == CutDim(c.points, c)
         cv == CutVal(c.points, c, cd)
     IN
     \E low \in LowSides(c.points, c, cd, cv) :
       /\ tree' = WithNode(c.path, [points |-> c.points, cd |-> cd, cv |-> cv,
                                    lv |-> c.lo[cd], hv |-> c.hi[cd]])
       /\ calls' = <<Call(Append(c.path, "lo"), low, c.lo, [c.hi EXCEPT ![cd] = cv]),
                     Call(Append(c.path, "hi"), c.points \ low,
                          [c.lo EXCEPT ![cd] = cv], [c.hi EXCEPT ![cd] = cv])>>
                   \o Tail(calls)
  /\ UNCHANGED <<phase, pts, box, search, use, died>>

Split ==
  /\ phase = "build" /\ calls # <<>> /\ Cardinality(Head(calls).points) > 1
  /\ LET c  == Head(calls)
         cd == CutDim(c.points, c)
         cv == CutVal(c.points, c, cd)
     IN
     \E low \in LowSides(c.points, c, cd, cv) :
       /\ tree' = WithNode(c.path, [points |-> c.points, cd |-> cd, cv |-> cv,
                                    lv |-> c.lo[cd], hv |-> c.hi[cd]])
       /\ calls' = <<Call(Append(c.path, "lo"), low, c.lo, [c.hi EXCEPT ![cd] = cv]),
                     Call(Append(c.path, "hi"), c.points \ low,
                          [c.lo EXCEPT ![cd] = cv], c.hi)>>
                   \o Tail(calls)
  /\ UNCHANGED <<phase, pts, box, search, use, died>>

(* DumpTree, then annReadDump by the next loadModels: the same nodes, with *)
(* every coordinate as it was printed.                                     *)
PrintedPoint(x) == [d \in Dims |-> Printed(x[d])]

DumpAndRead ==
  /\ phase = "build" /\ calls = <<>> /\ phase' = "ready"
  /\ pts' = [i \in DOMAIN pts |-> PrintedPoint(pts[i])]
  /\ box' = [lo |-> PrintedPoint(box.lo), hi |-> PrintedPoint(box.hi)]
  /\ tree' = [p \in DOMAIN tree |->
                [tree[p] EXCEPT !.cv = Printed(@), !.lv = Printed(@), !.hv = Printed(@)]]
  /\ UNCHANGED <<calls, search, use, died>>

-------------------------------------------------------------------------------
(* Searching it.                                                           *)

Square(x) == x * x
Distance(x, y) == SumFunctionOnSet([d \in Dims |-> Square(x[d] - y[d])], Dims)

(* How far x is outside of lo .. hi.                                       *)
Outside(x, lo, hi) == IF x < lo THEN lo - x ELSE IF x > hi THEN x - hi ELSE 0
BoxDistance(x) ==
  SumFunctionOnSet([d \in Dims |-> Square(Outside(x[d], box.lo[d], box.hi[d]))], Dims)

Extra(a) == IF a = 1 THEN 0 ELSE IF a = 2 THEN 32 ELSE 5    (* neighbours  *)

(* num_neighbours + extra + 1, as annkSearch is asked for.                 *)
K == NumNeighbours + Extra(algorithm) + 1

(* annkSearch gives up on more neighbours than points.                     *)
Search(q, a) ==
  /\ phase = "ready"
  /\ algorithm' = a /\ query' = q
  /\ keys' = <<>> /\ infos' = <<>>
  /\ IF NumNeighbours + Extra(a) + 1 > N
     THEN Dies("tooManyNeighbours") /\ UNCHANGED <<phase, stack>>
     ELSE /\ phase' = "search" /\ UNCHANGED died
          /\ stack' = <<[path |-> <<>>, dist |-> BoxDistance(q), far |-> FALSE]>>
  /\ UNCHANGED <<model, use>>

(* Compared with max_key, which is infinite before K points are found.     *)
Closer(dist)     == IF Len(infos) < K THEN TRUE ELSE dist < keys[K]
NotFarther(dist) == IF Len(infos) < K THEN TRUE ELSE dist <= keys[K]

Looking == phase = "search" /\ stack # <<>>

(* The far child is not visited if its box is not closer than the last of  *)
(* the points found by then.                                               *)
SkipFar ==
  /\ Looking /\ Head(stack).far /\ ~Closer(Head(stack).dist)
  /\ stack' = Tail(stack)
  /\ UNCHANGED <<phase, model, algorithm, query, keys, infos, use, died>>

Visits == Looking /\ (Head(stack).far => Closer(Head(stack).dist))

(* ANNmin_k::insert: behind the keys that are not larger; the larger keys  *)
(* slide up, and the last may fall out.                                    *)
Place(key) == Max({0} \cup {j \in DOMAIN keys : keys[j] <= key}) + 1

(* Mutant: the last never falls out.                                       *)
SlidOut(s, place, x) ==
  [j \in 1 .. Len(s) + 1 |->
     IF j < place THEN s[j] ELSE IF j = place THEN x ELSE s[j - 1]]

Slid(s, place, x) ==
  [j \in 1 .. (IF Len(s) < K THEN Len(s) + 1 ELSE K) |->
     IF j < place THEN s[j] ELSE IF j = place THEN x ELSE s[j - 1]]

(* The trivial leaf is not there: buildTree has closed the library.        *)
VisitLeaf ==
  /\ Visits
  /\ LET node == tree[Head(stack).path] IN
     /\ IsLeaf(node)
     /\ stack' = Tail(stack)
     /\ IF node.points = {} THEN Dies("trivialLeaf") /\ UNCHANGED <<keys, infos>>
        ELSE \E i \in node.points :
               LET dist == Distance(query, pts[i]) IN
               /\ IF NotFarther(dist)
                  THEN /\ keys' = Slid(keys, Place(dist), dist)
                       /\ infos' = Slid(infos, Place(dist), i)
                  ELSE UNCHANGED <<keys, infos>>
               /\ UNCHANGED died
  /\ UNCHANGED <<phase, model, algorithm, query, use>>

(* Mutant: what the box already was away along this side counts twice.     *)
FarDistanceTwice(node, dist) == dist + Square(query[node.cd] - node.cv)

(* The distance to the far box, from that of the box of the node.          *)
FarDistance(node, dist) ==
  LET diff == query[node.cd] - node.cv
      out  == IF diff < 0 THEN node.lv - query[node.cd] ELSE query[node.cd] - node.hv
  IN  dist + Square(diff) - Square(IF out < 0 THEN 0 ELSE out)

VisitSplit ==
  /\ Visits
  /\ LET e    == Head(stack)
         node == tree[e.path]
         near == IF query[node.cd] < node.cv THEN "lo" ELSE "hi"
         far  == IF query[node.cd] < node.cv THEN "hi" ELSE "lo"
     IN
     /\ ~IsLeaf(node)
     /\ stack' = <<[path |-> Append(e.path, near), dist |-> e.dist, far |-> FALSE],
                   [path |-> Append(e.path, far), dist |-> FarDistance(node, e.dist),
                    far |-> TRUE]>> \o Tail(stack)
  /\ UNCHANGED <<phase, model, algorithm, query, keys, infos, use, died>>

NullIdx == -1

SearchDone ==
  /\ phase = "search" /\ stack = <<>> /\ phase' = "choose"
  /\ nn_idx' = [l \in 1 .. K |-> IF l <= Len(infos) THEN infos[l] ELSE NullIdx]
  /\ chosen' = 0 /\ rows' = {}
  /\ keys' = <<>> /\ infos' = <<>>
  /\ UNCHANGED <<model, algorithm, query, stack, died>>

-------------------------------------------------------------------------------
(* Classifier::classify: the successors of the neighbours.                 *)

(* Mutant: off by one.                                                     *)
BadLate(i) ==
  \/ algorithm = 1 /\ i = N
  \/ algorithm = 2 /\ N > MatchSteps /\ i > N - MatchSteps
  \/ algorithm = 3 /\ (i >= N - 2 \/ i = 0)

(* Neighbours that the algorithm cannot use, for want of rows around them. *)
Bad(i) ==
  \/ algorithm = 1 /\ i = N - 1
  \/ algorithm = 2 /\ N > MatchSteps /\ i > N - MatchSteps - 1
  \/ algorithm = 3 /\ (i >= N - 3 \/ i = 0)

(* Mutant: the last neighbour proper stands in.                            *)
GoodSameAgain(l) ==
  LET spare(a) == IF a = 0 THEN nn_idx[l] ELSE nn_idx[NumNeighbours + a - 1]
      good == {a \in 0 .. (IF algorithm = 1 THEN 1 ELSE Extra(algorithm) - 1) : ~Bad(spare(a))}
  IN
  IF algorithm = 1 THEN (IF Bad(nn_idx[l]) THEN spare(1) ELSE nn_idx[l])
  ELSE IF good = {} THEN 0 ELSE spare(Min(good))

(* Algorithm 1 takes the spare neighbour instead, the others try one after *)
(* the other, give up on the last of them and fall back to row 0.          *)
Good(l) ==
  LET spare(a) == IF a = 0 THEN nn_idx[l] ELSE nn_idx[NumNeighbours + a]
      good == {a \in 0 .. Extra(algorithm) - 1 : ~Bad(spare(a))}
  IN
  IF algorithm = 1 THEN (IF Bad(nn_idx[l]) THEN spare(1) ELSE nn_idx[l])
  ELSE IF good = {} THEN 0 ELSE spare(Min(good))

(* Algorithm 3 goes one row back or on, as the point lies.                 *)
RowSets(i) ==
  IF algorithm = 1 THEN {i .. i + 1}
  ELSE IF algorithm = 2 THEN {i .. i + MatchSteps}
  ELSE {i .. i + 2, i - 1 .. i + 2, i .. i + 3}

ChooseNeighbour ==
  /\ phase = "choose" /\ chosen < NumNeighbours /\ nn_idx[chosen + 1] # NullIdx
  /\ chosen' = chosen + 1
  /\ nn_idx' = [nn_idx EXCEPT ![chosen + 1] = Good(chosen + 1)]
  /\ rows' \in RowSets(Good(chosen + 1))
  /\ UNCHANGED <<phase, model, search, died>>

Classified ==
  /\ phase = "choose"
  /\ IF chosen < NumNeighbours THEN nn_idx[chosen + 1] = NullIdx ELSE TRUE
  /\ phase' = "ready" /\ nn_idx' = <<>> /\ chosen' = 0 /\ rows' = {}
  /\ UNCHANGED <<model, search, died>>

-------------------------------------------------------------------------------

(* annEnclRect, and the call for the root.                                 *)
Init ==
  /\ phase = "build"
  /\ pts \in PointArrays
  /\ box = [lo |-> [d \in Dims |-> Min(Along(DOMAIN pts, d))],
            hi |-> [d \in Dims |-> Max(Along(DOMAIN pts, d))]]
  /\ tree = <<>>
  /\ calls = <<Call(<<>>, DOMAIN pts, box.lo, box.hi)>>
  /\ algorithm = 1 /\ query = CHOOSE q \in Queries : TRUE
  /\ stack = <<>> /\ keys = <<>> /\ infos = <<>>
  /\ nn_idx = <<>> /\ chosen = 0 /\ rows = {}
  /\ died = "no"

Next ==
  /\ died = "no"
  /\ \/ MakeLeaf \/ Split \/ DumpAndRead
     \/ \E q \in Queries, a \in Algorithms : Search(q, a)
     \/ SkipFar \/ VisitLeaf \/ VisitSplit \/ SearchDone
     \/ ChooseNeighbour \/ Classified

Spec == Init /\ [][Next]_vars

-------------------------------------------------------------------------------

Paths    == Seq({"lo", "hi"})
Indices  == DOMAIN pts
Nodes    == [points : SUBSET Indices, cd : 0 .. Dim, cv : Coords, lv : Coords, hv : Coords]
AllCalls == [path : Paths, points : SUBSET Indices, lo : Points, hi : Points]

TypeOK ==
  /\ phase \in {"build", "ready", "search", "choose"}
  /\ pts \in [Indices -> Points] /\ box \in [lo : Points, hi : Points]
  /\ tree \in [DOMAIN tree -> Nodes] /\ DOMAIN tree \subseteq Paths
  /\ calls \in Seq(AllCalls)
  /\ algorithm \in 1 .. 3 /\ query \in Queries
  /\ \A j \in DOMAIN stack : stack[j].path \in DOMAIN tree /\ stack[j].far \in BOOLEAN
  /\ infos \in Seq(Indices) /\ Len(infos) <= K /\ DOMAIN keys = DOMAIN infos
  /\ nn_idx \in Seq(Indices \cup {NullIdx}) /\ chosen \in 0 .. NumNeighbours
  /\ rows \subseteq Int
  /\ died \in {"no", "tooManyNeighbours", "trivialLeaf"}

(* "Intuitively, this rule cannot generate trivial splits": every node has *)
(* a point.  Were there an empty one, a tree that was read back would      *)
(* point to the trivial leaf, which annClose frees after every build.      *)
NoTrivialLeaf == \A p \in DOMAIN tree : tree[p].points # {}

Child(p, side) == tree[Append(p, side)]

(* The children of a node share out its points by its plane, and its       *)
(* bounds enclose them, also after every coordinate has been rounded.      *)
Separated ==
  phase # "build" =>
    \A p \in DOMAIN tree : ~IsLeaf(tree[p]) =>
      /\ {Append(p, "lo"), Append(p, "hi")} \subseteq DOMAIN tree
      /\ Child(p, "lo").points \cup Child(p, "hi").points = tree[p].points
      /\ Child(p, "lo").points \cap Child(p, "hi").points = {}
      /\ \A i \in Child(p, "lo").points :
           tree[p].lv <= pts[i][tree[p].cd] /\ pts[i][tree[p].cd] <= tree[p].cv
      /\ \A i \in Child(p, "hi").points :
           tree[p].cv <= pts[i][tree[p].cd] /\ pts[i][tree[p].cd] <= tree[p].hv

(* The search finds K different points, in the order of their distances,   *)
(* and none that it has left out is closer, although it has looked at few  *)
(* of the boxes of a tree that was rounded after it was built.             *)
Nearest ==
  phase = "search" /\ stack = <<>> /\ died = "no" =>
    /\ Len(infos) = K
    /\ \A j \in 1 .. K : keys[j] = Distance(query, pts[infos[j]])
    /\ \A j, l \in 1 .. K : j < l => keys[j] <= keys[l] /\ infos[j] # infos[l]
    /\ \A i \in Indices :
         i \in {infos[j] : j \in 1 .. K} \/ Distance(query, pts[i]) >= keys[K]

(* Wherever the movement of a model ended, and whichever neighbours are    *)
(* found: the rows of the neighbours and of their successors all exist.    *)
RowsExist == rows \subseteq Indices

(* Algorithm 1 takes the mean of different neighbours, also where one had  *)
(* to be replaced.                                                         *)
Different ==
  phase = "choose" /\ algorithm = 1 =>
    \A j, l \in 1 .. chosen : j # l => nn_idx[j] # nn_idx[l]

===============================================================================
