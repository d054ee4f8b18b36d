--------------------------- MODULE LocationClusters ---------------------------
(***************************************************************************)
(* The significant locations of LocationClusterer: WifiLocationSet.add     *)
(* stores a new location, merges it into one that is very close or links   *)
(* it with its neighbours, and SignificantLocationClusterer then assigns   *)
(* locations to clusters.  One thread does all this, one SQL statement     *)
(* after the other; each statement is a step, and the process can end      *)
(* between any two.  The tables survive it, the LRU cache of Location      *)
(* objects does not.                                                       *)
(*                                                                         *)
(* Distances are abstracted: each call of add finds some location to merge *)
(* with, or some set of near locations.                                    *)
(***************************************************************************)
EXTENDS Integers, FiniteSets, Functions

CONSTANTS
  MinPts,        (* MIN_PTS, the neighbours that make a location a core.   *)
  MaxLocations,  (* Bound: locations that are created.                     *)
  MaxCrashes     (* Bound: times the process ends in an operation.         *)

ASSUME LocationAssumption ==
  MinPts \in Nat \ {0} /\ MaxLocations \in Nat /\ MaxCrashes \in Nat

Ids == 1 .. MaxLocations     (* AUTOINCREMENT: an id is never used again.  *)
NoLocation == 0
NoCluster == -1              (* getClusterId's answer for no row.          *)
Unknown == {NoLocation}      (* A list of neighbours that is not cached.   *)

VARIABLES
  created,           (* The last id of the locations table.                *)
  locations,         (* The ids that have a row in the locations table.    *)
  numMerged,         (* Their column num_merged.                           *)
  neighbours,        (* The rows of the neighbours table, pairs of ids.    *)
  clusters,          (* clusters[l]: l's row of the clusters table.        *)
  listed,            (* listed[l]: the cached Location.neighbours, a set.  *)
  counted,           (* counted[l]: the cached Location.num_neighbours.    *)
  at,                (* Where the thread is.                               *)
  location,          (* The location that is being added or assigned.      *)
  mergeInto,         (* mergeLocations' dst.                               *)
  todo,              (* What the current loop has left to link, to join,   *)
                     (* or (cluster ids) to relabel.                       *)
  joinId,            (* The cluster that neighbours are being added to.    *)
  toCheck,           (* The neighbours of location still to be checked.    *)
  clustersToMerge,
  clusterId,         (* assignToCluster's cluster_id, which it returns.    *)
  before,            (* History: clusters when the operation began.        *)
  interrupted,       (* History: the locations of operations that ended in *)
                     (* a crash.                                           *)
  crashes

tables  == <<created, locations, numMerged, neighbours>>
cache   == <<listed, counted>>
assign  == <<joinId, toCheck, clustersToMerge, clusterId>>
history == <<before, interrupted, crashes>>
vars == <<tables, clusters, cache, at, location, mergeInto, todo, assign, history>>

Init ==
  /\ created = 0 /\ locations = {} /\ numMerged = [l \in Ids |-> 0]
  /\ neighbours = {} /\ clusters = [l \in Ids |-> NoCluster]
  /\ listed = [l \in Ids |-> Unknown] /\ counted = [l \in Ids |-> -1]
  /\ at = "idle" /\ location = NoLocation /\ mergeInto = NoLocation
  /\ todo = {} /\ joinId = NoCluster /\ toCheck = {} /\ clustersToMerge = {}
  /\ clusterId = NoCluster
  /\ before = clusters /\ interrupted = {} /\ crashes = 0

-------------------------------------------------------------------------------
(* Location: the neighbour rows and what an object caches of them.         *)

Rows(l) == {m \in locations : <<l, m>> \in neighbours}

(* getNeighbours: the cached list, or the rows.                            *)
Neighbours(l) == IF listed[l] = Unknown THEN Rows(l) ELSE listed[l]

(* SUM(num_merged) over the neighbours.                                    *)
Weight(S) == SumFunctionOnSet(numMerged, S)

(* getNumNeighbours: the cached number, or the sum.                        *)
NumNeighbours(l) == IF counted[l] >= 0 THEN counted[l] ELSE Weight(Rows(l))

(* The same after a call of getNeighbours, which counts what it loads.     *)
NumListed(l) == IF listed[l] = Unknown THEN Weight(Rows(l)) ELSE NumNeighbours(l)

LoadNeighbours(l) ==
  /\ listed' = [listed EXCEPT ![l] = Neighbours(l)]
  /\ counted' = [counted EXCEPT ![l] = NumListed(l)]

-------------------------------------------------------------------------------
(* WifiLocationSet.add.                                                    *)

At(from, to) == at = from /\ at' = to

(* The local variables of the methods.                                     *)
FreshLocals ==
  /\ mergeInto' = NoLocation /\ todo' = {} /\ joinId' = NoCluster
  /\ toCheck' = {} /\ clustersToMerge' = {} /\ clusterId' = NoCluster

(* MotionStateClusterer.cluster creates a location and hands it to         *)
(* addNewLocation.                                                         *)
NewLocation ==
  /\ At("idle", "add")
  /\ created < MaxLocations
  /\ created' = created + 1
  /\ location' = created + 1 /\ locations' = locations \cup {created + 1}
  /\ numMerged' = [numMerged EXCEPT ![created + 1] = 1]
  /\ listed' = [listed EXCEPT ![created + 1] = {}]
  /\ counted' = [counted EXCEPT ![created + 1] = -1]
  /\ before' = clusters
  /\ FreshLocals
  /\ UNCHANGED <<neighbours, clusters, interrupted, crashes>>

(* Mutant: the merge is not counted.                                       *)
MergeUncounted(dst) ==
  /\ At("add", "delete")
  /\ dst \in locations \ {location}
  /\ mergeInto' = dst
  /\ UNCHANGED <<tables, clusters, cache, location, todo, assign, history>>

(* mergeLocations, for the nearest location if it is closer than           *)
(* MERGE_DIST: first its num_merged (and its observations, not modelled),  *)
(* then the rows of the new location are deleted and the old one goes on   *)
(* in its place.                                                           *)
Merge(dst) ==
  /\ At("add", "delete")
  /\ dst \in locations \ {location}
  /\ mergeInto' = dst
  /\ numMerged' = [numMerged EXCEPT ![dst] = @ + numMerged[location]]
  /\ UNCHANGED <<created, locations, neighbours, clusters, cache, location, todo,
                 assign, history>>

MergeDelete ==
  /\ At("delete", "assign")
  /\ neighbours' = {row \in neighbours : location \notin {row[1], row[2]}}
  /\ locations' = locations \ {location}
  /\ listed' = [listed EXCEPT ![mergeInto] = Neighbours(mergeInto) \ {location},
                              ![location] = Unknown]
  /\ counted' = [counted EXCEPT ![mergeInto] = -1, ![location] = -1]
  /\ location' = mergeInto /\ mergeInto' = NoLocation
  /\ UNCHANGED <<created, numMerged, clusters, todo, assign, history>>

(* Nothing is closer than MERGE_DIST: the locations closer than EPS.       *)
FindNear(near) ==
  /\ At("add", "link")
  /\ near \subseteq locations \ {location}
  /\ todo' = near
  /\ UNCHANGED <<tables, clusters, cache, location, mergeInto, assign, history>>

(* Mutants: a list is not loaded before a neighbour is added; a cached     *)
(* list is not kept up.                                                    *)
LinkUnloaded(n) ==
  /\ at = "link" /\ n \in todo
  /\ todo' = todo \ {n}
  /\ neighbours' = neighbours \cup {<<n, location>>}
  /\ listed' = [listed EXCEPT ![n] = @ \cup {location}]
  /\ counted' = [counted EXCEPT ![n] = -1]
  /\ UNCHANGED <<created, locations, numMerged, clusters, at, location, mergeInto,
                 assign, history>>

LinkUncached(n) ==
  /\ at = "link" /\ n \in todo
  /\ todo' = todo \ {n}
  /\ neighbours' = neighbours \cup {<<n, location>>}
  /\ counted' = [counted EXCEPT ![n] = -1]
  /\ UNCHANGED <<created, locations, numMerged, clusters, listed, at, location,
                 mergeInto, assign, history>>

(* addNeighbour on one of them.                                            *)
LinkNeighbour(n) ==
  /\ at = "link" /\ n \in todo
  /\ todo' = todo \ {n}
  /\ neighbours' = neighbours \cup {<<n, location>>}
  /\ listed' = [listed EXCEPT ![n] = Neighbours(n) \cup {location}]
  /\ counted' = [counted EXCEPT ![n] = -1]
  /\ UNCHANGED <<created, locations, numMerged, clusters, at, location, mergeInto,
                 assign, history>>

(* Mutant: the neighbours learn of the new location, but not it of them.   *)
LinkOneWay ==
  /\ At("link", "assign") /\ todo = {}
  /\ UNCHANGED <<tables, clusters, cache, location, mergeInto, todo, assign, history>>

(* addNeighbours on the new location, in one transaction.  Its near        *)
(* locations are the ones that have just been linked to it.                *)
LinkLocation ==
  LET near == {n \in Ids : <<n, location>> \in neighbours} IN
  /\ At("link", "assign") /\ todo = {}
  /\ neighbours' = neighbours \cup {<<location, n>> : n \in near}
  /\ listed' = [listed EXCEPT ![location] = Neighbours(location) \cup near]
  /\ counted' = [counted EXCEPT ![location] = -1]
  /\ UNCHANGED <<created, locations, numMerged, clusters, location, mergeInto, todo,
                 assign, history>>

-------------------------------------------------------------------------------
(* SignificantLocationClusterer.assignToCluster.                           *)

ClusterIds(S) == {clusters[l] : l \in S} \ {NoCluster}

(* getNewClusterId: MAX(cluster_id) + 1, a single value.                  *)
NewClusterIds ==
  {id \in {used + 1 : used \in ClusterIds(Ids) \cup {0}} :
     \A used \in ClusterIds(Ids) : used < id}

(* Mutants: the clusters of the neighbours are not merged; the new cluster *)
(* is not.                                                                 *)
FoundAlone(l, merging) ==
  /\ at' = "join"
  /\ joinId' \in NewClusterIds
  /\ clusters' = [clusters EXCEPT ![l] = joinId']
  /\ clustersToMerge' = merging \cup {joinId'}
  /\ todo' = Neighbours(l)

FoundUnmerged(l, merging) ==
  /\ at' = "join"
  /\ joinId' \in NewClusterIds
  /\ clusters' = [clusters EXCEPT ![l] = joinId']
  /\ clustersToMerge' = merging \cup ClusterIds(Neighbours(l))
  /\ todo' = Neighbours(l)

(* createNewCluster and addNeighbouringClusters for a core l; its          *)
(* neighbours are added next.                                              *)
Found(l, merging) ==
  /\ at' = "join"
  /\ joinId' \in NewClusterIds
  /\ clusters' = [clusters EXCEPT ![l] = joinId']
  /\ clustersToMerge' = merging \cup {joinId'} \cup ClusterIds(Neighbours(l))
  /\ todo' = Neighbours(l)

(* The location is a core that is in no cluster.                           *)
AssignNew ==
  /\ at = "assign" /\ clusters[location] = NoCluster
  /\ numMerged[location] + NumListed(location) >= MinPts
  /\ Found(location, {})
  /\ clusterId' = joinId' /\ toCheck' = Neighbours(location)
  /\ LoadNeighbours(location)
  /\ UNCHANGED <<tables, location, mergeInto, history>>

(* It is in a cluster already, or it is no core.                           *)
AssignKnown ==
  /\ At("assign", "check")
  /\ \/ clusters[location] # NoCluster
     \/ numMerged[location] + NumListed(location) < MinPts
  /\ clusterId' = clusters[location] /\ clustersToMerge' = ClusterIds({location})
  /\ toCheck' = Neighbours(location)
  /\ LoadNeighbours(location)
  /\ UNCHANGED <<tables, clusters, location, mergeInto, todo, joinId, history>>

(* addNeighboursToCluster: one neighbour.                                  *)
Join(n) ==
  /\ at = "join" /\ n \in todo
  /\ todo' = todo \ {n}
  /\ clusters' = [clusters EXCEPT ![n] = joinId]
  /\ UNCHANGED <<tables, cache, at, location, mergeInto, assign, history>>

JoinEnd ==
  /\ At("join", "check") /\ todo = {}
  /\ UNCHANGED <<tables, clusters, cache, location, mergeInto, todo, assign, history>>

(* A neighbour that is in no cluster and has become a core founds one.     *)
CheckFounds(n) ==
  /\ at = "check" /\ n \in toCheck
  /\ clusters[n] = NoCluster /\ NumNeighbours(n) >= MinPts
  /\ toCheck' = toCheck \ {n}
  /\ Found(n, clustersToMerge)
  /\ LoadNeighbours(n)
  /\ UNCHANGED <<tables, location, mergeInto, clusterId, history>>

(* Any other is left alone; one that is no core has been counted.          *)
CheckPasses(n) ==
  /\ at = "check" /\ n \in toCheck
  /\ toCheck' = toCheck \ {n}
  /\ \/ clusters[n] # NoCluster /\ UNCHANGED cache
     \/ clusters[n] = NoCluster /\ NumNeighbours(n) < MinPts
        /\ counted' = [counted EXCEPT ![n] = NumNeighbours(n)] /\ UNCHANGED listed
  /\ UNCHANGED <<tables, clusters, at, location, mergeInto, todo, joinId,
                 clustersToMerge, clusterId, history>>

SeveralToMerge == \E id, other \in clustersToMerge : id # other

(* The smallest of several clusters will be the one they are merged into.  *)
MergeClusters ==
  /\ At("check", "relabel") /\ toCheck = {}
  /\ SeveralToMerge
  /\ clusterId' \in clustersToMerge /\ \A id \in clustersToMerge : clusterId' <= id
  /\ todo' = clustersToMerge
  /\ UNCHANGED <<tables, clusters, cache, location, mergeInto, joinId, toCheck,
                 clustersToMerge, history>>

(* Mutant: changeClusterId with its arguments swapped.                     *)
RelabelSwapped(id) ==
  /\ at = "relabel" /\ id \in todo
  /\ todo' = todo \ {id}
  /\ clusters' = [l \in Ids |-> IF clusters[l] = clusterId THEN id ELSE clusters[l]]
  /\ UNCHANGED <<tables, cache, at, location, mergeInto, assign, history>>

(* changeClusterId.                                                        *)
Relabel(id) ==
  /\ at = "relabel" /\ id \in todo
  /\ todo' = todo \ {id}
  /\ clusters' = [l \in Ids |-> IF clusters[l] = id THEN clusterId ELSE clusters[l]]
  /\ UNCHANGED <<tables, cache, at, location, mergeInto, assign, history>>

Return ==
  /\ at' = "idle"
  /\ \/ at = "relabel" /\ todo = {}
     \/ at = "check" /\ toCheck = {} /\ ~SeveralToMerge
  /\ UNCHANGED <<tables, clusters, cache, location, mergeInto, todo, assign, history>>

-------------------------------------------------------------------------------

(* The LRU cache drops an object that the operation does not hold, or the  *)
(* plugin has been stopped and started between operations, which makes a   *)
(* new cache.                                                              *)
Evict(l) ==
  /\ listed[l] # Unknown \/ counted[l] # -1
  /\ at = "idle" \/ l \notin {location, mergeInto}
  /\ listed' = [listed EXCEPT ![l] = Unknown]
  /\ counted' = [counted EXCEPT ![l] = -1]
  /\ UNCHANGED <<tables, clusters, at, location, mergeInto, todo, assign, history>>

(* The process ends within an operation and is started again.              *)
Crash ==
  /\ at # "idle" /\ at' = "idle"
  /\ crashes < MaxCrashes /\ crashes' = crashes + 1
  /\ listed' = [l \in Ids |-> Unknown] /\ counted' = [l \in Ids |-> -1]
  /\ location' = NoLocation /\ FreshLocals
  /\ before' = clusters /\ interrupted' = interrupted \cup {location}
  /\ UNCHANGED <<tables, clusters>>

Next ==
  \/ NewLocation \/ MergeDelete \/ LinkLocation \/ AssignNew \/ AssignKnown
  \/ JoinEnd \/ MergeClusters \/ Return \/ Crash
  \/ \E l \in Ids : \/ Merge(l) \/ LinkNeighbour(l) \/ Join(l)
                    \/ CheckFounds(l) \/ CheckPasses(l) \/ Evict(l)
  \/ \E near \in SUBSET Ids : FindNear(near)
  \/ \E id \in clustersToMerge : Relabel(id)

Spec == Init /\ [][Next]_vars

-------------------------------------------------------------------------------

TypeOK ==
  /\ created \in 0 .. MaxLocations /\ locations \subseteq 1 .. created
  /\ numMerged \in [Ids -> Nat] /\ neighbours \subseteq Ids \X Ids
  /\ clusters \in [Ids -> Nat \cup {NoCluster}]
  /\ listed \in [Ids -> (SUBSET Ids) \cup {Unknown}]
  /\ counted \in [Ids -> Nat \cup {-1}]
  /\ at \in {"idle", "add", "delete", "link", "assign", "join", "check", "relabel"}
  /\ location \in Ids \cup {NoLocation} /\ mergeInto \in Ids \cup {NoLocation}
  /\ todo \subseteq Nat /\ toCheck \subseteq Ids /\ clustersToMerge \subseteq Nat
  /\ joinId \in Nat \cup {NoCluster} /\ clusterId \in Nat \cup {NoCluster}
  /\ before \in [Ids -> Nat \cup {NoCluster}]
  /\ interrupted \subseteq Ids /\ crashes \in 0 .. MaxCrashes

(* "Place all the points in the set of clusters to merge in the same       *)
(* cluster.": an operation that runs to its end never separates two        *)
(* locations that shared a cluster when it began, although it takes        *)
(* neighbours out of their clusters one by one on the way.                 *)
ClustersNeverSplit ==
  at = "idle" =>
    \A l, m \in Ids :
      before[l] # NoCluster /\ before[l] = before[m] => clusters[l] = clusters[m]

(* Whatever one operation moves, it moves to a single cluster: the cores   *)
(* it founds clusters around, their neighbours, and all the clusters these *)
(* were taken from.  No cluster is left half relabelled.                   *)
ChangesMeet ==
  at = "idle" =>
    \A l, m \in Ids :
      clusters[l] # before[l] /\ clusters[m] # before[m] => clusters[l] = clusters[m]

(* The cluster that assignToCluster returns, if it returns one, is the one *)
(* the location is in when it returns, after all merges.  (A crash can     *)
(* leave a link one way, and then a location in no cluster may be told the *)
(* cluster of its neighbours.)                                             *)
ReturnedIsCluster ==
  at = "idle" /\ clusterId # NoCluster /\ interrupted = {}
    => clusterId = clusters[location]

(* "The id of the cluster, or -1 if the location is not a part of a        *)
(* cluster."  assignToCluster misses a location that a neighbour's new     *)
(* cluster has taken in when no other cluster was involved.                *)
ReturnsCluster ==
  at = "idle" /\ location # NoLocation => clusterId = clusters[location]

(* When no operation is under way, rows refer to existing locations and    *)
(* none to itself, and only a location whose operation a crash ended can   *)
(* be linked one way.                                                      *)
LinksMutual ==
  at = "idle" =>
    \A row \in neighbours :
      /\ row[1] # row[2] /\ {row[1], row[2]} \subseteq locations
      /\ <<row[2], row[1]>> \in neighbours \/ interrupted \cap {row[1], row[2]} # {}

(* The cached list of neighbours, kept up beside the rows by addNeighbour, *)
(* addNeighbours and removeNeighbour, is the list in the rows.             *)
CachedListsCurrent ==
  at = "idle" => \A l \in locations : listed[l] \in {Unknown, Rows(l)}

(* A location that is in a cluster has not been merged away.               *)
ClusteredExist == \A l \in Ids : clusters[l] # NoCluster => l \in locations

(* The three tables never contradict each other: "removing src", a merge   *)
(* leaves no row of neighbours and no cluster behind for the location that *)
(* it deletes, and neighbours are neighbours both ways.                    *)
TablesAgree == LinksMutual /\ ClusteredExist

(* "If two points have been merged to form a location, then that location  *)
(* should count as two": every observed location counts once, in one       *)
(* location or another; an operation that a crash ended may count twice.   *)
EachCountsOnce ==
  at = "idle" =>
    /\ Weight(locations) >= created
    /\ Weight(locations) <= created + Cardinality(interrupted)

===============================================================================
