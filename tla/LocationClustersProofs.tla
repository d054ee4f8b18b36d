------------------------ MODULE LocationClustersProofs ------------------------
(***************************************************************************)
(* What one clustering operation does to the clusters, for any number of   *)
(* locations, any MIN_PTS and any number of crashes: it never separates    *)
(* two locations, and whatever it moves ends up in one cluster.  And what  *)
(* it does to the tables: they agree, and each location counts once.       *)
(*                                                                         *)
(* The argument: while an operation runs, clustersToMerge holds the id of  *)
(* every cluster that it has founded or taken a location from.  So two     *)
(* locations that shared a cluster still do, or both are in clusters that  *)
(* are to be merged.  The relabelling then shrinks that set of clusters to *)
(* the single one that is kept.                                            *)
(***************************************************************************)
EXTENDS LocationClusters, SumTheorems

Types ==
  /\ created \in Nat /\ locations \subseteq Ids
  /\ clusters \in [Ids -> Nat \cup {NoCluster}]
  /\ before \in [Ids -> Nat \cup {NoCluster}]
  /\ listed \in [Ids -> (SUBSET Ids) \cup {Unknown}]
  /\ clustersToMerge \subseteq Nat
  /\ joinId \in Nat \cup {NoCluster}
  /\ location \in Ids \cup {NoLocation} /\ mergeInto \in Ids \cup {NoLocation}
  /\ at \in {"idle", "add", "delete", "link", "assign", "join", "check", "relabel"}
  /\ at \in {"add", "delete", "link", "assign"} => location \in Ids
  /\ at = "delete" => mergeInto \in Ids

(* Two locations that shared a cluster still do, or their clusters are     *)
(* both in S; and what has changed its cluster is in one of S.             *)
Whole(S) ==
  \A l, m \in Ids :
    before[l] # NoCluster /\ before[l] = before[m]
      => clusters[l] = clusters[m] \/ {clusters[l], clusters[m]} \subseteq S

Moved(S) == \A l \in Ids : clusters[l] # before[l] => clusters[l] \in S

ClusterInv ==
  /\ \A l \in Ids : before[l] # NoCluster => clusters[l] # NoCluster
  /\ at \in {"add", "delete", "link", "assign"} => clusters = before
  /\ at \in {"join", "check"} => Whole(clustersToMerge) /\ Moved(clustersToMerge)
  /\ at = "join" =>
       /\ joinId \in clustersToMerge
       /\ \A n \in todo : clusters[n] \in clustersToMerge \cup {NoCluster}
  /\ at = "relabel" =>
       /\ clusterId \in Nat
       /\ Whole(todo \cup {clusterId}) /\ Moved(todo \cup {clusterId})
  /\ ClustersNeverSplit /\ ChangesMeet

-------------------------------------------------------------------------------

LEMMA RowsAreIds ==
  ASSUME Types, NEW l \in Ids
  PROVE Rows(l) \subseteq Ids /\ Neighbours(l) \subseteq Ids
BY DEF Types, Rows, Neighbours, Unknown, NoLocation, Ids

(* MAX(cluster_id) + 1 is a cluster id.                                    *)
LEMMA NewIdIsNat == Types => NewClusterIds \subseteq Nat
BY DEF Types, NewClusterIds, ClusterIds, NoCluster

LEMMA ClusterIdsAreNat ==
  ASSUME Types, NEW S \in SUBSET Ids
  PROVE ClusterIds(S) \subseteq Nat
BY DEF Types, ClusterIds, NoCluster

(* Founding a cluster, whether around the location itself or around one of *)
(* its neighbours.                                                         *)
LEMMA FoundTypes ==
  ASSUME Types, NEW l \in Ids, NEW S \in SUBSET Nat, Found(l, S), at' = "join"
  PROVE /\ clusters' \in [Ids -> Nat \cup {NoCluster}]
        /\ clustersToMerge' \subseteq Nat /\ joinId' \in Nat
        /\ todo' \subseteq Ids
<1>1. joinId' \in Nat
  BY NewIdIsNat DEF Found
<1>2. ClusterIds(Neighbours(l)) \subseteq Nat
  BY RowsAreIds, ClusterIdsAreNat
<1>3. QED
  BY <1>1, <1>2, RowsAreIds DEF Found, Types

LEMMA FoundKeeps ==
  ASSUME Types, NEW l \in Ids, NEW S \in SUBSET Nat, Found(l, S),
         clusters[l] = NoCluster, UNCHANGED before,
         \A m \in Ids : before[m] # NoCluster => clusters[m] # NoCluster,
         Whole(S), Moved(S)
  PROVE /\ \A m \in Ids : before'[m] # NoCluster => clusters'[m] # NoCluster
        /\ Whole(clustersToMerge)' /\ Moved(clustersToMerge)'
        /\ joinId' \in clustersToMerge'
        /\ \A n \in todo' : clusters'[n] \in clustersToMerge' \cup {NoCluster}
<1>1. before[l] = NoCluster
  OBVIOUS
<1>2. /\ joinId' \in Nat /\ joinId' # NoCluster
      /\ \A m \in Ids : clusters'[m] = IF m = l THEN joinId' ELSE clusters[m]
      /\ S \subseteq clustersToMerge' /\ joinId' \in clustersToMerge'
      /\ ClusterIds(Neighbours(l)) \subseteq clustersToMerge'
      /\ todo' = Neighbours(l)
  BY NewIdIsNat DEF Found, Types, NoCluster
<1>3. Neighbours(l) \subseteq Ids
  BY RowsAreIds
<1>4. \A m \in Ids : before'[m] # NoCluster => clusters'[m] # NoCluster
  BY <1>2
<1>5. Whole(clustersToMerge)'
  BY <1>1, <1>2 DEF Whole
<1>6. Moved(clustersToMerge)'
  BY <1>1, <1>2 DEF Moved
<1>7. \A n \in todo' : clusters'[n] \in clustersToMerge' \cup {NoCluster}
  BY <1>2, <1>3 DEF ClusterIds
<1>8. QED
  BY <1>2, <1>4, <1>5, <1>6, <1>7

-------------------------------------------------------------------------------

LEMMA TypesStep == Types /\ ClusterInv /\ [Next]_vars => Types'
<1> SUFFICES ASSUME Types, ClusterInv, [Next]_vars PROVE Types'
  OBVIOUS
<1> USE DEF tables, cache, assign, history
<1>1. CASE NewLocation
  BY <1>1, LocationAssumption DEF NewLocation, Types, At, FreshLocals, Ids, NoLocation,
     NoCluster, Unknown
<1>2. ASSUME NEW l \in Ids, Merge(l) PROVE Types'
  BY <1>2 DEF Merge, Types, At
<1>3. CASE MergeDelete
  <2>1. location \in Ids /\ mergeInto \in Ids /\ Neighbours(mergeInto) \subseteq Ids
    BY <1>3, RowsAreIds DEF MergeDelete, At, Types
  <2>2. listed' \in [Ids -> (SUBSET Ids) \cup {Unknown}]
    BY <1>3, <2>1 DEF MergeDelete, Types
  <2>3. QED
    BY <1>3, <2>1, <2>2 DEF MergeDelete, Types, At
<1>4. ASSUME NEW near \in SUBSET Ids, FindNear(near) PROVE Types'
  BY <1>4 DEF FindNear, Types, At
<1>5. ASSUME NEW l \in Ids, LinkNeighbour(l) PROVE Types'
  <2>1. location \in Ids /\ Neighbours(l) \subseteq Ids
    BY <1>5, RowsAreIds DEF LinkNeighbour, Types
  <2>2. listed' \in [Ids -> (SUBSET Ids) \cup {Unknown}]
    BY <1>5, <2>1 DEF LinkNeighbour, Types
  <2>3. QED
    BY <1>5, <2>1, <2>2 DEF LinkNeighbour, Types
<1>6. CASE LinkLocation
  <2>1. location \in Ids /\ location' = location /\ Neighbours(location) \subseteq Ids
    BY <1>6, RowsAreIds DEF LinkLocation, Types, At
  <2>2. listed' \in [Ids -> (SUBSET Ids) \cup {Unknown}]
    BY <1>6, <2>1 DEF LinkLocation, Types
  <2>3. QED
    BY <1>6, <2>1, <2>2 DEF LinkLocation, Types, At
<1>7. CASE AssignNew
  <2>1. location \in Ids /\ Neighbours(location) \subseteq Ids
    BY <1>7, RowsAreIds DEF AssignNew, Types
  <2>2. listed' \in [Ids -> (SUBSET Ids) \cup {Unknown}]
    BY <1>7, <2>1 DEF AssignNew, LoadNeighbours, Types
  <2>3. at' = "join" /\ Found(location, {})
    BY <1>7 DEF AssignNew, Found
  <2>4. /\ clusters' \in [Ids -> Nat \cup {NoCluster}]
        /\ clustersToMerge' \subseteq Nat /\ joinId' \in Nat
    BY <2>1, <2>3, FoundTypes
  <2>5. QED
    BY <1>7, <2>1, <2>2, <2>3, <2>4 DEF AssignNew, Types
<1>8. CASE AssignKnown
  <2>1. location \in Ids /\ Neighbours(location) \subseteq Ids
    BY <1>8, RowsAreIds DEF AssignKnown, Types, At
  <2>2. listed' \in [Ids -> (SUBSET Ids) \cup {Unknown}]
    BY <1>8, <2>1 DEF AssignKnown, LoadNeighbours, Types
  <2>3. clustersToMerge' \subseteq Nat
    BY <1>8, <2>1, ClusterIdsAreNat DEF AssignKnown
  <2>4. QED
    BY <1>8, <2>1, <2>2, <2>3 DEF AssignKnown, Types, At
<1>9. ASSUME NEW l \in Ids, Join(l) PROVE Types'
  BY <1>9 DEF Join, Types
<1>10. CASE JoinEnd
  BY <1>10 DEF JoinEnd, Types, At
<1>11. ASSUME NEW l \in Ids, CheckFounds(l) PROVE Types'
  <2>1. Neighbours(l) \subseteq Ids
    BY RowsAreIds
  <2>2. listed' \in [Ids -> (SUBSET Ids) \cup {Unknown}]
    BY <1>11, <2>1 DEF CheckFounds, LoadNeighbours, Types
  <2>3. at' = "join" /\ Found(l, clustersToMerge) /\ clustersToMerge \subseteq Nat
    BY <1>11 DEF CheckFounds, Found, Types
  <2>4. /\ clusters' \in [Ids -> Nat \cup {NoCluster}]
        /\ clustersToMerge' \subseteq Nat /\ joinId' \in Nat
    BY <2>3, FoundTypes
  <2>5. QED
    BY <1>11, <2>2, <2>3, <2>4 DEF CheckFounds, Types
<1>12. ASSUME NEW l \in Ids, CheckPasses(l) PROVE Types'
  BY <1>12 DEF CheckPasses, Types
<1>13. CASE MergeClusters
  BY <1>13 DEF MergeClusters, Types, At
<1>14. ASSUME NEW id, Relabel(id) PROVE Types'
  <2>1. clusterId \in Nat
    BY <1>14 DEF Relabel, ClusterInv
  <2>2. clusters' \in [Ids -> Nat \cup {NoCluster}]
    BY <1>14, <2>1 DEF Relabel, Types
  <2>3. QED
    BY <1>14, <2>2 DEF Relabel, Types
<1>15. CASE Return
  BY <1>15 DEF Return, Types
<1>16. ASSUME NEW l \in Ids, Evict(l) PROVE Types'
  BY <1>16 DEF Evict, Types
<1>17. CASE Crash
  BY <1>17 DEF Crash, FreshLocals, Types
<1>18. CASE UNCHANGED vars
  BY <1>18 DEF vars, Types
<1>19. QED
  BY <1>1, <1>2, <1>3, <1>4, <1>5, <1>6, <1>7, <1>8, <1>9, <1>10, <1>11, <1>12,
     <1>13, <1>14, <1>15, <1>16, <1>17, <1>18 DEF Next

LEMMA ClusterStep == Types /\ ClusterInv /\ [Next]_vars => ClusterInv'
<1> SUFFICES ASSUME Types, ClusterInv, [Next]_vars PROVE ClusterInv'
  OBVIOUS
<1> USE DEF tables, cache, assign, history
<1>1. CASE NewLocation
  BY <1>1 DEF NewLocation, ClusterInv, At, ClustersNeverSplit, ChangesMeet
<1>2. ASSUME NEW l \in Ids, Merge(l) PROVE ClusterInv'
  BY <1>2 DEF Merge, ClusterInv, At, ClustersNeverSplit, ChangesMeet
<1>3. CASE MergeDelete
  BY <1>3 DEF MergeDelete, ClusterInv, At, ClustersNeverSplit, ChangesMeet
<1>4. ASSUME NEW near \in SUBSET Ids, FindNear(near) PROVE ClusterInv'
  BY <1>4 DEF FindNear, ClusterInv, At, ClustersNeverSplit, ChangesMeet
<1>5. ASSUME NEW l \in Ids, LinkNeighbour(l) PROVE ClusterInv'
  BY <1>5 DEF LinkNeighbour, ClusterInv, ClustersNeverSplit, ChangesMeet
<1>6. CASE LinkLocation
  BY <1>6 DEF LinkLocation, ClusterInv, At, ClustersNeverSplit, ChangesMeet
<1>7. CASE AssignNew
  <2>1. /\ location \in Ids /\ clusters = before /\ UNCHANGED before
        /\ Found(location, {}) /\ at' = "join" /\ clusters[location] = NoCluster
    BY <1>7 DEF AssignNew, Found, ClusterInv, Types
  <2>2. Whole({}) /\ Moved({})
    BY <2>1 DEF Whole, Moved
  <2>3. /\ \A m \in Ids : before'[m] # NoCluster => clusters'[m] # NoCluster
        /\ Whole(clustersToMerge)' /\ Moved(clustersToMerge)'
        /\ joinId' \in clustersToMerge'
        /\ \A n \in todo' : clusters'[n] \in clustersToMerge' \cup {NoCluster}
    BY <2>1, <2>2, FoundKeeps DEF ClusterInv
  <2>4. QED
    BY <2>1, <2>3 DEF ClusterInv, ClustersNeverSplit, ChangesMeet
<1>8. CASE AssignKnown
  <2>1. clusters = before /\ clusters' = before' /\ at' = "check"
    BY <1>8 DEF AssignKnown, ClusterInv, At
  <2>2. Whole(clustersToMerge)' /\ Moved(clustersToMerge)'
    BY <2>1 DEF Whole, Moved
  <2>3. QED
    BY <1>8, <2>1, <2>2 DEF ClusterInv, ClustersNeverSplit, ChangesMeet
<1>9. ASSUME NEW l \in Ids, Join(l) PROVE ClusterInv'
  <2>1. /\ at = "join" /\ at' = "join" /\ l \in todo /\ todo' = todo \ {l}
        /\ UNCHANGED <<before, clustersToMerge, joinId>>
        /\ \A m \in Ids : clusters'[m] = IF m = l THEN joinId ELSE clusters[m]
        /\ \A m : m # l => clusters'[m] = clusters[m]
    BY <1>9 DEF Join, Types
  <2>2. /\ joinId \in clustersToMerge /\ joinId # NoCluster
        /\ clusters[l] \in clustersToMerge \cup {NoCluster}
        /\ \A n \in todo : clusters[n] \in clustersToMerge \cup {NoCluster}
    BY <2>1 DEF ClusterInv, Types, NoCluster
  <2>3. Whole(clustersToMerge) /\ Moved(clustersToMerge)
    BY <2>1 DEF ClusterInv
  <2>4. \A m \in Ids : before[m] # NoCluster => clusters[m] # NoCluster
    BY DEF ClusterInv
  <2>5. Whole(clustersToMerge)'
    BY <2>1, <2>2, <2>3, <2>4 DEF Whole
  <2>6. Moved(clustersToMerge)'
    BY <2>1, <2>2, <2>3 DEF Moved
  <2>7. QED
    BY <2>1, <2>2, <2>4, <2>5, <2>6 DEF ClusterInv, ClustersNeverSplit, ChangesMeet
<1>10. CASE JoinEnd
  BY <1>10 DEF JoinEnd, ClusterInv, At, ClustersNeverSplit, ChangesMeet, Whole, Moved
<1>11. ASSUME NEW l \in Ids, CheckFounds(l) PROVE ClusterInv'
  <2>1. /\ at = "check" /\ at' = "join" /\ clusters[l] = NoCluster
        /\ Found(l, clustersToMerge) /\ UNCHANGED before
        /\ clustersToMerge \subseteq Nat
    BY <1>11 DEF CheckFounds, Found, Types
  <2>2. Whole(clustersToMerge) /\ Moved(clustersToMerge)
    BY <2>1 DEF ClusterInv
  <2>3. /\ \A m \in Ids : before'[m] # NoCluster => clusters'[m] # NoCluster
        /\ Whole(clustersToMerge)' /\ Moved(clustersToMerge)'
        /\ joinId' \in clustersToMerge'
        /\ \A n \in todo' : clusters'[n] \in clustersToMerge' \cup {NoCluster}
    BY <2>1, <2>2, FoundKeeps DEF ClusterInv
  <2>4. QED
    BY <2>1, <2>3 DEF ClusterInv, ClustersNeverSplit, ChangesMeet
<1>12. ASSUME NEW l \in Ids, CheckPasses(l) PROVE ClusterInv'
  BY <1>12 DEF CheckPasses, ClusterInv, ClustersNeverSplit, ChangesMeet, Whole, Moved
<1>13. CASE MergeClusters
  <2>1. /\ at = "check" /\ at' = "relabel" /\ UNCHANGED <<before, clusters>>
        /\ todo' = clustersToMerge /\ clusterId' \in clustersToMerge
    BY <1>13 DEF MergeClusters, At
  <2>2. clusterId' \in Nat
    BY <2>1 DEF Types
  <2>3. Whole(clustersToMerge) /\ Moved(clustersToMerge)
    BY <2>1 DEF ClusterInv
  <2>4. Whole(todo \cup {clusterId})' /\ Moved(todo \cup {clusterId})'
    BY <2>1, <2>3 DEF Whole, Moved
  <2>5. QED
    BY <2>1, <2>2, <2>4 DEF ClusterInv, ClustersNeverSplit, ChangesMeet
<1>14. ASSUME NEW id, Relabel(id) PROVE ClusterInv'
  <2>1. /\ at = "relabel" /\ at' = "relabel" /\ id \in todo /\ todo' = todo \ {id}
        /\ UNCHANGED <<before, clusterId>>
        /\ \A m \in Ids : clusters'[m] = IF clusters[m] = id THEN clusterId ELSE clusters[m]
    BY <1>14 DEF Relabel
  <2>2. /\ clusterId \in Nat /\ clusterId # NoCluster
        /\ Whole(todo \cup {clusterId}) /\ Moved(todo \cup {clusterId})
    BY <2>1 DEF ClusterInv, NoCluster
  <2>3. \A m \in Ids : before[m] # NoCluster => clusters[m] # NoCluster
    BY DEF ClusterInv
  <2>4. Whole(todo \cup {clusterId})'
    BY <2>1, <2>2 DEF Whole
  <2>5. Moved(todo \cup {clusterId})'
    BY <2>1, <2>2 DEF Moved
  <2>6. \A m \in Ids : before'[m] # NoCluster => clusters'[m] # NoCluster
    BY <2>1, <2>2, <2>3
  <2>7. QED
    BY <2>1, <2>2, <2>4, <2>5, <2>6 DEF ClusterInv, ClustersNeverSplit, ChangesMeet
<1>15. CASE Return
  <2>1. /\ at' = "idle" /\ UNCHANGED <<before, clusters, clustersToMerge, todo, clusterId>>
        /\ \/ at = "relabel" /\ todo = {}
           \/ at = "check" /\ ~SeveralToMerge
    BY <1>15 DEF Return
  <2>2. PICK S : /\ Whole(S) /\ Moved(S)
                 /\ \A id, other \in S : id = other
    BY <2>1 DEF ClusterInv, SeveralToMerge
  <2>3. ClustersNeverSplit'
    BY <2>1, <2>2 DEF Whole, ClustersNeverSplit
  <2>4. ChangesMeet'
    BY <2>1, <2>2 DEF Moved, ChangesMeet
  <2>5. QED
    BY <2>1, <2>3, <2>4 DEF ClusterInv
<1>16. ASSUME NEW l \in Ids, Evict(l) PROVE ClusterInv'
  BY <1>16 DEF Evict, ClusterInv, ClustersNeverSplit, ChangesMeet, Whole, Moved
<1>17. CASE Crash
  BY <1>17 DEF Crash, ClusterInv, ClustersNeverSplit, ChangesMeet
<1>18. CASE UNCHANGED vars
  BY <1>18 DEF vars, ClusterInv, ClustersNeverSplit, ChangesMeet, Whole, Moved
<1>19. QED
  BY <1>1, <1>2, <1>3, <1>4, <1>5, <1>6, <1>7, <1>8, <1>9, <1>10, <1>11, <1>12,
     <1>13, <1>14, <1>15, <1>16, <1>17, <1>18 DEF Next

-------------------------------------------------------------------------------
(* The neighbour rows.  A location that is being added has no row until    *)
(* its neighbours are linked to it, and until its own rows are written     *)
(* together it is the only one that is linked one way.                     *)

Exempt == interrupted \cup (IF at = "link" THEN {location} ELSE {})

RowInv ==
  /\ created \in Nat /\ locations \subseteq 1 .. created
  /\ at \notin {"idle"} => location \in locations
  /\ at \in {"add", "delete", "link"} => clusters[location] = NoCluster
  /\ at \in {"add", "delete"} => \A row \in neighbours : location \notin {row[1], row[2]}
  /\ at = "link" => \A row \in neighbours : row[1] # location
  /\ at = "delete" => mergeInto \in locations \ {location}
  /\ at = "link" => todo \subseteq locations \ {location}
  /\ at = "join" => todo \subseteq locations
  /\ at \in {"join", "check"} => toCheck \subseteq locations
  /\ neighbours \subseteq locations \X locations
  /\ \A l, m \in Ids : <<l, m>> \in neighbours =>
       l # m /\ (<<m, l>> \in neighbours \/ Exempt \cap {l, m} # {})
  /\ \A l \in locations : listed[l] \in {Unknown, Rows(l)}
  /\ ClusteredExist

LEMMA ListedRows ==
  ASSUME RowInv, NEW l \in locations
  PROVE Neighbours(l) = Rows(l) /\ Neighbours(l) \subseteq locations
BY DEF RowInv, Neighbours, Rows

(* Founding a cluster around a location leaves the rows alone, and only    *)
(* existing locations join.                                                *)
LEMMA FoundRows ==
  ASSUME Types, RowInv, NEW l \in locations,
         at' = "join", todo' = Neighbours(l), location \in locations,
         clusters' = [clusters EXCEPT ![l] = joinId'],
         listed' = [listed EXCEPT ![l] = Neighbours(l)],
         toCheck' \subseteq locations \/ toCheck' = Neighbours(l),
         UNCHANGED <<created, locations, neighbours, location, interrupted>>,
         at # "link"
  PROVE RowInv'
<1>1. Neighbours(l) = Rows(l) /\ Neighbours(l) \subseteq locations
  BY ListedRows
<1>2. l \in Ids
  BY DEF Types
<1>3. \A m \in locations' : listed'[m] \in {Unknown, Rows(m)'}
  BY <1>1, <1>2 DEF RowInv, Rows, Types
<1>4. ClusteredExist'
  BY <1>2 DEF RowInv, ClusteredExist, Types
<1>5. \A k, m \in Ids : <<k, m>> \in neighbours' =>
        k # m /\ (<<m, k>> \in neighbours' \/ Exempt' \cap {k, m} # {})
  BY DEF RowInv, Exempt
<1>6. QED
  BY <1>1, <1>3, <1>4, <1>5 DEF RowInv

LEMMA RowStep == Types /\ RowInv /\ [Next]_vars => RowInv'
<1> SUFFICES ASSUME Types, RowInv, [Next]_vars PROVE RowInv'
  OBVIOUS
<1> USE DEF tables, cache, assign, history
<1>1. CASE NewLocation
  <2> DEFINE new == created + 1
  <2>1. /\ at = "idle" /\ at' = "add" /\ location' = new /\ new \in Ids /\ new \notin locations
        /\ created' = new /\ created' \in Nat /\ locations' \subseteq 1 .. created'
        /\ locations' = locations \cup {new}
        /\ UNCHANGED <<neighbours, clusters, interrupted>>
    BY <1>1, LocationAssumption DEF NewLocation, At, RowInv, Ids
  <2>2. /\ \A l \in locations : listed'[l] = listed[l]
        /\ listed'[new] = {}
    BY <1>1, <2>1 DEF NewLocation, Types
  <2>3. clusters[new] = NoCluster
    BY <2>1 DEF RowInv, ClusteredExist
  <2>4. \A row \in neighbours : new \notin {row[1], row[2]}
    BY <2>1 DEF RowInv
  <2>10. \A l : <<l, new>> \notin neighbours /\ <<new, l>> \notin neighbours
    BY <2>1 DEF RowInv
  <2>11. \A l \in locations : listed[l] \in {Unknown, Rows(l)}
    BY DEF RowInv
  <2>5. ASSUME NEW l \in locations' PROVE listed'[l] \in {Unknown, Rows(l)'}
    <3>1. CASE l = new
      <4>1. Rows(l)' = {}
        BY <2>1, <2>10, <3>1 DEF Rows
      <4>2. QED
        BY <2>2, <3>1, <4>1
    <3>2. CASE l \in locations
      <4>1. Rows(l)' = Rows(l)
        BY <2>1, <2>10 DEF Rows
      <4>2. QED
        BY <2>2, <2>11, <3>2, <4>1
    <3>3. QED
      BY <2>1, <3>1, <3>2
  <2>6. \A l, m \in Ids : <<l, m>> \in neighbours' =>
          l # m /\ (<<m, l>> \in neighbours' \/ Exempt' \cap {l, m} # {})
    BY <2>1, <2>10 DEF RowInv, Exempt
  <2>7. ClusteredExist'
    BY <2>1 DEF RowInv, ClusteredExist
  <2>8. neighbours' \subseteq locations' \X locations'
    BY <2>1 DEF RowInv
  <2>9. QED
    BY <2>1, <2>3, <2>4, <2>5, <2>6, <2>7, <2>8 DEF RowInv
<1>2. ASSUME NEW l \in Ids, Merge(l) PROVE RowInv'
  BY <1>2 DEF Merge, At, RowInv, Rows, Exempt, ClusteredExist
<1>3. CASE MergeDelete
  <2>1. /\ at = "delete" /\ at' = "assign" /\ location' = mergeInto
        /\ locations' = locations \ {location} /\ location \in locations
        /\ mergeInto \in locations \ {location}
        /\ UNCHANGED <<created, clusters, interrupted>>
        /\ clusters[location] = NoCluster
    BY <1>3 DEF MergeDelete, At, RowInv
  <2>2. neighbours' = neighbours
    BY <1>3, <2>1 DEF MergeDelete, RowInv
  <2>3. \A row \in neighbours : location \notin {row[1], row[2]}
    BY <2>1 DEF RowInv
  <2>4. \A l \in locations : location \notin Rows(l)
    BY <2>3 DEF Rows
  <2>5. \A l \in locations' : Rows(l)' = Rows(l)
    BY <2>1, <2>2, <2>3 DEF Rows
  <2>6. ASSUME NEW l \in locations' PROVE listed'[l] \in {Unknown, Rows(l)'}
    <3>1. l \in locations /\ l \in Ids /\ l # location
      BY <2>1 DEF Types
    <3>2. CASE l = mergeInto
      <4>1. listed'[l] = Neighbours(l) \ {location}
        BY <1>3, <3>1, <3>2 DEF MergeDelete, Types
      <4>2. QED
        BY <4>1, <3>1, <2>4, <2>5, ListedRows
    <3>3. CASE l # mergeInto
      BY <1>3, <3>1, <3>3, <2>5 DEF MergeDelete, Types, RowInv
    <3>4. QED
      BY <3>2, <3>3
  <2>7. ClusteredExist'
    BY <2>1 DEF RowInv, ClusteredExist
  <2>8. \A l, m \in Ids : <<l, m>> \in neighbours' =>
          l # m /\ (<<m, l>> \in neighbours' \/ Exempt' \cap {l, m} # {})
    BY <2>1, <2>2 DEF RowInv, Exempt
  <2>9. neighbours' \subseteq locations' \X locations'
    BY <2>1, <2>2, <2>3 DEF RowInv
  <2>10. QED
    BY <2>1, <2>6, <2>7, <2>8, <2>9 DEF RowInv
<1>4. ASSUME NEW near \in SUBSET Ids, FindNear(near) PROVE RowInv'
  <2>1. /\ at = "add" /\ at' = "link" /\ todo' \subseteq locations \ {location}
        /\ UNCHANGED <<created, locations, clusters, neighbours, location, listed,
                       interrupted>>
    BY <1>4 DEF FindNear, At
  <2>2. \A l \in locations' : listed'[l] \in {Unknown, Rows(l)'}
    BY <2>1 DEF RowInv, Rows
  <2>3. \A l, m \in Ids : <<l, m>> \in neighbours' =>
          l # m /\ (<<m, l>> \in neighbours' \/ Exempt' \cap {l, m} # {})
    BY <2>1 DEF RowInv, Exempt
  <2>4. QED
    BY <2>1, <2>2, <2>3 DEF RowInv, ClusteredExist
<1>5. ASSUME NEW n \in Ids, LinkNeighbour(n) PROVE RowInv'
  <2>1. /\ at = "link" /\ at' = "link" /\ n \in todo /\ todo' = todo \ {n}
        /\ neighbours' = neighbours \cup {<<n, location>>}
        /\ location \in locations /\ n \in locations /\ n # location
        /\ UNCHANGED <<created, locations, clusters, location, interrupted>>
    BY <1>5 DEF LinkNeighbour, RowInv
  <2>2. \A l \in locations : Rows(l)' = IF l = n THEN Rows(l) \cup {location} ELSE Rows(l)
    BY <2>1 DEF Rows
  <2>3. ASSUME NEW l \in locations' PROVE listed'[l] \in {Unknown, Rows(l)'}
    <3>1. l \in locations /\ l \in Ids
      BY <2>1 DEF Types
    <3>2. CASE l = n
      <4>1. listed'[l] = Neighbours(l) \cup {location}
        BY <1>5, <3>1, <3>2 DEF LinkNeighbour, Types
      <4>2. QED
        BY <4>1, <3>1, <3>2, <2>2, ListedRows
    <3>3. CASE l # n
      BY <1>5, <3>1, <3>3, <2>2 DEF LinkNeighbour, Types, RowInv
    <3>4. QED
      BY <3>2, <3>3
  <2>4. \A l, m \in Ids : <<l, m>> \in neighbours' =>
          l # m /\ (<<m, l>> \in neighbours' \/ Exempt' \cap {l, m} # {})
    BY <2>1 DEF RowInv, Exempt
  <2>5. neighbours' \subseteq locations' \X locations'
    BY <2>1 DEF RowInv
  <2>6. ClusteredExist'
    BY <2>1 DEF RowInv, ClusteredExist
  <2>7. QED
    BY <2>1, <2>3, <2>4, <2>5, <2>6 DEF RowInv
<1>6. CASE LinkLocation
  <2> DEFINE near == {n \in Ids : <<n, location>> \in neighbours}
  <2>1. /\ at = "link" /\ at' = "assign" /\ location \in locations /\ location \in Ids
        /\ neighbours' = neighbours \cup {<<location, n>> : n \in near}
        /\ UNCHANGED <<created, locations, clusters, location, interrupted>>
    BY <1>6 DEF LinkLocation, At, RowInv, Types
  <2>2. near \subseteq locations /\ location \notin near
    BY <2>1 DEF RowInv
  <2>3. \A l \in locations : Rows(l)' = IF l = location THEN Rows(l) \cup near ELSE Rows(l)
    BY <2>1, <2>2 DEF Rows
  <2>4. ASSUME NEW l \in locations' PROVE listed'[l] \in {Unknown, Rows(l)'}
    <3>1. l \in locations /\ l \in Ids
      BY <2>1 DEF Types
    <3>2. CASE l = location
      <4>1. listed'[l] = Neighbours(l) \cup near
        BY <1>6, <3>1, <3>2 DEF LinkLocation, Types
      <4>2. QED
        BY <4>1, <3>1, <3>2, <2>3, ListedRows
    <3>3. CASE l # location
      BY <1>6, <3>1, <3>3, <2>3 DEF LinkLocation, Types, RowInv
    <3>4. QED
      BY <3>2, <3>3
  <2>5. ASSUME NEW l \in Ids, NEW m \in Ids, <<l, m>> \in neighbours'
        PROVE l # m /\ (<<m, l>> \in neighbours' \/ Exempt' \cap {l, m} # {})
    <3>1. CASE <<l, m>> \in neighbours /\ m = location
      BY <2>1, <2>2, <3>1
    <3>2. CASE <<l, m>> \in neighbours /\ m # location /\ l # location
      BY <2>1, <3>2 DEF RowInv, Exempt
    <3>3. CASE l = location /\ m \in near
      BY <2>1, <2>2, <3>3
    <3>4. ~(l = location /\ <<l, m>> \in neighbours)
      <4>1. <<l, m>>[1] = l
        OBVIOUS
      <4>2. QED
        BY <2>1, <4>1 DEF RowInv
    <3>5. <<l, m>> \in neighbours \/ (l = location /\ m \in near)
      BY <2>1, <2>5
    <3>6. QED
      BY <3>1, <3>2, <3>3, <3>4, <3>5
  <2>6. neighbours' \subseteq locations' \X locations'
    <3> HIDE DEF near
    <3>1. ASSUME NEW row \in {<<location, n>> : n \in near}
          PROVE row \in locations \X locations
      <4>1. PICK n \in near : row = <<location, n>>
        OBVIOUS
      <4>2. location \in locations /\ n \in locations
        BY <2>1, <2>2
      <4>3. QED
        BY <4>1, <4>2
    <3>2. neighbours \subseteq locations \X locations
      BY DEF RowInv
    <3>3. QED
      BY <2>1, <3>1, <3>2
  <2>7. ClusteredExist'
    BY <2>1 DEF RowInv, ClusteredExist
  <2>8. QED
    BY <2>1, <2>4, <2>5, <2>6, <2>7 DEF RowInv
<1>7. CASE AssignNew
  <2>1. /\ at = "assign" /\ location \in locations /\ location \in Ids
        /\ Found(location, {}) /\ at' = "join"
        /\ toCheck' = Neighbours(location) /\ todo' = Neighbours(location)
        /\ clusters' = [clusters EXCEPT ![location] = joinId']
        /\ listed' = [listed EXCEPT ![location] = Neighbours(location)]
        /\ UNCHANGED <<created, locations, neighbours, location, interrupted>>
    BY <1>7 DEF AssignNew, Found, LoadNeighbours, RowInv, Types
  <2>2. QED
    BY <2>1, FoundRows
<1>8. CASE AssignKnown
  <2>1. /\ at = "assign" /\ at' = "check" /\ location \in locations
        /\ toCheck' = Neighbours(location)
        /\ listed' = [listed EXCEPT ![location] = Neighbours(location)]
        /\ UNCHANGED <<created, locations, neighbours, clusters, location, interrupted>>
    BY <1>8 DEF AssignKnown, At, LoadNeighbours, RowInv
  <2>2. Neighbours(location) = Rows(location) /\ Neighbours(location) \subseteq locations
    BY <2>1, ListedRows
  <2>3. \A l \in locations' : listed'[l] \in {Unknown, Rows(l)'}
    BY <2>1, <2>2 DEF RowInv, Rows, Types
  <2>4. QED
    BY <2>1, <2>2, <2>3 DEF RowInv, Exempt, ClusteredExist
<1>9. ASSUME NEW n \in Ids, Join(n) PROVE RowInv'
  <2>1. /\ at = "join" /\ at' = "join" /\ n \in todo /\ todo' = todo \ {n}
        /\ n \in locations
        /\ clusters' = [clusters EXCEPT ![n] = joinId]
        /\ UNCHANGED <<created, locations, neighbours, listed, location, toCheck,
                       interrupted>>
    BY <1>9 DEF Join, RowInv
  <2>2. ClusteredExist'
    BY <2>1 DEF RowInv, ClusteredExist, Types
  <2>3. QED
    BY <2>1, <2>2 DEF RowInv, Exempt, Rows
<1>10. CASE JoinEnd
  BY <1>10 DEF JoinEnd, At, RowInv, Exempt, Rows, ClusteredExist
<1>11. ASSUME NEW n \in Ids, CheckFounds(n) PROVE RowInv'
  <2>1. /\ at = "check" /\ location \in locations /\ n \in locations
        /\ at' = "join" /\ todo' = Neighbours(n)
        /\ toCheck' \subseteq locations
        /\ clusters' = [clusters EXCEPT ![n] = joinId']
        /\ listed' = [listed EXCEPT ![n] = Neighbours(n)]
        /\ UNCHANGED <<created, locations, neighbours, location, interrupted>>
    BY <1>11 DEF CheckFounds, Found, LoadNeighbours, RowInv
  <2>2. QED
    BY <2>1, FoundRows
<1>12. ASSUME NEW n \in Ids, CheckPasses(n) PROVE RowInv'
  <2>1. /\ at = "check" /\ at' = "check" /\ toCheck' \subseteq toCheck
        /\ UNCHANGED <<created, locations, neighbours, clusters, listed, location,
                       interrupted>>
    BY <1>12 DEF CheckPasses
  <2>2. QED
    BY <2>1 DEF RowInv, Exempt, Rows, ClusteredExist
<1>13. CASE MergeClusters
  BY <1>13 DEF MergeClusters, At, RowInv, Exempt, Rows, ClusteredExist
<1>14. ASSUME NEW id, id \in clustersToMerge, Relabel(id) PROVE RowInv'
  <2>1. /\ at = "relabel" /\ at' = "relabel" /\ id # NoCluster
        /\ UNCHANGED <<created, locations, neighbours, listed, location, interrupted>>
        /\ \A l \in Ids : clusters'[l] = IF clusters[l] = id THEN clusterId ELSE clusters[l]
    BY <1>14 DEF Relabel, Types, NoCluster
  <2>2. ClusteredExist'
    BY <2>1 DEF RowInv, ClusteredExist
  <2>3. QED
    BY <2>1, <2>2 DEF RowInv, Exempt, Rows
<1>15. CASE Return
  <2>1. /\ at \in {"relabel", "check"} /\ at' = "idle"
        /\ UNCHANGED <<created, locations, neighbours, clusters, listed, location,
                       interrupted>>
    BY <1>15 DEF Return
  <2>2. QED
    BY <2>1 DEF RowInv, Exempt, Rows, ClusteredExist
<1>16. ASSUME NEW n \in Ids, Evict(n) PROVE RowInv'
  <2>1. /\ UNCHANGED <<created, locations, neighbours, clusters, at, location, mergeInto,
                       todo, toCheck, interrupted>>
        /\ \A l \in Ids : listed'[l] \in {Unknown, listed[l]}
    BY <1>16 DEF Evict, Types
  <2>2. QED
    BY <2>1 DEF RowInv, Exempt, Rows, ClusteredExist, Types
<1>17. CASE Crash
  <2>1. /\ at' = "idle" /\ interrupted' = interrupted \cup {location}
        /\ UNCHANGED <<created, locations, neighbours, clusters>>
        /\ \A l \in Ids : listed'[l] = Unknown
    BY <1>17 DEF Crash
  <2>2. QED
    BY <2>1 DEF RowInv, Exempt, ClusteredExist, Types
<1>18. CASE UNCHANGED vars
  BY <1>18 DEF vars, RowInv, Exempt, Rows, ClusteredExist
<1>19. QED
  BY <1>1, <1>2, <1>3, <1>4, <1>5, <1>6, <1>7, <1>8, <1>9, <1>10, <1>11, <1>12,
     <1>13, <1>14, <1>15, <1>16, <1>17, <1>18 DEF Next

-------------------------------------------------------------------------------
(* What assignToCluster returns.  As long as no crash has left a link one  *)
(* way, a cluster founded around a neighbour of location takes location in *)
(* as well or finds its cluster, so that the cluster of location is always *)
(* one of those that are to be merged.                                     *)

ReturnInv ==
  interrupted = {} =>
    /\ at \in {"join", "check"} =>
         /\ toCheck \subseteq Rows(location)
         /\ clusterId # NoCluster => clusterId \in clustersToMerge
    /\ at = "join" => clusters[location] \in clustersToMerge \/ location \in todo
    /\ at = "check" => clusters[location] \in clustersToMerge \/ clustersToMerge = {}
    /\ at = "relabel" => clusters[location] \in todo \cup {clusterId}
    /\ ReturnedIsCluster

(* Steps on the way to assignToCluster leave nothing to show.              *)
LEMMA NothingReturned ==
  ASSUME at' \in {"add", "delete", "link", "assign"}
  PROVE ReturnInv'
BY DEF ReturnInv, ReturnedIsCluster

LEMMA ReturnStep ==
  Types /\ ClusterInv /\ RowInv /\ ReturnInv /\ [Next]_vars => ReturnInv'
<1> SUFFICES ASSUME Types, ClusterInv, RowInv, ReturnInv, [Next]_vars PROVE ReturnInv'
  OBVIOUS
<1> USE DEF tables, cache, assign, history
<1>1. CASE NewLocation
  BY <1>1, NothingReturned DEF NewLocation, At
<1>2. ASSUME NEW l \in Ids, Merge(l) PROVE ReturnInv'
  BY <1>2, NothingReturned DEF Merge, At
<1>3. CASE MergeDelete
  BY <1>3, NothingReturned DEF MergeDelete, At
<1>4. ASSUME NEW near \in SUBSET Ids, FindNear(near) PROVE ReturnInv'
  BY <1>4, NothingReturned DEF FindNear, At
<1>5. ASSUME NEW l \in Ids, LinkNeighbour(l) PROVE ReturnInv'
  BY <1>5, NothingReturned DEF LinkNeighbour
<1>6. CASE LinkLocation
  BY <1>6, NothingReturned DEF LinkLocation, At
<1>7. CASE AssignNew
  <2>1. /\ location \in locations /\ location \in Ids /\ at' = "join"
        /\ joinId' \in clustersToMerge' /\ clusterId' = joinId'
        /\ clusters' = [clusters EXCEPT ![location] = joinId']
        /\ toCheck' = Neighbours(location)
        /\ UNCHANGED <<locations, neighbours, location>>
    BY <1>7 DEF AssignNew, Found, RowInv, Types
  <2>2. clusters'[location'] \in clustersToMerge'
    BY <2>1 DEF Types
  <2>3. toCheck' \subseteq Rows(location)'
    BY <2>1, ListedRows DEF Rows
  <2>4. QED
    BY <2>1, <2>2, <2>3 DEF ReturnInv, ReturnedIsCluster
<1>8. CASE AssignKnown
  <2>1. /\ location \in locations /\ at' = "check"
        /\ clusterId' = clusters[location] /\ clustersToMerge' = ClusterIds({location})
        /\ toCheck' = Neighbours(location)
        /\ UNCHANGED <<locations, neighbours, location, clusters>>
    BY <1>8 DEF AssignKnown, At, RowInv
  <2>2. toCheck' \subseteq Rows(location)'
    BY <2>1, ListedRows DEF Rows
  <2>3. clusters[location] # NoCluster => clusters[location] \in clustersToMerge'
    BY <2>1 DEF ClusterIds
  <2>4. clusters[location] = NoCluster => clustersToMerge' = {}
    BY <2>1 DEF ClusterIds
  <2>5. QED
    BY <2>1, <2>2, <2>3, <2>4 DEF ReturnInv, ReturnedIsCluster
<1>9. ASSUME NEW n \in Ids, Join(n) PROVE ReturnInv'
  <2>1. /\ at = "join" /\ at' = "join" /\ todo' = todo \ {n}
        /\ location \in Ids /\ joinId \in clustersToMerge
        /\ clusters' = [clusters EXCEPT ![n] = joinId]
        /\ UNCHANGED <<locations, neighbours, location, toCheck, clustersToMerge,
                       clusterId, interrupted>>
    BY <1>9 DEF Join, RowInv, ClusterInv, Types
  <2>2. Rows(location)' = Rows(location)
    BY <2>1 DEF Rows
  <2>3. clusters'[location] = IF location = n THEN joinId ELSE clusters[location]
    BY <2>1 DEF Types
  <2>4. QED
    BY <2>1, <2>2, <2>3 DEF ReturnInv, ReturnedIsCluster
<1>10. CASE JoinEnd
  BY <1>10 DEF JoinEnd, At, ReturnInv, ReturnedIsCluster, Rows
<1>11. ASSUME NEW n \in Ids, CheckFounds(n) PROVE ReturnInv'
  <2> SUFFICES ASSUME interrupted' = {} PROVE ReturnInv'
    BY DEF ReturnInv
  <2>1. /\ at = "check" /\ at' = "join" /\ n \in toCheck /\ toCheck' \subseteq toCheck
        /\ location \in locations /\ location \in Ids /\ n \in locations
        /\ todo' = Neighbours(n) /\ clustersToMerge \subseteq clustersToMerge'
        /\ interrupted = {}
        /\ UNCHANGED <<locations, neighbours, location, clusterId>>
    BY <1>11 DEF CheckFounds, Found, RowInv, Types
  <2>2. <<location, n>> \in neighbours
    BY <2>1 DEF ReturnInv, Rows
  <2>3. <<n, location>> \in neighbours
    BY <2>1, <2>2 DEF RowInv, Exempt
  <2>4. location \in Neighbours(n)
    BY <2>1, <2>3, ListedRows DEF Rows
  <2>5. toCheck' \subseteq Rows(location)'
    BY <2>1 DEF ReturnInv, Rows
  <2>6. clusterId' # NoCluster => clusterId' \in clustersToMerge'
    BY <2>1 DEF ReturnInv
  <2>7. QED
    BY <2>1, <2>4, <2>5, <2>6 DEF ReturnInv, ReturnedIsCluster
<1>12. ASSUME NEW n \in Ids, CheckPasses(n) PROVE ReturnInv'
  BY <1>12 DEF CheckPasses, ReturnInv, ReturnedIsCluster, Rows
<1>13. CASE MergeClusters
  <2>1. /\ at = "check" /\ at' = "relabel" /\ todo' = clustersToMerge
        /\ clustersToMerge # {}
        /\ UNCHANGED <<clusters, location, interrupted>>
    BY <1>13 DEF MergeClusters, At, SeveralToMerge
  <2>2. QED
    BY <2>1 DEF ReturnInv, ReturnedIsCluster
<1>14. ASSUME NEW id, Relabel(id) PROVE ReturnInv'
  <2>1. /\ at = "relabel" /\ at' = "relabel" /\ todo' = todo \ {id} /\ location \in Ids
        /\ clusters' = [l \in Ids |-> IF clusters[l] = id THEN clusterId ELSE clusters[l]]
        /\ UNCHANGED <<location, clusterId, interrupted>>
    BY <1>14 DEF Relabel, RowInv, Types
  <2>2. clusters'[location] = IF clusters[location] = id THEN clusterId ELSE clusters[location]
    BY <2>1
  <2>3. QED
    BY <2>1, <2>2 DEF ReturnInv, ReturnedIsCluster
<1>15. CASE Return
  <2>1. /\ at' = "idle"
        /\ UNCHANGED <<clusters, location, clustersToMerge, clusterId, interrupted>>
        /\ \/ at = "relabel" /\ todo = {}
           \/ at = "check" /\ ~SeveralToMerge
    BY <1>15 DEF Return
  <2>2. CASE at = "relabel" /\ todo = {}
    BY <2>1, <2>2 DEF ReturnInv, ReturnedIsCluster
  <2>3. CASE at = "check" /\ ~SeveralToMerge
    BY <2>1, <2>3 DEF ReturnInv, ReturnedIsCluster, SeveralToMerge
  <2>4. QED
    BY <2>1, <2>2, <2>3
<1>16. ASSUME NEW l \in Ids, Evict(l) PROVE ReturnInv'
  BY <1>16 DEF Evict, ReturnInv, ReturnedIsCluster, Rows
<1>17. CASE Crash
  BY <1>17 DEF Crash, ReturnInv
<1>18. CASE UNCHANGED vars
  BY <1>18 DEF vars, ReturnInv, ReturnedIsCluster, Rows
<1>19. QED
  BY <1>1, <1>2, <1>3, <1>4, <1>5, <1>6, <1>7, <1>8, <1>9, <1>10, <1>11, <1>12,
     <1>13, <1>14, <1>15, <1>16, <1>17, <1>18 DEF Next

-------------------------------------------------------------------------------
(* Every observed location counts once.                                    *)

(* While a new location is being merged, its count is in two places.       *)
Doubled == IF at = "delete" THEN 1 ELSE 0

(* The types that the counts need, and what TypeOK says beyond Types.      *)
CountTypes ==
  /\ created \in 0 .. MaxLocations /\ numMerged \in [Ids -> Nat]
  /\ counted \in [Ids -> Nat \cup {-1}]
  /\ interrupted \subseteq 1 .. created /\ crashes \in 0 .. MaxCrashes
  /\ todo \subseteq Nat /\ toCheck \subseteq Ids /\ clusterId \in Nat \cup {NoCluster}

CountInv ==
  /\ CountTypes
  /\ at \in {"add", "delete"} => numMerged[location] = 1 /\ location \notin interrupted
  /\ created + Doubled <= Weight(locations)
  /\ Weight(locations) <= created + Cardinality(interrupted) + Doubled

LEMMA SomeFinite ==
  ASSUME Types, CountTypes, locations \subseteq 1 .. created, NEW S \in SUBSET locations
  PROVE  IsFiniteSet(S) /\ S \subseteq Ids /\ Weight(S) \in Nat
<1>1. IsFiniteSet(1 .. created)
  BY FS_Interval DEF CountTypes
<1>2. IsFiniteSet(S) /\ S \subseteq Ids
  BY <1>1, FS_Subset DEF Types
<1>3. \A l \in S : numMerged[l] \in Nat
  BY <1>2 DEF CountTypes
<1>4. SumFunctionOnSet(numMerged, S) \in Nat
  BY <1>2, <1>3, SumIsNat
<1>5. QED
  BY <1>2, <1>4 DEF Weight

(* The numbers that are cached, and those that are read from the rows.     *)
LEMMA NumbersAreNat ==
  ASSUME Types, CountTypes, locations \subseteq 1 .. created, NEW l \in Ids
  PROVE  NumNeighbours(l) \in Nat /\ NumListed(l) \in Nat
<1>1. Weight(Rows(l)) \in Nat
  BY SomeFinite DEF Rows
<1>2. NumNeighbours(l) \in Nat
  BY <1>1 DEF NumNeighbours, CountTypes
<1>3. QED
  BY <1>1, <1>2 DEF NumListed

LEMMA LoadCounts ==
  ASSUME Types, CountTypes, locations \subseteq 1 .. created, NEW l \in Ids, LoadNeighbours(l)
  PROVE  counted' \in [Ids -> Nat \cup {-1}]
<1>1. NumListed(l) \in Nat
  BY NumbersAreNat
<1>2. QED
  BY <1>1 DEF LoadNeighbours, CountTypes

LEMMA InterruptedFinite ==
  ASSUME CountTypes
  PROVE  IsFiniteSet(interrupted) /\ Cardinality(interrupted) \in Nat
<1>1. IsFiniteSet(1 .. created) /\ interrupted \subseteq 1 .. created
  BY FS_Interval DEF CountTypes
<1>2. IsFiniteSet(interrupted)
  BY <1>1, FS_Subset
<1>3. QED
  BY <1>2, FS_CardinalityType

LEMMA CountTypesStep ==
  Types /\ ClusterInv /\ RowInv /\ CountInv /\ [Next]_vars => CountTypes'
<1> SUFFICES ASSUME Types, ClusterInv, RowInv, CountInv, [Next]_vars PROVE CountTypes'
  OBVIOUS
<1>a. CountTypes /\ locations \subseteq 1 .. created /\ Ids \subseteq Nat
  BY DEF CountInv, RowInv, Ids
<1> USE DEF tables, cache, assign, history
<1>1. CASE NewLocation
  <2>1. /\ created < MaxLocations /\ created' = created + 1 /\ created \in 0 .. MaxLocations
        /\ created' \in Ids
        /\ numMerged' = [numMerged EXCEPT ![created'] = 1]
        /\ counted' = [counted EXCEPT ![created'] = -1]
    BY <1>1, <1>a, LocationAssumption DEF NewLocation, CountTypes, Ids
  <2>2. created' \in 0 .. MaxLocations /\ interrupted' \subseteq 1 .. created'
    BY <1>1, <1>a, <2>1, LocationAssumption DEF NewLocation, CountTypes
  <2>3. QED
    BY <1>1, <1>a, <2>1, <2>2 DEF NewLocation, FreshLocals, CountTypes, NoCluster
<1>2. ASSUME NEW l \in Ids, Merge(l) PROVE CountTypes'
  <2>1. location \in Ids
    BY <1>2 DEF Merge, At, Types
  <2>2. numMerged[l] + numMerged[location] \in Nat
    BY <1>a, <2>1 DEF CountTypes
  <2>3. QED
    BY <1>2, <1>a, <2>2 DEF Merge, CountTypes
<1>3. CASE MergeDelete
  BY <1>3, <1>a DEF MergeDelete, CountTypes
<1>4. ASSUME NEW near \in SUBSET Ids, FindNear(near) PROVE CountTypes'
  BY <1>4, <1>a DEF FindNear, CountTypes
<1>5. ASSUME NEW l \in Ids, LinkNeighbour(l) PROVE CountTypes'
  BY <1>5, <1>a DEF LinkNeighbour, CountTypes
<1>6. CASE LinkLocation
  BY <1>6, <1>a DEF LinkLocation, CountTypes
<1>7. CASE AssignNew
  <2>1. location \in Ids /\ at' = "join" /\ Found(location, {}) /\ LoadNeighbours(location)
    BY <1>7 DEF AssignNew, Found, Types
  <2>2. counted' \in [Ids -> Nat \cup {-1}]
    BY <1>a, <2>1, LoadCounts
  <2>3. joinId' \in Nat /\ todo' \subseteq Ids /\ Neighbours(location) \subseteq Ids
    BY <2>1, FoundTypes, RowsAreIds
  <2>4. /\ UNCHANGED <<created, numMerged, interrupted, crashes>>
        /\ clusterId' = joinId' /\ toCheck' = Neighbours(location)
    BY <1>7 DEF AssignNew
  <2>5. QED
    BY <1>a, <2>2, <2>3, <2>4 DEF CountTypes
<1>8. CASE AssignKnown
  <2>1. location \in Ids /\ LoadNeighbours(location)
    BY <1>8 DEF AssignKnown, At, Types
  <2>2. counted' \in [Ids -> Nat \cup {-1}]
    BY <1>a, <2>1, LoadCounts
  <2>3. Neighbours(location) \subseteq Ids /\ clusters[location] \in Nat \cup {NoCluster}
    BY <2>1, RowsAreIds DEF Types
  <2>4. QED
    BY <1>8, <1>a, <2>2, <2>3 DEF AssignKnown, CountTypes
<1>9. ASSUME NEW l \in Ids, Join(l) PROVE CountTypes'
  BY <1>9, <1>a DEF Join, CountTypes
<1>10. CASE JoinEnd
  BY <1>10, <1>a DEF JoinEnd, CountTypes
<1>11. ASSUME NEW l \in Ids, CheckFounds(l) PROVE CountTypes'
  <2>1. /\ at' = "join" /\ Found(l, clustersToMerge) /\ LoadNeighbours(l)
        /\ clustersToMerge \subseteq Nat
    BY <1>11 DEF CheckFounds, Found, Types
  <2>2. counted' \in [Ids -> Nat \cup {-1}]
    BY <1>a, <2>1, LoadCounts
  <2>3. todo' \subseteq Ids
    BY <2>1, FoundTypes
  <2>4. /\ UNCHANGED <<created, numMerged, interrupted, crashes, clusterId>>
        /\ toCheck' \subseteq toCheck
    BY <1>11 DEF CheckFounds
  <2>5. QED
    BY <1>a, <2>2, <2>3, <2>4 DEF CountTypes
<1>12. ASSUME NEW l \in Ids, CheckPasses(l) PROVE CountTypes'
  <2>1. NumNeighbours(l) \in Nat
    BY <1>a, NumbersAreNat
  <2>2. QED
    BY <1>12, <1>a, <2>1 DEF CheckPasses, CountTypes
<1>13. CASE MergeClusters
  BY <1>13, <1>a DEF MergeClusters, CountTypes, Types
<1>14. ASSUME NEW id, Relabel(id) PROVE CountTypes'
  BY <1>14, <1>a DEF Relabel, CountTypes
<1>15. CASE Return
  BY <1>15, <1>a DEF Return, CountTypes
<1>16. ASSUME NEW l \in Ids, Evict(l) PROVE CountTypes'
  BY <1>16, <1>a DEF Evict, CountTypes
<1>17. CASE Crash
  <2>1. location \in 1 .. created
    BY <1>17, <1>a DEF Crash, RowInv
  <2>2. interrupted' \subseteq 1 .. created'
    BY <1>17, <1>a, <2>1 DEF Crash, CountTypes
  <2>3. crashes' \in 0 .. MaxCrashes
    BY <1>17, <1>a, LocationAssumption DEF Crash, CountTypes
  <2>4. QED
    BY <1>17, <1>a, <2>2, <2>3 DEF Crash, FreshLocals, CountTypes
<1>18. CASE UNCHANGED vars
  BY <1>18, <1>a DEF vars, CountTypes
<1>19. QED
  BY <1>1, <1>2, <1>3, <1>4, <1>5, <1>6, <1>7, <1>8, <1>9, <1>10, <1>11, <1>12,
     <1>13, <1>14, <1>15, <1>16, <1>17, <1>18 DEF Next

(* Whatever is not a new location, a merge or a crash leaves the counts.   *)
LEMMA CountUntouched ==
  ASSUME CountInv, UNCHANGED <<created, locations, numMerged, interrupted>>,
         at # "delete" /\ at' # "delete", at' = "add" => at = "add" /\ UNCHANGED location,
         CountTypes'
  PROVE  CountInv'
BY DEF CountInv, Doubled, Weight

LEMMA CountStep ==
  Types /\ ClusterInv /\ RowInv /\ CountInv /\ [Next]_vars => CountInv'
<1> SUFFICES ASSUME Types, ClusterInv, RowInv, CountInv, [Next]_vars PROVE CountInv'
  OBVIOUS
<1>a. CountTypes /\ CountTypes' /\ locations \subseteq 1 .. created
  BY CountTypesStep DEF CountInv, RowInv
<1>b. /\ IsFiniteSet(locations) /\ Weight(locations) \in Nat /\ created \in Nat
      /\ \A l \in locations : numMerged[l] \in Nat /\ numMerged'[l] \in Nat
  BY <1>a, SomeFinite DEF CountTypes, Types
<1>c. /\ created + Doubled <= Weight(locations)
      /\ Weight(locations) <= created + Cardinality(interrupted) + Doubled
      /\ Cardinality(interrupted) \in Nat
      /\ at \in {"add", "delete"} => numMerged[location] = 1 /\ location \notin interrupted
  BY <1>a, InterruptedFinite DEF CountInv
<1> USE DEF tables, cache, assign, history
<1>1. CASE NewLocation
  <2>1. /\ at = "idle" /\ at' = "add" /\ created' = created + 1 /\ location' = created + 1
        /\ locations' = locations \cup {created + 1} /\ interrupted' = interrupted
        /\ numMerged' = [numMerged EXCEPT ![created + 1] = 1]
        /\ created + 1 \in Ids
    BY <1>1, <1>b, LocationAssumption DEF NewLocation, At, Ids
  <2>2. created + 1 \notin locations /\ created + 1 \notin interrupted
    BY <1>a, <1>b DEF CountTypes
  <2>3. numMerged'[created + 1] = 1 /\ \A l \in locations : numMerged'[l] = numMerged[l]
    BY <1>a, <2>1, <2>2 DEF CountTypes
  <2> DEFINE new == locations \cup {created + 1}
  <2>4. IsFiniteSet(new) /\ new \ {created + 1} = locations
    BY <1>b, <2>2, FS_AddElement
  <2>5. SumFunctionOnSet(numMerged', new) = 1 + SumFunctionOnSet(numMerged', locations)
    <3>1. \A l \in new : numMerged'[l] \in Int
      BY <1>b, <2>3
    <3>2. created + 1 \in new
      OBVIOUS
    <3> HIDE DEF new
    <3>3. SumFunctionOnSet(numMerged', new)
            = numMerged'[created + 1] + SumFunctionOnSet(numMerged', new \ {created + 1})
      BY <2>4, <3>1, <3>2, SumTakesOut
    <3>. QED  BY <2>3, <2>4, <3>3
  <2>6. SumFunctionOnSet(numMerged, locations) = SumFunctionOnSet(numMerged', locations)
    <3>1. \A l \in locations : numMerged[l] \in Int /\ numMerged'[l] = numMerged[l]
      BY <1>b, <2>3
    <3>. QED  BY <1>b, <3>1, SumOfEqual
  <2>7. Weight(locations)' = Weight(locations) + 1
    BY <1>b, <2>1, <2>5, <2>6 DEF Weight
  <2>8. QED
    BY <1>a, <1>b, <1>c, <2>1, <2>2, <2>3, <2>7 DEF CountInv, Doubled
<1>2. ASSUME NEW dst \in Ids, Merge(dst) PROVE CountInv'
  <2>1. /\ at = "add" /\ at' = "delete" /\ dst \in locations /\ dst # location
        /\ location \in locations
        /\ numMerged' = [numMerged EXCEPT ![dst] = numMerged[dst] + numMerged[location]]
        /\ UNCHANGED <<created, locations, interrupted, location>>
    BY <1>2 DEF Merge, At, RowInv
  <2>2. /\ numMerged'[dst] = numMerged[dst] + 1
        /\ \A l \in locations : l # dst => numMerged'[l] = numMerged[l]
    BY <1>a, <1>c, <2>1 DEF CountTypes
  <2>3. SumFunctionOnSet(numMerged', locations)
          = SumFunctionOnSet(numMerged, locations) - numMerged[dst] + numMerged'[dst]
    <3>1. \A l \in locations : /\ numMerged[l] \in Int /\ numMerged'[l] \in Int
                               /\ l # dst => numMerged'[l] = numMerged[l]
      BY <1>b, <2>2
    <3>2. IsFiniteSet(locations) /\ dst \in locations
      BY <1>b, <2>1
    <3>3. PICK old, new : old = numMerged /\ new = numMerged'
      OBVIOUS
    <3>4. \A l \in locations : old[l] \in Int /\ new[l] \in Int /\ (l # dst => new[l] = old[l])
      BY <3>1, <3>3
    <3>5. SumFunctionOnSet(new, locations) = SumFunctionOnSet(old, locations) - old[dst] + new[dst]
      BY <3>2, <3>4, SumChanges
    <3>. QED  BY <3>3, <3>5
  <2>4. Weight(locations)' = Weight(locations) + 1
    BY <1>b, <2>1, <2>2, <2>3 DEF Weight
  <2>5. numMerged'[location] = 1
    BY <1>c, <2>1, <2>2
  <2>6. QED
    BY <1>a, <1>b, <1>c, <2>1, <2>4, <2>5 DEF CountInv, Doubled
<1>3. CASE MergeDelete
  <2>1. /\ at = "delete" /\ at' = "assign" /\ location \in locations
        /\ locations' = locations \ {location}
        /\ UNCHANGED <<created, numMerged, interrupted>>
    BY <1>3 DEF MergeDelete, At, RowInv
  <2>2. SumFunctionOnSet(numMerged, locations)
          = numMerged[location] + SumFunctionOnSet(numMerged, locations \ {location})
    <3>1. \A l \in locations : numMerged[l] \in Int
      BY <1>b
    <3>. QED  BY <1>b, <2>1, <3>1, SumTakesOut
  <2>3. Weight(locations \ {location}) \in Nat
    BY <1>a, SomeFinite
  <2>4. Weight(locations)' = Weight(locations) - 1
    BY <1>b, <1>c, <2>1, <2>2, <2>3 DEF Weight
  <2>5. QED
    BY <1>a, <1>b, <1>c, <2>1, <2>4 DEF CountInv, Doubled
<1>4. ASSUME NEW near \in SUBSET Ids, FindNear(near) PROVE CountInv'
  BY <1>4, <1>a, CountUntouched DEF FindNear, At
<1>5. ASSUME NEW l \in Ids, LinkNeighbour(l) PROVE CountInv'
  BY <1>5, <1>a, CountUntouched DEF LinkNeighbour
<1>6. CASE LinkLocation
  BY <1>6, <1>a, CountUntouched DEF LinkLocation, At
<1>7. CASE AssignNew
  BY <1>7, <1>a, CountUntouched DEF AssignNew, Found
<1>8. CASE AssignKnown
  BY <1>8, <1>a, CountUntouched DEF AssignKnown, At
<1>9. ASSUME NEW l \in Ids, Join(l) PROVE CountInv'
  BY <1>9, <1>a, CountUntouched DEF Join
<1>10. CASE JoinEnd
  BY <1>10, <1>a, CountUntouched DEF JoinEnd, At
<1>11. ASSUME NEW l \in Ids, CheckFounds(l) PROVE CountInv'
  BY <1>11, <1>a, CountUntouched DEF CheckFounds, Found
<1>12. ASSUME NEW l \in Ids, CheckPasses(l) PROVE CountInv'
  BY <1>12, <1>a, CountUntouched DEF CheckPasses
<1>13. CASE MergeClusters
  BY <1>13, <1>a, CountUntouched DEF MergeClusters, At
<1>14. ASSUME NEW id, Relabel(id) PROVE CountInv'
  BY <1>14, <1>a, CountUntouched DEF Relabel
<1>15. CASE Return
  BY <1>15, <1>a, CountUntouched DEF Return
<1>16. ASSUME NEW l \in Ids, Evict(l) PROVE CountInv'
  <2>1. UNCHANGED <<at, location, created, locations, numMerged, interrupted>>
    BY <1>16 DEF Evict
  <2>2. QED
    BY <1>a, <2>1 DEF CountInv, Doubled, Weight
<1>17. CASE Crash
  <2>1. /\ at' = "idle" /\ interrupted' = interrupted \cup {location}
        /\ UNCHANGED <<created, locations, numMerged>>
    BY <1>17 DEF Crash
  <2>2. IsFiniteSet(interrupted)
    BY <1>a, InterruptedFinite
  <2>3. Cardinality(interrupted') = IF location \in interrupted THEN Cardinality(interrupted)
                                    ELSE Cardinality(interrupted) + 1
    BY <2>1, <2>2, FS_AddElement
  <2>4. Weight(locations)' = Weight(locations)
    BY <2>1 DEF Weight
  <2>5. QED
    BY <1>a, <1>b, <1>c, <2>1, <2>3, <2>4 DEF CountInv, Doubled
<1>18. CASE UNCHANGED vars
  BY <1>18, <1>a DEF vars, CountInv, Doubled, Weight
<1>19. QED
  BY <1>1, <1>2, <1>3, <1>4, <1>5, <1>6, <1>7, <1>8, <1>9, <1>10, <1>11, <1>12,
     <1>13, <1>14, <1>15, <1>16, <1>17, <1>18 DEF Next

-------------------------------------------------------------------------------

ClusteringInv == Types /\ ClusterInv /\ RowInv /\ ReturnInv /\ CountInv

LEMMA InitHolds == Init => ClusteringInv
<1> SUFFICES ASSUME Init PROVE ClusteringInv
  OBVIOUS
<1>1. Types
  BY DEF Init, Types, NoCluster, NoLocation, Unknown
<1>2. ClusterInv
  BY DEF Init, ClusterInv, ClustersNeverSplit, ChangesMeet, NoCluster
<1>3. RowInv
  BY DEF Init, RowInv, ClusteredExist
<1>4. ReturnInv
  BY DEF Init, ReturnInv, ReturnedIsCluster
<1>5. CountInv
  <2>1. /\ created = 0 /\ locations = {} /\ interrupted = {} /\ at = "idle"
        /\ Weight({}) = 0 /\ Cardinality({}) = 0
    BY SumEmpty, FS_EmptySet DEF Init, Weight
  <2>2. CountTypes
    BY LocationAssumption DEF Init, CountTypes, NoCluster
  <2>3. QED
    BY <2>1, <2>2 DEF CountInv, Doubled
<1>6. QED
  BY <1>1, <1>2, <1>3, <1>4, <1>5 DEF ClusteringInv

LEMMA InvariantHolds == Spec => []ClusteringInv
<1>1. ClusteringInv /\ [Next]_vars => ClusteringInv'
  BY TypesStep, ClusterStep, RowStep, ReturnStep, CountStep DEF ClusteringInv
<1>2. QED
  BY <1>1, InitHolds, PTL DEF Spec

(* assignToCluster takes locations out of their clusters one by one, but   *)
(* an operation that is not cut short never separates two locations of one *)
(* cluster.                                                                *)
THEOREM ClustersStayWhole == Spec => []ClustersNeverSplit
<1>1. ClusteringInv => ClustersNeverSplit
  BY DEF ClusteringInv, ClusterInv
<1>2. QED
  BY <1>1, InvariantHolds, PTL

(* Everything that an operation moves to another cluster is in one and the *)
(* same cluster when assignToCluster returns.                              *)
THEOREM ChangesEndTogether == Spec => []ChangesMeet
<1>1. ClusteringInv => ChangesMeet
  BY DEF ClusteringInv, ClusterInv
<1>2. QED
  BY <1>1, InvariantHolds, PTL

(* Rows of the neighbours table go both ways, unless a crash came between  *)
(* addNeighbour on the neighbours and addNeighbours on the new location,   *)
(* and neither rows nor clusters refer to a location that has been merged  *)
(* away.                                                                   *)
THEOREM TablesAlwaysAgree == Spec => []TablesAgree
<1>1. ASSUME Types, RowInv, at = "idle", NEW row \in neighbours
      PROVE /\ row[1] # row[2] /\ {row[1], row[2]} \subseteq locations
            /\ <<row[2], row[1]>> \in neighbours \/ interrupted \cap {row[1], row[2]} # {}
  <2>1. row \in locations \X locations
    BY <1>1 DEF RowInv
  <2>2. PICK l \in locations, m \in locations : row = <<l, m>>
    BY <2>1
  <2>3. l \in Ids /\ m \in Ids
    BY <1>1 DEF Types
  <2>4. QED
    BY <1>1, <2>2, <2>3 DEF RowInv, Exempt
<1>2. ClusteringInv => TablesAgree
  BY <1>1 DEF ClusteringInv, TablesAgree, LinksMutual, RowInv
<1>3. QED
  BY <1>2, InvariantHolds, PTL

(* The neighbours that a Location object caches are those in its rows.     *)
THEOREM CachedListsAreCurrent == Spec => []CachedListsCurrent
<1>1. ClusteringInv => CachedListsCurrent
  BY DEF ClusteringInv, RowInv, CachedListsCurrent
<1>2. QED
  BY <1>1, InvariantHolds, PTL

(* The cluster that assignToCluster returns, if it returns one, is the one *)
(* the new location is in after all the merging, as long as no crash has   *)
(* left a link one way.                                                    *)
THEOREM ReturnedClusterIsCurrent == Spec => []ReturnedIsCluster
<1>1. ClusteringInv => ReturnedIsCluster
  BY DEF ClusteringInv, ReturnInv, ReturnedIsCluster
<1>2. QED
  BY <1>1, InvariantHolds, PTL

(* The types of all the state: in particular the ids, counts and sets that *)
(* an operation works with.                                                *)
THEOREM LocationTypesHold == Spec => []TypeOK
<1>1. ASSUME ClusteringInv PROVE TypeOK
  <2>1. neighbours \subseteq Ids \X Ids
    BY <1>1 DEF ClusteringInv, Types, RowInv
  <2>2. interrupted \subseteq Ids
    BY <1>1, LocationAssumption DEF ClusteringInv, CountInv, CountTypes, Ids
  <2>3. QED
    BY <1>1, <2>1, <2>2 DEF ClusteringInv, Types, RowInv, CountInv, CountTypes, TypeOK
<1>2. QED
  BY <1>1, InvariantHolds, PTL

(* However often locations are merged, each observed location is counted   *)
(* once in num_merged; an operation that a crash cuts short between adding *)
(* to the count and deleting the row counts its location twice, and no     *)
(* other does.                                                             *)
THEOREM LocationsCountOnce == Spec => []EachCountsOnce
<1>1. ASSUME ClusteringInv PROVE EachCountsOnce
  <2>1. CountInv /\ created \in Nat
    BY <1>1 DEF ClusteringInv, Types
  <2>2. Cardinality(interrupted) \in Nat /\ Weight(locations) \in Nat
    BY <1>1, InterruptedFinite, SomeFinite DEF ClusteringInv, CountInv, RowInv
  <2>3. QED
    BY <2>1, <2>2 DEF CountInv, Doubled, EachCountsOnce
<1>2. QED
  BY <1>1, InvariantHolds, PTL

===============================================================================
