-------------------------- MODULE MCLocationClusters --------------------------
(* LocationClusters for TLC.  There is no symmetry: ids are ordered.       *)
EXTENDS LocationClusters

===============================================================================
