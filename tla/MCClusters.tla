------------------------------- MODULE MCClusters -------------------------------
(***************************************************************************)
(* Clusters for TLC.  No action and no property tells the files apart.     *)
(***************************************************************************)
EXTENDS Clusters, TLC

Symmetry == Permutations(File)
==============================================================================
