------------------------------ MODULE MCCluster ------------------------------
(***************************************************************************)
(* Instances of Cluster for TLC: a cluster with a cache, one whose         *)
(* program makes checkpoints, and one with neither.                        *)
(***************************************************************************)
EXTENDS Cluster

NotBoth == (BOOLEAN \X BOOLEAN) \ {<<TRUE, TRUE>>}
=============================================================================
