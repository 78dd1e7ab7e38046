--------------------------- MODULE MCRaftCluster ---------------------------
(* Instances of RaftCluster for TLC: three nodes, one key. *)
EXTENDS RaftCluster

=============================================================================
