--------------------------- MODULE MCReplicaFence ---------------------------
EXTENDS ReplicaFence, TLC

MCSymmetry == Permutations(Tx) \cup Permutations(Pod)
=============================================================================
