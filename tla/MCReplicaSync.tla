--------------------------- MODULE MCReplicaSync ---------------------------
(* Instances of ReplicaSync for TLC: the values are interchangeable.        *)
EXTENDS ReplicaSync, TLC

ValueSymmetry == Permutations(Values)
=============================================================================
