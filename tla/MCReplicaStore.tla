--------------------------- MODULE MCReplicaStore ---------------------------
(* Instances of ReplicaStore for TLC: keys are interchangeable.             *)
EXTENDS ReplicaStore, TLC

KeySymmetry == Permutations(Keys)
=============================================================================
