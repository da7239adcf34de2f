-------------------------- MODULE MCStorageEngine --------------------------
(* Instances of StorageEngine for TLC: the values are interchangeable.      *)
EXTENDS StorageEngine, TLC

ValueSymmetry == Permutations(Values)
=============================================================================
