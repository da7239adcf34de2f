----------------------------- MODULE MCCutover -----------------------------
(* Instances of Cutover for TLC: the write requests are interchangeable.    *)
EXTENDS Cutover, TLC

RequestSymmetry == Permutations(Requests)
=============================================================================
