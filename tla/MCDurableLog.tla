---------------------------- MODULE MCDurableLog ----------------------------
(* Instances of DurableLog for TLC: the operations are interchangeable.     *)
EXTENDS DurableLog, TLC

OpSymmetry == Permutations(Ops)
=============================================================================
