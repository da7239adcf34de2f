-------------------------- MODULE MCBackgroundSync --------------------------
(* Instances of BackgroundSync for TLC: one or two sync requests.           *)
EXTENDS BackgroundSync, TLC

HandlerSymmetry == Permutations(Handlers)
=============================================================================
