---------------------------- MODULE MCShardStore ----------------------------
(* An instance of ShardStore for TLC.  With one virtual node, or one shard, *)
(* the two keys share a shard; with two of each they do not: k2 wraps       *)
(* around to hash 20, where both shards have a point.                       *)
EXTENDS ShardStore, TLC

CONSTANTS k1, k2

Labels == [i \in Shards |-> IF i = 0 THEN <<60, 20>> ELSE <<40, 20>>]
Hashes == (k1 :> 30) @@ (k2 :> 90)
KeySet == {k1, k2}
=============================================================================
