------------------------------ MODULE HashRing ------------------------------
(***************************************************************************)
(* The consistent-hash rings of internal/gateway (ring.go) and of          *)
(* internal/shard (ring.go).  Both sort the points of all members by hash  *)
(* and give a key to the member of the first point at or after the key's   *)
(* hash, wrapping to the lowest point.  The sorted slice is modelled by    *)
(* what a search can tell of it: the member found at each occupied hash.   *)
(*                                                                         *)
(* The two differ when two members have a point of the same hash: the      *)
(* shard ring sorts such points by shard ID; the gateway's sort.Slice does *)
(* not compare anything else and is not stable, so any of them may come    *)
(* first.                                                                  *)
(***************************************************************************)
EXTENDS Integers, FiniteSetsExt

\* The hashes of a member's first "count" labels ("<member>:<i>").
PointsOf(labels, count) == {labels[i] : i \in 1..count}

\* "points" gives each member its points.
Occupied(points) == UNION {points[m] : m \in DOMAIN points}

\* The members that have a point of hash p.
HoldersOf(points, p) == {m \in DOMAIN points : p \in points[m]}

\* No two members have a point of the same hash.
Untied(points) == \A m, n \in DOMAIN points : m # n => points[m] \cap points[n] = {}

\* Every ring that sorting the points by hash alone can leave.
Rings(points) ==
  LET tied == {p \in Occupied(points) : Cardinality(HoldersOf(points, p)) > 1}
  IN  {[p \in Occupied(points) |-> IF p \in tied THEN first[p]
                                   ELSE CHOOSE m \in HoldersOf(points, p) : TRUE] :
         first \in {f \in [tied -> DOMAIN points] :
                      \A p \in tied : f[p] \in HoldersOf(points, p)}}

\* The ring of points sorted by hash, then by the members' numbers.
NumberedRing(points) ==
  [p \in Occupied(points) |-> Min(HoldersOf(points, p))]

\* sort.Search for the first hash >= h; past the last point, the first one.
Successor(ring, h) ==
  LET after == {p \in DOMAIN ring : p >= h}
  IN  IF after # {} THEN Min(after) ELSE Min(DOMAIN ring)

Owner(ring, h) == ring[Successor(ring, h)]
=============================================================================
