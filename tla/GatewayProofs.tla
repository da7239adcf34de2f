------------------------- MODULE GatewayProofs ------------------------------
(***************************************************************************)
(* Proofs about the proxy, the gateway and its ring (module Gateway): for  *)
(* any nodes, keys, clients, hash functions and configurations.            *)
(*                                                                         *)
(* The first part is about rings alone: a search ends at a node of the     *)
(* configuration, and a key moves between two rings only from or to a node *)
(* whose points changed (KeyStays).  The second shows that every action    *)
(* keeps IInv: a number names one write (NumbersInv), so that what a node  *)
(* comes to serve, late or not, replaces no acknowledged write by one that *)
(* an acknowledged write had replaced (HeldInv).                           *)
(***************************************************************************)
EXTENDS Gateway, WellFoundedInduction, TLAPS

----------------------------------------------------------------------------
(* Rings                                                                   *)

\* A set of naturals has a least element.
LEMMA LeastNat ==
  ASSUME NEW T, T \subseteq Nat, T # {}
  PROVE  \E x \in T : \A y \in T : x <= y
<1>1. PICK x \in T : \A y \in T : <<y, x>> \notin OpToRel(<, Nat)
  BY NatLessThanWellFounded, WFMin
<1>2. \A y \in T : ~(y < x) BY <1>1 DEF OpToRel
<1> QED BY <1>2

\* Min finds it.
LEMMA MinFound ==
  ASSUME NEW S, S \subseteq Nat, S # {}
  PROVE  Min(S) \in S /\ \A y \in S : Min(S) <= y
BY LeastNat DEF Min

\* The search of newHashRing's points: the first at or after the hash, or else the
\* first of all.
LEMMA SuccessorFound ==
  ASSUME NEW ring_, DOMAIN ring_ \subseteq Nat, DOMAIN ring_ # {}, NEW h
  PROVE  /\ Successor(ring_, h) \in DOMAIN ring_
         /\ \A p \in DOMAIN ring_ : p >= h => h <= Successor(ring_, h) /\ Successor(ring_, h) <= p
         /\ (\A p \in DOMAIN ring_ : ~(p >= h)) => \A p \in DOMAIN ring_ : Successor(ring_, h) <= p
<1> DEFINE after == {p \in DOMAIN ring_ : p >= h}
<1>1. CASE after # {}
  <2>1. Min(after) \in after /\ \A y \in after : Min(after) <= y BY <1>1, MinFound
  <2>2. Successor(ring_, h) = Min(after) BY <1>1 DEF Successor
  <2>3. PICK p \in DOMAIN ring_ : p >= h BY <1>1
  <2> HIDE DEF after
  <2>4. Successor(ring_, h) \in DOMAIN ring_ /\ Successor(ring_, h) >= h BY <2>1, <2>2 DEF after
  <2>5. \A q \in DOMAIN ring_ : q >= h => Successor(ring_, h) <= q BY <2>1, <2>2 DEF after
  <2> QED BY <2>3, <2>4, <2>5
<1>2. CASE after = {}
  <2>1. Min(DOMAIN ring_) \in DOMAIN ring_ /\ \A y \in DOMAIN ring_ : Min(DOMAIN ring_) <= y
    BY MinFound
  <2> QED BY <1>2, <2>1 DEF Successor
<1> QED BY <1>1, <1>2

\* However points of the same hash are sorted, each belongs to one that has it.
LEMMA RingMembers ==
  ASSUME NEW points, NEW r \in Rings(points)
  PROVE  DOMAIN r = Occupied(points) /\ \A p \in DOMAIN r : r[p] \in HoldersOf(points, p)
<1> DEFINE tied == {p \in Occupied(points) : Cardinality(HoldersOf(points, p)) > 1}
<1>1. PICK first \in [tied -> DOMAIN points] :
        /\ \A p \in tied : first[p] \in HoldersOf(points, p)
        /\ r = [p \in Occupied(points) |-> IF p \in tied THEN first[p]
                                           ELSE CHOOSE m \in HoldersOf(points, p) : TRUE]
  BY DEF Rings
<1> HIDE DEF tied
<1>2. \A p \in Occupied(points) : HoldersOf(points, p) # {} BY DEF Occupied, HoldersOf
<1>3. DOMAIN r = Occupied(points) BY <1>1
<1>4. ASSUME NEW p \in DOMAIN r PROVE r[p] \in HoldersOf(points, p)
  <2>1. CASE p \in tied BY <1>1, <1>3, <2>1
  <2>2. CASE p \notin tied
    <3>1. r[p] = CHOOSE m \in HoldersOf(points, p) : TRUE BY <1>1, <1>3, <2>2
    <3>2. \E m : m \in HoldersOf(points, p) BY <1>2, <1>3
    <3>3. (CHOOSE m \in HoldersOf(points, p) : TRUE) \in HoldersOf(points, p) BY <3>2
    <3> QED BY <3>1, <3>3
  <2> QED BY <2>1, <2>2
<1> QED BY <1>3, <1>4


\* A product of positive numbers is positive: a node has a point.
LEMMA ProductPositive == \A a, b \in Nat \ {0} : a * b \in Nat /\ a * b > 0
OBVIOUS

\* A configuration's rings have points, at naturals, and all are of its nodes.
LEMMA RingOfConfig ==
  ASSUME hash \in Hashes, NEW c \in Configs, NEW r \in Rings(Points(c))
  PROVE  /\ DOMAIN r \subseteq Nat /\ DOMAIN r # {}
         /\ \A p \in DOMAIN r : r[p] \in DOMAIN c /\ p \in Points(c)[r[p]]
         /\ DOMAIN c \subseteq Nodes
<1>1. DOMAIN c \subseteq Nodes /\ DOMAIN c # {} /\ \A n \in DOMAIN c : c[n] \in Nat \ {0}
  BY GatewayAssumption
<1>2. \A n \in DOMAIN c : \A i \in 1..VirtualNodes * c[n] : hash.label[n][i] \in Nat
  BY GatewayAssumption
<1>3. VirtualNodes \in Nat \ {0} BY GatewayAssumption
<1>4. DOMAIN Points(c) = DOMAIN c BY DEF Points
<1>5. ASSUME NEW n \in DOMAIN c PROVE Points(c)[n] \subseteq Nat /\ Points(c)[n] # {}
  <2>1. VirtualNodes * c[n] \in Nat /\ VirtualNodes * c[n] > 0 BY <1>1, <1>3, ProductPositive
  <2>2. 1 \in 1..VirtualNodes * c[n] BY <2>1
  <2>3. Points(c)[n] = {hash.label[n][i] : i \in 1..VirtualNodes * c[n]} BY DEF Points, PointsOf
  <2> QED BY <1>2, <2>2, <2>3
<1>6. DOMAIN r = Occupied(Points(c)) /\ \A p \in DOMAIN r : r[p] \in HoldersOf(Points(c), p)
  BY RingMembers
<1>7. Occupied(Points(c)) \subseteq Nat /\ Occupied(Points(c)) # {} BY <1>1, <1>4, <1>5 DEF Occupied
<1> QED BY <1>1, <1>4, <1>6, <1>7 DEF HoldersOf

\* A key has a hash.
LEMMA KeyHash ==
  ASSUME hash \in Hashes, NEW k \in Keys
  PROVE  hash.key[k] \in Nat
BY GatewayAssumption

\* NodeForKey answers a node of the configuration the ring was made for.
LEMMA NodeOfKey ==
  ASSUME hash \in Hashes, NEW c \in Configs, NEW r \in Rings(Points(c)), NEW k \in Keys
  PROVE  NodeForKey(r, k) \in DOMAIN c /\ NodeForKey(r, k) \in Nodes
<1>1. /\ DOMAIN r \subseteq Nat /\ DOMAIN r # {}
      /\ \A p \in DOMAIN r : r[p] \in DOMAIN c
      /\ DOMAIN c \subseteq Nodes
  BY RingOfConfig
<1>2. Successor(r, hash.key[k]) \in DOMAIN r BY <1>1, SuccessorFound
<1> QED BY <1>1, <1>2 DEF NodeForKey, Owner

----------------------------------------------------------------------------
(* What a new configuration moves                                          *)

\* A key stays where it is if neither its old node nor its new one was changed.
LEMMA KeyStays ==
  ASSUME hash \in Hashes, NEW c \in Configs, NEW d \in Configs,
         NEW r \in Rings(Points(c)), NEW s \in Rings(Points(d)), Untied(Points(c)),
         NEW k \in Keys,
         NodeForKey(r, k) \in DOMAIN d, d[NodeForKey(r, k)] = c[NodeForKey(r, k)],
         NodeForKey(s, k) \in DOMAIN c, c[NodeForKey(s, k)] = d[NodeForKey(s, k)]
  PROVE  NodeForKey(r, k) = NodeForKey(s, k)
<1> DEFINE a == NodeForKey(r, k)
           b == NodeForKey(s, k)
           h == hash.key[k]
           p == Successor(r, h)
           q == Successor(s, h)
<1>1. /\ DOMAIN r \subseteq Nat /\ DOMAIN r # {}
      /\ \A x \in DOMAIN r : r[x] \in DOMAIN c /\ x \in Points(c)[r[x]]
  BY RingOfConfig
<1>2. /\ DOMAIN s \subseteq Nat /\ DOMAIN s # {}
      /\ \A x \in DOMAIN s : s[x] \in DOMAIN d /\ x \in Points(d)[s[x]]
  BY RingOfConfig
<1>3. h \in Nat BY KeyHash
<1>4. /\ p \in DOMAIN r
      /\ \A x \in DOMAIN r : x >= h => h <= p /\ p <= x
      /\ (\A x \in DOMAIN r : ~(x >= h)) => \A x \in DOMAIN r : p <= x
  BY <1>1, SuccessorFound
<1>5. /\ q \in DOMAIN s
      /\ \A x \in DOMAIN s : x >= h => h <= q /\ q <= x
      /\ (\A x \in DOMAIN s : ~(x >= h)) => \A x \in DOMAIN s : q <= x
  BY <1>2, SuccessorFound
<1>6. a = r[p] /\ b = s[q] BY DEF NodeForKey, Owner
<1>7. a \in DOMAIN c /\ b \in DOMAIN d BY <1>1, <1>2, <1>4, <1>5, <1>6
<1>8. Points(d)[a] = Points(c)[a] /\ Points(c)[b] = Points(d)[b] BY <1>7 DEF Points
<1>9. p \in Points(d)[a] /\ q \in Points(c)[b] BY <1>1, <1>2, <1>4, <1>5, <1>6, <1>8
<1>10. DOMAIN r = Occupied(Points(c)) /\ DOMAIN s = Occupied(Points(d)) BY RingMembers
<1>11. DOMAIN Points(c) = DOMAIN c /\ DOMAIN Points(d) = DOMAIN d BY DEF Points
<1>12. p \in DOMAIN s /\ q \in DOMAIN r
  <2>1. p \in Occupied(Points(d)) BY <1>9, <1>11 DEF Occupied
  <2>2. q \in Occupied(Points(c)) BY <1>9, <1>11 DEF Occupied
  <2> QED BY <1>10, <2>1, <2>2
<1>13. p = q
  <2> HIDE DEF h, p, q
  <2>1. p \in Nat /\ q \in Nat BY <1>1, <1>2, <1>4, <1>5
  <2>2. CASE p >= h
    <3>1. h <= q /\ q <= p BY <1>5, <1>12, <2>2
    <3>2. q >= h BY <1>3, <2>1, <3>1
    <3>3. p <= q BY <1>4, <1>12, <3>2
    <3> QED BY <2>1, <3>1, <3>3
  <2>3. CASE ~(p >= h)
    <3>1. \A x \in DOMAIN r : ~(x >= h) BY <1>3, <1>4, <2>1, <2>3
    <3>2. p <= q BY <1>4, <1>12, <3>1
    <3>3. \A x \in DOMAIN s : ~(x >= h) BY <1>3, <1>5, <2>1, <1>12, <3>1
    <3>4. q <= p BY <1>5, <1>12, <3>3
    <3> QED BY <2>1, <3>2, <3>4
  <2> QED BY <2>2, <2>3
<1>14. p \in Points(c)[a] /\ p \in Points(c)[b] BY <1>8, <1>9, <1>13
<1> QED BY <1>7, <1>11, <1>14 DEF Untied

\* A restart moves what the tools predict.
LEMMA RestartMoves ==
  ASSUME TypeOK, Restart, config' # config, Untied(Points(config))
  PROVE  LET plan    == PlanManualRebalance(ring, ring')
             removed == Changed \cap DOMAIN config
             added   == Restrict(config', Changed \cap DOMAIN config')
             impact  == SimulateFailure(ring, ring', removed)
         IN  /\ Planned(config, removed, added) = config'
             /\ \A k \in Keys : plan[k].moved =>
                  plan[k].from \in removed \/ plan[k].to \in DOMAIN added
             /\ added = <<>> =>
                  \A k \in Keys : impact[k].affected = plan[k].moved /\ ~impact[k].moved
<1> DEFINE plan    == PlanManualRebalance(ring, ring')
           removed == Changed \cap DOMAIN config
           added   == Restrict(config', Changed \cap DOMAIN config')
           impact  == SimulateFailure(ring, ring', removed)
<1>1. hash \in Hashes /\ config \in Configs /\ ring \in Rings(Points(config)) BY DEF TypeOK
<1>2. config' \in Configs /\ ring' \in Rings(Points(config')) BY DEF Restart
<1>3. DOMAIN added = Changed \cap DOMAIN config' /\ \A n \in DOMAIN added : added[n] = config'[n]
  BY DEF Restrict
<1>4. DOMAIN config' = (DOMAIN config \ removed) \cup DOMAIN added
  BY <1>3 DEF Changed
<1>5. \A n \in DOMAIN config \ removed : config'[n] = config[n] BY DEF Changed
<1>6. Planned(config, removed, added) = config'
  <2>1. config' = [n \in DOMAIN config' |-> config'[n]]
    <3>1. config' \in [DOMAIN config' -> Nat \ {0}] BY <1>2, GatewayAssumption
    <3> QED BY <3>1
  <2>2. Planned(config, removed, added)
          = [n \in DOMAIN config' |-> IF n \in DOMAIN added THEN added[n] ELSE config[n]]
    BY <1>4 DEF Planned
  <2> HIDE DEF removed, added
  <2>3. \A n \in DOMAIN config' : config'[n] = IF n \in DOMAIN added THEN added[n] ELSE config[n]
    BY <1>3, <1>4, <1>5
  <2> QED BY <2>1, <2>2, <2>3
<1>7. ASSUME NEW k \in Keys
      PROVE  /\ NodeForKey(ring, k) \in DOMAIN config /\ NodeForKey(ring', k) \in DOMAIN config'
             /\ NodeForKey(ring, k) # NodeForKey(ring', k) =>
                  NodeForKey(ring, k) \in removed \/ NodeForKey(ring', k) \in DOMAIN added
  <2>1. NodeForKey(ring, k) \in DOMAIN config BY <1>1, NodeOfKey
  <2>2. NodeForKey(ring', k) \in DOMAIN config' BY <1>1, <1>2, NodeOfKey
  <2>3. SUFFICES ASSUME NodeForKey(ring, k) \notin removed, NodeForKey(ring', k) \notin DOMAIN added
                 PROVE  NodeForKey(ring, k) = NodeForKey(ring', k)
    BY <2>1, <2>2
  <2>4. /\ NodeForKey(ring, k) \in DOMAIN config'
        /\ config'[NodeForKey(ring, k)] = config[NodeForKey(ring, k)]
    BY <2>1, <2>3, <1>4, <1>5
  <2>5. /\ NodeForKey(ring', k) \in DOMAIN config
        /\ config[NodeForKey(ring', k)] = config'[NodeForKey(ring', k)]
    BY <2>2, <2>3, <1>4, <1>5
  <2> HIDE DEF removed, added
  <2> QED BY <1>1, <1>2, <2>4, <2>5, KeyStays
<1>8. ASSUME NEW k \in Keys, plan[k].moved
      PROVE  plan[k].from \in removed \/ plan[k].to \in DOMAIN added
  <2> HIDE DEF removed, added
  <2> QED BY <1>7, <1>8 DEF PlanManualRebalance
<1>9. ASSUME added = <<>>, NEW k \in Keys
      PROVE  impact[k].affected = plan[k].moved /\ ~impact[k].moved
  <2>1. DOMAIN added = {} BY <1>9
  <2>2. removed \cap DOMAIN config' = {} BY <2>1, <1>3
  <2> HIDE DEF removed, added
  <2>3. NodeForKey(ring, k) \in removed \/ NodeForKey(ring, k) = NodeForKey(ring', k)
    BY <1>7, <2>1
  <2>4. NodeForKey(ring', k) \notin removed BY <1>7, <2>2
  <2>5. plan[k].moved <=> NodeForKey(ring, k) # NodeForKey(ring', k) BY DEF PlanManualRebalance
  <2>6. /\ impact[k].affected <=> (NodeForKey(ring, k) \in removed
                                    \/ NodeForKey(ring', k) # NodeForKey(ring, k))
        /\ impact[k].moved <=> (NodeForKey(ring, k) \notin removed
                                    /\ NodeForKey(ring', k) # NodeForKey(ring, k))
    BY DEF SimulateFailure
  <2>7. plan[k].moved \in BOOLEAN /\ impact[k].affected \in BOOLEAN
    BY DEF PlanManualRebalance, SimulateFailure
  <2>8. impact[k].affected <=> plan[k].moved BY <2>3, <2>4, <2>5, <2>6
  <2>9. impact[k].affected = plan[k].moved BY <2>7, <2>8
  <2> QED BY <2>3, <2>6, <2>9
<1> HIDE DEF plan, removed, added, impact
<1>10. /\ Planned(config, removed, added) = config'
       /\ \A k \in Keys : plan[k].moved => plan[k].from \in removed \/ plan[k].to \in DOMAIN added
       /\ added = <<>> => \A k \in Keys : impact[k].affected = plan[k].moved /\ ~impact[k].moved
  BY <1>6, <1>8, <1>9
<1> QED BY <1>10 DEF plan, removed, added, impact

----------------------------------------------------------------------------
(* Types                                                                   *)

\* Which fields a client's request has.
LEMMA RequestFields ==
  ASSUME TypeOK, NEW c \in Clients
  PROVE  /\ req[c] \in RequestState
         /\ req[c] \notin {Idle, Answered} => req[c] \in WriteRequest \cup ReadRequest \cup OtherRequest
         /\ req[c].at # "idle" => req[c] # Idle
         /\ req[c].at # "answering" => req[c] # Answered
         /\ req[c].at = "reading" => req[c] \in WriteRequest
         /\ c \in Writing <=> req[c] \in WriteRequest
         /\ req[c].at = "served" => req[c] \in WriteRequest
         /\ AtNode(c) => req[c] \in WriteRequest
<1>1. req[c] \in RequestState BY DEF TypeOK, RequestState
<1>2. Idle.at = "idle" /\ Answered.at = "answering" /\ Answered.op = "none"
  BY DEF Idle, Answered
<1>3. \A r \in WriteRequest : r.at \in {"reading", "accepted", "called", "served"} /\ r.op = "write"
  BY DEF WriteRequest
<1>4. \A r \in ReadRequest : r.at \in {"accepted", "called"} /\ r.op = "read" BY DEF ReadRequest
<1>5. \A r \in OtherRequest : r.at \in {"accepted", "called"} /\ r.op \in {"all", "status"}
  BY DEF OtherRequest
<1> QED BY <1>1, <1>2, <1>3, <1>4, <1>5 DEF RequestState, Writing, AtNode

\* The fields of a write.
LEMMA WriteFields ==
  ASSUME NEW r \in WriteRequest
  PROVE  /\ r.at \in {"reading", "accepted", "called", "served"} /\ r.op = "write"
         /\ r.key \in Keys /\ r.write \in Numbers /\ r.before \in SUBSET (0..MaxWrites)
         /\ r # Idle /\ r # Answered
<1>1. /\ r.at \notin {"idle", "answering"} /\ Idle.at = "idle" /\ Answered.at = "answering"
  BY DEF WriteRequest, Idle, Answered
<1> QED BY <1>1 DEF WriteRequest

\* A request whose body was read goes on.
LEMMA RequestRead ==
  ASSUME NEW r \in WriteRequest
  PROVE  /\ [r EXCEPT !.at = "accepted"] \in WriteRequest
         /\ [r EXCEPT !.at = "accepted"].write = r.write
         /\ [r EXCEPT !.at = "accepted"].key = r.key
         /\ [r EXCEPT !.at = "accepted"].before = r.before
         /\ [r EXCEPT !.at = "accepted"].at = "accepted"
BY DEF WriteRequest

\* A request that was served goes on.
LEMMA RequestServed ==
  ASSUME NEW r \in WriteRequest
  PROVE  /\ [r EXCEPT !.at = "served"] \in WriteRequest
         /\ [r EXCEPT !.at = "served"].write = r.write
         /\ [r EXCEPT !.at = "served"].key = r.key
         /\ [r EXCEPT !.at = "served"].before = r.before
         /\ [r EXCEPT !.at = "served"].at = "served"
BY DEF WriteRequest

\* The handler of a request calls its nodes.
LEMMA RequestCalled ==
  ASSUME NEW r \in WriteRequest \cup ReadRequest \cup OtherRequest, NEW left \in SUBSET Nodes
  PROVE  LET s == [r EXCEPT !.at = "called", !.left = left]
         IN  /\ s \in WriteRequest \cup ReadRequest \cup OtherRequest
             /\ s \in WriteRequest <=> r \in WriteRequest
             /\ r \in WriteRequest => /\ s.write = r.write /\ s.key = r.key
                                      /\ s.before = r.before /\ s.at = "called"
<1> DEFINE s == [r EXCEPT !.at = "called", !.left = left]
<1>1. CASE r \in WriteRequest
  BY <1>1 DEF WriteRequest
<1>2. CASE r \in ReadRequest
  <2>1. s \in ReadRequest BY <1>2 DEF ReadRequest
  <2>2. s.op = "read" /\ r.op = "read" BY <1>2 DEF ReadRequest
  <2> QED BY <2>1, <2>2, WriteFields
<1>3. CASE r \in OtherRequest
  <2>1. s \in OtherRequest BY <1>3 DEF OtherRequest
  <2>2. s.op # "write" /\ r.op # "write" BY <1>3 DEF OtherRequest
  <2> QED BY <2>1, <2>2, WriteFields
<1> QED BY <1>1, <1>2, <1>3

\* One node of a request to all nodes is done.
LEMMA RequestLeft ==
  ASSUME NEW r \in ReadRequest \cup OtherRequest, NEW n
  PROVE  [r EXCEPT !.left = @ \ {n}] \in ReadRequest \cup OtherRequest
<1>1. CASE r \in ReadRequest BY <1>1 DEF ReadRequest
<1>2. CASE r \in OtherRequest BY <1>2 DEF OtherRequest
<1> QED BY <1>1, <1>2

\* The kinds of requests are apart.
LEMMA NotWrites ==
  ASSUME NEW r \in ReadRequest \cup OtherRequest \cup {Idle, Answered}
  PROVE  r \notin WriteRequest
<1>1. CASE r \in ReadRequest BY <1>1, WriteFields DEF ReadRequest
<1>2. CASE r \in OtherRequest BY <1>2, WriteFields DEF OtherRequest
<1>3. CASE r \in {Idle, Answered} BY <1>3, WriteFields
<1> QED BY <1>1, <1>2, <1>3

\* One request changes.
LEMMA TypeKept ==
  ASSUME TypeOK, NEW c \in Clients, NEW r \in RequestState, req' = [req EXCEPT ![c] = r]
  PROVE  req' \in [Clients -> RequestState] /\ req'[c] = r /\ \A d \in Clients : d # c => req'[d] = req[d]
BY DEF TypeOK, RequestState

\* What a write request becomes the node's.
LEMMA WriteOfType ==
  ASSUME TypeOK, NEW c \in Clients, req[c] \in WriteRequest
  PROVE  /\ WriteOf(c) \in LateWrite
         /\ WriteOf(c).write = req[c].write /\ WriteOf(c).key = req[c].key
         /\ WriteOf(c).node = NodeForKey(ring, req[c].key)
         /\ NodeForKey(ring, req[c].key) \in Nodes
<1>1. req[c].key \in Keys /\ req[c].write \in Numbers BY WriteFields
<1>2. NodeForKey(ring, req[c].key) \in Nodes BY <1>1, NodeOfKey DEF TypeOK
<1> QED BY <1>1, <1>2 DEF WriteOf, LateWrite

----------------------------------------------------------------------------
(* Steps that leave the data alone                                         *)

\* A request with the operation "write" has the fields of a write.
LEMMA WriteOp ==
  ASSUME NEW r \in RequestState
  PROVE  r # Idle /\ r.op = "write" <=> r \in WriteRequest
<1>1. CASE r \in WriteRequest BY <1>1, WriteFields
<1>2. CASE r \in ReadRequest BY <1>2, WriteFields DEF ReadRequest
<1>3. CASE r \in OtherRequest BY <1>3, WriteFields DEF OtherRequest
<1>4. CASE r = Idle BY <1>4, WriteFields
<1>5. CASE r = Answered
  <2>1. r.op = "none" BY <1>5 DEF Answered
  <2> QED BY <1>5, <2>1, WriteFields
<1> QED BY <1>1, <1>2, <1>3, <1>4, <1>5 DEF RequestState

\* Whose request is a write, and what it has.
LEMMA WritingFacts ==
  ASSUME TypeOK
  PROVE  /\ Writing = {c \in Clients : req[c] \in WriteRequest}
         /\ \A c \in Writing : /\ c \in Clients /\ req[c] # Idle
                               /\ req[c].key \in Keys /\ req[c].write \in Numbers
                               /\ req[c].before \in SUBSET (0..MaxWrites)
                               /\ NodeForKey(ring, req[c].key) \in Nodes
<1>1. Writing = {c \in Clients : req[c] \in WriteRequest} BY RequestFields DEF Writing
<1> QED BY <1>1, WriteFields, WriteOfType

\* A step that serves, acknowledges and restarts nothing.
DataKept == UNCHANGED <<hash, config, ring, data, writes, restarts, acked, dead, home, served, refused>>

\* A step in which writes are only given up, or go on to be called, keeps the
\* three invariants about writes.
LEMMA RequestsKept ==
  ASSUME IInv, TypeOK', DataKept, late' = late, Writing' \subseteq Writing,
         \A c \in Writing' : /\ req'[c].key = req[c].key /\ req'[c].write = req[c].write
                             /\ req'[c].before = req[c].before
                             /\ req'[c].at = "served" <=> req[c].at = "served"
  PROVE  NumbersInv' /\ AckedInv' /\ HeldInv'
<1>1. NumbersInv'
  <2>1. NumbersInv BY DEF IInv
  <2> HIDE DEF Writing
  <2> QED BY <2>1 DEF NumbersInv, DataKept
<1>2. AckedInv'
  <2>1. AckedInv BY DEF IInv
  <2> QED BY <2>1 DEF AckedInv, DataKept
<1>3. HeldInv'
  <2>1. HeldInv BY DEF IInv
  <2> QED BY <2>1 DEF HeldInv, DataKept, NodeForKey
<1> QED BY <1>1, <1>2, <1>3

\* What a step changes of the gateway only.
LEMMA ServerStep ==
  ASSUME IInv, Start \/ CloseBegins \/ CloseEnds
  PROVE  IInv'
<1>1. TypeOK'
  <2>1. TypeOK BY DEF IInv
  <2> QED BY <2>1 DEF TypeOK, Start, CloseBegins, CloseEnds, history, Points
<1>2. ClosedInv' /\ NoneRefused'
  BY DEF IInv, ClosedInv, NoneRefused, Start, CloseBegins, CloseEnds, history
<1>3. DataKept /\ late' = late /\ req' = req
  BY DEF DataKept, Start, CloseBegins, CloseEnds, history
<1>4. Writing' = Writing BY <1>3 DEF Writing
<1>5. NumbersInv' /\ AckedInv' /\ HeldInv' BY <1>1, <1>3, <1>4, RequestsKept
<1> QED BY <1>1, <1>2, <1>5 DEF IInv

\* A request that does not write, or a write on its way, and the others as before.
LEMMA OneRequest ==
  ASSUME IInv, NEW c \in Clients, NEW r \in RequestState, req' = [req EXCEPT ![c] = r],
         r # Idle => ~gwClosed,
         r \in WriteRequest =>
            /\ req[c] \in WriteRequest
            /\ r.key = req[c].key /\ r.write = req[c].write /\ r.before = req[c].before
            /\ r.at = "served" <=> req[c].at = "served",
         DataKept, UNCHANGED <<server, gwClosed, late>>
  PROVE  IInv'
<1>0. TypeOK BY DEF IInv
<1>a. req' \in [Clients -> RequestState] /\ req'[c] = r /\ \A d \in Clients : d # c => req'[d] = req[d]
  BY <1>0, TypeKept
<1>1. TypeOK' BY <1>0, <1>a DEF TypeOK, DataKept, Points
<1>2. ClosedInv' /\ NoneRefused'
  BY <1>a DEF IInv, ClosedInv, NoneRefused, DataKept
<1>3. Writing' = {d \in Clients : req'[d] \in WriteRequest} BY <1>a, WriteOp DEF Writing
<1>4. Writing = {d \in Clients : req[d] \in WriteRequest} BY <1>0, WritingFacts
<1>5. Writing' \subseteq Writing BY <1>a, <1>3, <1>4
<1>6. \A d \in Writing' : /\ req'[d].key = req[d].key /\ req'[d].write = req[d].write
                          /\ req'[d].before = req[d].before
                          /\ req'[d].at = "served" <=> req[d].at = "served"
  BY <1>a, <1>3
<1>7. NumbersInv' /\ AckedInv' /\ HeldInv' BY <1>1, <1>5, <1>6, RequestsKept
<1> QED BY <1>1, <1>2, <1>7 DEF IInv

\* GET /status is answered.
LEMMA StatusStep ==
  ASSUME IInv, NEW c \in Clients, Status(c)
  PROVE  IInv'
<1>1. Answered \in RequestState /\ Answered \notin WriteRequest BY NotWrites DEF RequestState
<1>2. ~gwClosed
  <2>1. req[c] # Idle BY RequestFields DEF Status, IInv
  <2> QED BY <2>1 DEF IInv, ClosedInv
<1> QED BY <1>1, <1>2, OneRequest DEF Status, DataKept, history

\* A client takes its answer.
LEMMA AnswerTakenStep ==
  ASSUME IInv, NEW c \in Clients, AnswerTaken(c)
  PROVE  IInv'
<1>1. Idle \in RequestState /\ Idle \notin WriteRequest BY NotWrites DEF RequestState
<1> QED BY <1>1, OneRequest DEF AnswerTaken, DataKept, history

\* The body of a PUT was read, or could not be.
LEMMA BodyReadStep ==
  ASSUME IInv, NEW c \in Clients, BodyRead(c)
  PROVE  IInv'
<1>0. TypeOK BY DEF IInv
<1>1. req[c] \in WriteRequest /\ req[c] # Idle /\ req[c].at = "reading"
  BY <1>0, RequestFields, WriteFields DEF BodyRead
<1>2. ~gwClosed BY <1>1 DEF IInv, ClosedInv
<1>3. DataKept /\ UNCHANGED <<server, gwClosed, late>> BY DEF BodyRead, DataKept, history
<1>4. CASE req' = [req EXCEPT ![c] = Answered]
  <2>1. Answered \in RequestState /\ Answered \notin WriteRequest BY NotWrites DEF RequestState
  <2> QED BY <1>2, <1>3, <1>4, <2>1, OneRequest
<1>5. CASE req' = [req EXCEPT ![c].at = "accepted"]
  <2> DEFINE r == [req[c] EXCEPT !.at = "accepted"]
  <2>1. /\ r \in WriteRequest /\ r.write = req[c].write /\ r.key = req[c].key
        /\ r.before = req[c].before /\ r.at = "accepted"
    BY <1>1, RequestRead
  <2>2. r \in RequestState BY <2>1 DEF RequestState
  <2>3. req' = [req EXCEPT ![c] = r] BY <1>5
  <2> HIDE DEF r
  <2> QED BY <1>1, <1>2, <1>3, <2>1, <2>2, <2>3, OneRequest
<1> QED BY <1>4, <1>5 DEF BodyRead

\* A handler calls its nodes.
LEMMA RouteStep ==
  ASSUME IInv, NEW c \in Clients, Route(c)
  PROVE  IInv'
<1>0. TypeOK BY DEF IInv
<1>1. req[c] # Idle /\ req[c] \in WriteRequest \cup ReadRequest \cup OtherRequest
  BY <1>0, RequestFields DEF Route
<1>2. ~gwClosed BY <1>1 DEF IInv, ClosedInv
<1>3. Targets(c) \in SUBSET Nodes
  <2>1. CASE req[c].op = "all" BY <2>1, <1>0, GatewayAssumption DEF Targets, TypeOK
  <2>2. CASE req[c].op # "all"
    <3>1. req[c].key \in Keys
      <4>1. req[c].op # "status" BY DEF Route
      <4>2. req[c] \notin OtherRequest BY <2>2, <4>1 DEF OtherRequest
      <4> QED BY <1>1, <4>2 DEF WriteRequest, ReadRequest
    <3>2. NodeForKey(ring, req[c].key) \in Nodes BY <1>0, <3>1, NodeOfKey DEF TypeOK
    <3> QED BY <2>2, <3>2 DEF Targets
  <2> QED BY <2>1, <2>2
<1> DEFINE r == [req[c] EXCEPT !.at = "called", !.left = Targets(c)]
<1>4. /\ r \in WriteRequest \cup ReadRequest \cup OtherRequest
      /\ r \in WriteRequest <=> req[c] \in WriteRequest
      /\ req[c] \in WriteRequest => /\ r.write = req[c].write /\ r.key = req[c].key
                                    /\ r.before = req[c].before /\ r.at = "called"
  BY <1>1, <1>3, RequestCalled
<1>5. req' = [req EXCEPT ![c] = r]
  BY <1>2 DEF Route
<1>6. DataKept /\ UNCHANGED <<server, gwClosed, late>> BY <1>2 DEF Route, DataKept
<1>7. req[c].at = "accepted" BY DEF Route
<1>8. r \in RequestState BY <1>4 DEF RequestState
<1> HIDE DEF r
<1> QED BY <1>2, <1>4, <1>5, <1>6, <1>7, <1>8, OneRequest

\* A call that writes nothing ends.
LEMMA CallEndsStep ==
  ASSUME IInv, NEW c \in Clients, CallEnds(c)
  PROVE  IInv'
<1>0. TypeOK BY DEF IInv
<1>1. req[c] # Idle /\ req[c] \in ReadRequest \cup OtherRequest
  <2>1. req[c] # Idle /\ req[c] \in WriteRequest \cup ReadRequest \cup OtherRequest
    BY <1>0, RequestFields DEF CallEnds
  <2>2. req[c].op # "write" BY DEF CallEnds
  <2> QED BY <2>1, <2>2, WriteFields
<1>2. ~gwClosed BY <1>1 DEF IInv, ClosedInv
<1>3. PICK n \in req[c].left :
        req' = [req EXCEPT ![c] = IF req[c].left = {n} THEN Answered
                                  ELSE [req[c] EXCEPT !.left = @ \ {n}]]
  BY DEF CallEnds
<1> DEFINE r == IF req[c].left = {n} THEN Answered ELSE [req[c] EXCEPT !.left = @ \ {n}]
<1>4. r \in {Answered} \cup ReadRequest \cup OtherRequest BY <1>1, RequestLeft
<1>5. r \notin WriteRequest BY <1>4, NotWrites
<1>6. r \in RequestState BY <1>4 DEF RequestState
<1>7. req' = [req EXCEPT ![c] = r] BY <1>3
<1>8. DataKept /\ UNCHANGED <<server, gwClosed, late>> BY DEF CallEnds, DataKept, history
<1> HIDE DEF r
<1> QED BY <1>2, <1>5, <1>6, <1>7, <1>8, OneRequest

----------------------------------------------------------------------------
(* A node serves a write                                                   *)

\* A number that is new, or out on its way, is no number of a served write.
LEMMA ServesNew ==
  ASSUME IInv, NEW w \in LateWrite, w.write \notin served, Serve(w)
  PROVE  /\ data' \in [Nodes -> [Keys -> 0..MaxWrites]] /\ served' \subseteq Numbers
         /\ data'[w.node][w.key] = w.write
         /\ \A n \in Nodes, k \in Keys :
              data'[n][k] = data[n][k] \/ data'[n][k] \notin served \cup {0}
         /\ w.write \notin served \cup {0} /\ served' = served \cup {w.write}
<1>1. w.node \in Nodes /\ w.key \in Keys /\ w.write \in Numbers BY DEF LateWrite
<1>2. w.write \in 0..MaxWrites /\ w.write # 0 BY <1>1, GatewayAssumption DEF Numbers
<1>3. data \in [Nodes -> [Keys -> 0..MaxWrites]] /\ served \subseteq Numbers
  BY DEF IInv, TypeOK
<1>4. data' = [data EXCEPT ![w.node][w.key] = w.write] /\ served' = served \cup {w.write}
  BY DEF Serve
<1>5. ASSUME NEW n \in Nodes, NEW k \in Keys
      PROVE  data'[n][k] = IF n = w.node /\ k = w.key THEN w.write ELSE data[n][k]
  BY <1>1, <1>3, <1>4
<1>6. data' \in [Nodes -> [Keys -> 0..MaxWrites]] BY <1>1, <1>2, <1>3, <1>4
<1> QED BY <1>1, <1>2, <1>3, <1>4, <1>5, <1>6

\* What AckedInv and HeldInv say besides: no replaced write has a number that a
\* node has yet to serve.
LEMMA ReplacedServed ==
  ASSUME IInv
  PROVE  /\ \A k \in Keys : dead[k] \subseteq served \cup {0}
         /\ \A c \in Writing : req[c].before \subseteq served \cup {0}
<1>1. \A c \in Writing : req[c].key \in Keys BY WritingFacts DEF IInv
<1>2. AckedInv BY DEF IInv
<1> QED BY <1>1, <1>2 DEF AckedInv

\* What a step that serves a write keeps, whoever asked for it.
LEMMA ServeKeepsHeld ==
  ASSUME IInv, NEW w \in LateWrite, w.write \notin served, Serve(w),
         UNCHANGED <<hash, ring, home, dead>>, Writing' \subseteq Writing,
         \A c \in Writing' : /\ req'[c].key = req[c].key /\ req'[c].before = req[c].before
                             /\ \/ req'[c].at = "served" => req[c].at = "served"
                                \/ /\ w.key = req[c].key
                                   /\ w.node = NodeForKey(ring, req[c].key)
  PROVE  HeldInv'
<1>0. TypeOK BY DEF IInv
<1>1. /\ data'[w.node][w.key] = w.write
      /\ \A n \in Nodes, k \in Keys :
           data'[n][k] = data[n][k] \/ data'[n][k] \notin served \cup {0}
      /\ w.write \notin served \cup {0}
  BY ServesNew
<1>2. \A k \in Keys : dead[k] \subseteq served \cup {0} BY ReplacedServed
<1>3. \A c \in Writing : /\ req[c].before \subseteq served \cup {0}
                         /\ req[c].key \in Keys /\ NodeForKey(ring, req[c].key) \in Nodes
  BY <1>0, ReplacedServed, WritingFacts
<1>4. HeldInv BY DEF IInv
<1>5. ASSUME NEW k \in Keys PROVE (data[home[k]][k] \notin dead[k])'
  <2>1. home[k] \in Nodes BY <1>0 DEF TypeOK
  <2>2. data[home[k]][k] \notin dead[k] BY <1>4 DEF HeldInv
  <2> QED BY <1>1, <1>2, <2>1, <2>2
<1>6. ASSUME NEW c \in Writing', req'[c].at = "served"
      PROVE  data'[NodeForKey(ring, req[c].key)][req[c].key]
               \notin dead[req[c].key] \cup req[c].before
  <2>1. c \in Writing BY <1>6
  <2> DEFINE k == req[c].key
             n == NodeForKey(ring, k)
  <2>2. k \in Keys /\ n \in Nodes /\ req[c].before \subseteq served \cup {0} BY <1>3, <2>1
  <2>3. dead[k] \cup req[c].before \subseteq served \cup {0} BY <1>2, <2>2
  <2>4. CASE req[c].at = "served"
    <3>1. data[n][k] \notin dead[k] \cup req[c].before BY <1>4, <2>1, <2>4 DEF HeldInv
    <3>2. data'[n][k] = data[n][k] \/ data'[n][k] \notin served \cup {0} BY <1>1, <2>2
    <3> QED BY <2>3, <3>1, <3>2
  <2>5. CASE w.key = k /\ w.node = n
    <3>1. data'[n][k] \notin served \cup {0} BY <1>1, <2>5
    <3> QED BY <2>3, <3>1
  <2> QED BY <1>6, <2>4, <2>5
<1>7. \A c \in Writing' : req'[c].at = "served" =>
        data'[NodeForKey(ring, req[c].key)][req[c].key] \notin dead[req[c].key] \cup req[c].before
  BY <1>6
<1>8. \A c \in Writing' : (req[c].at = "served" =>
        data[NodeForKey(ring, req[c].key)][req[c].key] \notin dead[req[c].key] \cup req[c].before)'
  BY <1>7 DEF NodeForKey
<1> QED BY <1>5, <1>8 DEF HeldInv

\* A node serves a write that its client gave up.
LEMMA ServeLateStep ==
  ASSUME IInv, ServeLate
  PROVE  IInv'
<1>0. TypeOK BY DEF IInv
<1>1. PICK w \in late : Serve(w) /\ late' = late \ {w} BY DEF ServeLate
<1>2. UNCHANGED <<hash, config, ring, server, gwClosed, req, writes, restarts, acked, dead, home, refused>>
  BY DEF ServeLate
<1>3. w \in LateWrite /\ w.write \in Numbers BY <1>0 DEF TypeOK, LateWrite
<1>4. w.write <= writes /\ w.write \notin served BY DEF IInv, NumbersInv
<1>5. /\ data' \in [Nodes -> [Keys -> 0..MaxWrites]] /\ served' \subseteq Numbers
      /\ served' = served \cup {w.write}
  BY <1>1, <1>3, <1>4, ServesNew
<1>6. TypeOK' BY <1>0, <1>1, <1>2, <1>5 DEF TypeOK, Points
<1>7. ClosedInv' /\ NoneRefused' BY <1>2 DEF IInv, ClosedInv, NoneRefused
<1>8. Writing' = Writing BY <1>2 DEF Writing
<1>9. NumbersInv'
  <2>1. NumbersInv BY DEF IInv
  <2>2. served' \subseteq 1..writes' BY <2>1, <1>2, <1>3, <1>4, <1>5, <1>0 DEF NumbersInv, TypeOK, Numbers
  <2>3. \A c \in Writing : req[c].write # w.write BY <2>1 DEF NumbersInv
  <2>4. \A v \in late' : v.write # w.write BY <2>1, <1>1 DEF NumbersInv
  <2> HIDE DEF Writing
  <2> QED BY <2>1, <2>2, <2>3, <2>4, <1>1, <1>2, <1>5, <1>8 DEF NumbersInv
<1>10. AckedInv'
  <2>1. AckedInv BY DEF IInv
  <2> QED BY <2>1, <1>2, <1>5, <1>8 DEF AckedInv
<1>11. HeldInv' BY <1>1, <1>2, <1>3, <1>4, <1>8, ServeKeepsHeld
<1> QED BY <1>6, <1>7, <1>9, <1>10, <1>11 DEF IInv

\* A node serves a write that its client waits for.
LEMMA NodeServesStep ==
  ASSUME IInv, NEW c \in Clients, NodeServes(c)
  PROVE  IInv'
<1>0. TypeOK BY DEF IInv
<1>1. AtNode(c) /\ Serve(WriteOf(c)) /\ req' = [req EXCEPT ![c].at = "served"] BY DEF NodeServes
<1>2. UNCHANGED <<hash, config, ring, server, gwClosed, late, writes, restarts, acked, dead, home, refused>>
  BY DEF NodeServes
<1>3. req[c] \in WriteRequest /\ c \in Writing BY <1>0, <1>1, RequestFields
<1> DEFINE r == [req[c] EXCEPT !.at = "served"]
           w == WriteOf(c)
<1>4. /\ r \in WriteRequest /\ r.write = req[c].write /\ r.key = req[c].key
      /\ r.before = req[c].before /\ r.at = "served"
  BY <1>3, RequestServed
<1>5. /\ w \in LateWrite /\ w.write = req[c].write /\ w.key = req[c].key
      /\ w.node = NodeForKey(ring, req[c].key)
  BY <1>0, <1>3, WriteOfType
<1>6. w.write \notin served /\ w.write <= writes /\ w.write \in Numbers
  <2>1. req[c].at # "served" BY <1>1 DEF AtNode
  <2>2. req[c].write \in Numbers BY <1>3, WriteFields
  <2> QED BY <1>3, <1>5, <2>1, <2>2 DEF IInv, NumbersInv
<1>7. req' = [req EXCEPT ![c] = r] BY <1>1
<1>8. Serve(w) BY <1>1
<1> HIDE DEF r, w
<1>9. /\ data' \in [Nodes -> [Keys -> 0..MaxWrites]] /\ served' \subseteq Numbers
      /\ served' = served \cup {w.write}
  BY <1>5, <1>6, <1>8, ServesNew
<1>10. r \in RequestState BY <1>4 DEF RequestState
<1>11. /\ req' \in [Clients -> RequestState] /\ req'[c] = r
       /\ \A d \in Clients : d # c => req'[d] = req[d]
  BY <1>0, <1>7, <1>10, TypeKept
<1>12. TypeOK' BY <1>0, <1>2, <1>9, <1>11 DEF TypeOK, Points
<1>13. ClosedInv' /\ NoneRefused'
  <2>1. req[c] # Idle BY <1>3, WriteFields
  <2> QED BY <1>2, <2>1 DEF IInv, ClosedInv, NoneRefused
<1>14. Writing' = {d \in Clients : req'[d] \in WriteRequest} BY <1>11, WriteOp DEF Writing
<1>15. Writing = {d \in Clients : req[d] \in WriteRequest} BY <1>0, WritingFacts
<1>16. Writing' = Writing BY <1>3, <1>4, <1>11, <1>14, <1>15
<1>17. \A d \in Writing : /\ req'[d].key = req[d].key /\ req'[d].write = req[d].write
                          /\ req'[d].before = req[d].before
                          /\ d # c => req'[d].at = req[d].at
  BY <1>4, <1>11, <1>15
<1>18. NumbersInv'
  <2>1. NumbersInv BY DEF IInv
  <2>2. served' \subseteq 1..writes' BY <2>1, <1>2, <1>6, <1>9, <1>0 DEF NumbersInv, TypeOK, Numbers
  <2>3. \A d \in Writing : d # c => req[d].write # w.write BY <2>1, <1>3, <1>5 DEF NumbersInv
  <2>4. \A v \in late : v.write # w.write BY <2>1, <1>3, <1>5 DEF NumbersInv
  <2>5. \A d \in Writing : req'[d].write \in served' <=> req'[d].at = "served"
    <3> TAKE d \in Writing
    <3>1. CASE d = c BY <3>1, <1>4, <1>5, <1>9, <1>11
    <3>2. CASE d # c
      <4>1. req[d].write \in served <=> req[d].at = "served" BY <2>1 DEF NumbersInv
      <4> QED BY <3>2, <4>1, <2>3, <1>9, <1>17
    <3> QED BY <3>1, <3>2
  <2> HIDE DEF Writing
  <2> QED BY <2>1, <2>2, <2>4, <2>5, <1>2, <1>9, <1>16, <1>17 DEF NumbersInv
<1>19. AckedInv'
  <2>1. AckedInv BY DEF IInv
  <2> HIDE DEF Writing
  <2> QED BY <2>1, <1>2, <1>9, <1>16, <1>17 DEF AckedInv
<1>20. HeldInv'
  <2>1. \A d \in Writing' : /\ req'[d].key = req[d].key /\ req'[d].before = req[d].before
                            /\ \/ req'[d].at = "served" => req[d].at = "served"
                               \/ /\ w.key = req[d].key
                                  /\ w.node = NodeForKey(ring, req[d].key)
    <3> TAKE d \in Writing'
    <3>1. CASE d = c BY <3>1, <1>5, <1>16, <1>17
    <3>2. CASE d # c BY <3>2, <1>16, <1>17
    <3> QED BY <3>1, <3>2
  <2> QED BY <1>2, <1>5, <1>6, <1>8, <1>16, <2>1, ServeKeepsHeld
<1> QED BY <1>12, <1>13, <1>18, <1>19, <1>20 DEF IInv

----------------------------------------------------------------------------
(* A request begins; a write is acknowledged                               *)

\* A request is accepted; a write takes the next number.
LEMMA AcceptStep ==
  ASSUME IInv, NEW c \in Clients, Accept(c)
  PROVE  IInv'
<1>0. TypeOK BY DEF IInv
<1>1. ~gwClosed
  <2>1. server = "serving" BY DEF Accept
  <2> QED BY <2>1, <1>0 DEF IInv, ClosedInv, TypeOK
<1>2. UNCHANGED <<hash, config, ring, server, gwClosed, late, data, restarts,
                  acked, dead, home, served, refused>>
  BY DEF Accept, history
<1>3. CASE /\ writes' = writes
           /\ \/ \E k \in Keys : req' = [req EXCEPT ![c] = [at |-> "accepted", op |-> "read",
                                                            left |-> {}, key |-> k]]
              \/ \E op \in {"all", "status"} :
                   req' = [req EXCEPT ![c] = [at |-> "accepted", op |-> op, left |-> {}]]
  <2>1. PICK r \in ReadRequest \cup OtherRequest : req' = [req EXCEPT ![c] = r]
    BY <1>3 DEF ReadRequest, OtherRequest
  <2>2. r \in RequestState /\ r \notin WriteRequest BY NotWrites DEF RequestState
  <2>3. DataKept BY <1>2, <1>3 DEF DataKept
  <2> QED BY <1>1, <1>2, <2>1, <2>2, <2>3, OneRequest
<1>4. CASE /\ writes < MaxWrites /\ writes' = writes + 1
           /\ \E k \in Keys, at \in {"reading", "accepted"} :
                req' = [req EXCEPT ![c] = [at |-> at, op |-> "write", left |-> {}, key |-> k,
                                           write |-> writes + 1, before |-> acked[k]]]
  <2>1. PICK k \in Keys, at \in {"reading", "accepted"} :
          req' = [req EXCEPT ![c] = [at |-> at, op |-> "write", left |-> {}, key |-> k,
                                     write |-> writes + 1, before |-> acked[k]]]
    BY <1>4
  <2> DEFINE r == [at |-> at, op |-> "write", left |-> {}, key |-> k,
                   write |-> writes + 1, before |-> acked[k]]
  <2>2. MaxWrites \in Nat /\ writes \in 0..MaxWrites /\ writes' \in Numbers /\ writes' \in 0..MaxWrites
    BY <1>0, <1>4, GatewayAssumption DEF TypeOK, Numbers
  <2>3. acked[k] \in SUBSET (0..MaxWrites) BY <1>0 DEF TypeOK
  <2>4. /\ r \in WriteRequest /\ r.at = at /\ r.at # "served" /\ r.key = k /\ r.write = writes'
        /\ r.before = acked[k]
    BY <1>4, <2>2, <2>3 DEF WriteRequest
  <2>5. r \in RequestState BY <2>4 DEF RequestState
  <2>6. req' = [req EXCEPT ![c] = r] BY <2>1
  <2> HIDE DEF r
  <2>7. /\ req' \in [Clients -> RequestState] /\ req'[c] = r
        /\ \A d \in Clients : d # c => req'[d] = req[d]
    BY <1>0, <2>5, <2>6, TypeKept
  <2>8. TypeOK' BY <1>0, <1>2, <2>2, <2>7 DEF TypeOK, Points
  <2>9. ClosedInv' /\ NoneRefused' BY <1>1, <1>2 DEF IInv, ClosedInv, NoneRefused
  <2>10. Writing' = {d \in Clients : req'[d] \in WriteRequest} BY <2>7, WriteOp DEF Writing
  <2>11. Writing = {d \in Clients : req[d] \in WriteRequest} BY <1>0, WritingFacts
  <2>12. \A d \in Writing' : d = c \/ (d \in Writing /\ req'[d] = req[d])
    <3> TAKE d \in Writing'
    <3>1. d \in Clients /\ req'[d] \in WriteRequest BY <2>10
    <3>2. CASE d # c
      <4>1. req'[d] = req[d] BY <2>7, <3>1, <3>2
      <4> QED BY <2>11, <3>1, <4>1
    <3> QED BY <3>2
  <2>13. \A d \in Writing : req[d].write \in Numbers BY <1>0, WritingFacts
  <2>14. NumbersInv'
    <3>1. NumbersInv BY DEF IInv
    <3>2. served' \subseteq 1..writes' BY <1>2, <1>4, <2>2, <3>1 DEF NumbersInv
    <3>3. \A d \in Writing : req[d].write <= writes /\ req[d].write < writes'
      BY <1>4, <2>2, <2>13, <3>1 DEF NumbersInv, Numbers
    <3>4. \A w \in late : w.write \in Numbers BY <1>0 DEF TypeOK, LateWrite
    <3>5. \A w \in late : w.write <= writes /\ w.write < writes'
      BY <1>4, <2>2, <3>4, <3>1 DEF NumbersInv, Numbers
    <3>6. writes' \notin served BY <1>4, <2>2, <3>1 DEF NumbersInv
    <3>7. \A d \in Writing' : /\ req'[d].write <= writes'
                              /\ req'[d].write \in served' <=> req'[d].at = "served"
      <4> TAKE d \in Writing'
      <4>1. CASE d = c BY <4>1, <1>2, <2>2, <2>4, <2>7, <3>6 DEF Numbers
      <4>2. CASE d # c
        <5>1. d \in Writing /\ req'[d] = req[d] BY <4>2, <2>12
        <5>2. req[d].write \in Nat /\ req[d].write < writes' BY <5>1, <2>13, <3>3 DEF Numbers
        <5> QED BY <5>1, <5>2, <1>2, <2>2, <3>1 DEF NumbersInv, Numbers
      <4> QED BY <4>1, <4>2
    <3>8. \A d, e \in Writing' : req'[d].write = req'[e].write => d = e
      <4> TAKE d, e \in Writing'
      <4>1. req'[c].write = writes' BY <2>4, <2>7
      <4>2. \A x \in Writing : req[x].write # writes' BY <2>2, <2>13, <3>3 DEF Numbers
      <4> HIDE DEF Writing
      <4>3. CASE d = c BY <4>1, <4>2, <4>3, <2>12
      <4>4. CASE e = c BY <4>1, <4>2, <4>4, <2>12
      <4>5. CASE d # c /\ e # c BY <4>5, <2>12, <3>1 DEF NumbersInv
      <4> QED BY <4>3, <4>4, <4>5
    <3>9. \A w \in late' : w.write <= writes' /\ w.write \notin served'
      <4> TAKE w \in late'
      <4>1. w.write \in Nat /\ w.write < writes' BY <1>2, <3>4, <3>5 DEF Numbers
      <4> QED BY <4>1, <1>2, <2>2, <3>1 DEF NumbersInv, Numbers
    <3>10. \A d \in Writing', w \in late' : req'[d].write # w.write
      <4> TAKE d \in Writing', w \in late'
      <4>1. CASE d = c BY <4>1, <1>2, <2>2, <2>4, <2>7, <3>4, <3>5 DEF Numbers
      <4>2. CASE d # c BY <4>2, <1>2, <2>12, <3>1 DEF NumbersInv
      <4> QED BY <4>1, <4>2
    <3>11. \A v, w \in late' : v.write = w.write => v = w BY <1>2, <3>1 DEF NumbersInv
    <3> QED BY <3>2, <3>7, <3>8, <3>9, <3>10, <3>11 DEF NumbersInv
  <2>15. AckedInv'
    <3>1. AckedInv BY DEF IInv
    <3>2. \A d \in Writing' : req'[d].before \subseteq acked'[req'[d].key]
      <4> TAKE d \in Writing'
      <4>1. CASE d = c BY <4>1, <1>2, <2>4, <2>7
      <4>2. CASE d # c BY <4>2, <1>2, <2>12, <3>1 DEF AckedInv
      <4> QED BY <4>1, <4>2
    <3> QED BY <1>2, <3>1, <3>2 DEF AckedInv
  <2>16. HeldInv'
    <3>1. HeldInv BY DEF IInv
    <3>2. \A d \in Writing' : req'[d].at = "served" => d \in Writing /\ req'[d] = req[d]
      BY <2>4, <2>7, <2>12
    <3> QED BY <1>2, <3>1, <3>2 DEF HeldInv, NodeForKey
  <2> QED BY <2>8, <2>9, <2>14, <2>15, <2>16 DEF IInv
<1> QED BY <1>3, <1>4 DEF Accept

\* The answer arrives: the writes acknowledged before this one began are replaced.
LEMMA AcknowledgeStep ==
  ASSUME IInv, NEW c \in Clients, Acknowledge(c)
  PROVE  IInv'
<1>0. TypeOK BY DEF IInv
<1>1. req[c] \in WriteRequest /\ c \in Writing /\ req[c].at = "served"
  BY <1>0, RequestFields DEF Acknowledge
<1> DEFINE k == req[c].key
           n == NodeForKey(ring, k)
<1>2. k \in Keys /\ n \in Nodes /\ req[c].write \in Numbers /\ req[c].before \in SUBSET (0..MaxWrites)
  BY <1>0, <1>1, WritingFacts
<1>3. /\ acked' = [acked EXCEPT ![k] = @ \cup {req[c].write}]
      /\ dead' = [dead EXCEPT ![k] = @ \cup req[c].before]
      /\ home' = [home EXCEPT ![k] = n]
      /\ req' = [req EXCEPT ![c] = Answered]
      /\ UNCHANGED <<hash, config, ring, server, gwClosed, late, data, writes, restarts, served, refused>>
  BY DEF Acknowledge
<1>4. Answered \in RequestState /\ Answered \notin WriteRequest BY NotWrites DEF RequestState
<1>5. /\ req' \in [Clients -> RequestState] /\ req'[c] = Answered
      /\ \A d \in Clients : d # c => req'[d] = req[d]
  BY <1>0, <1>3, <1>4, TypeKept
<1>6. acked' \in [Keys -> SUBSET (0..MaxWrites)] /\ dead' \in [Keys -> SUBSET (0..MaxWrites)]
      /\ home' \in [Keys -> Nodes]
  <2>1. req[c].write \in 0..MaxWrites BY <1>2, GatewayAssumption DEF Numbers
  <2>2. /\ acked \in [Keys -> SUBSET (0..MaxWrites)] /\ dead \in [Keys -> SUBSET (0..MaxWrites)]
        /\ home \in [Keys -> Nodes]
    BY <1>0 DEF TypeOK
  <2> HIDE DEF k, n
  <2>3. acked' \in [Keys -> SUBSET (0..MaxWrites)] BY <1>3, <2>1, <2>2
  <2>4. dead' \in [Keys -> SUBSET (0..MaxWrites)] BY <1>2, <1>3, <2>2
  <2>5. home' \in [Keys -> Nodes] BY <1>2, <1>3, <2>2
  <2> QED BY <2>3, <2>4, <2>5
<1>7. TypeOK' BY <1>0, <1>3, <1>5, <1>6 DEF TypeOK, Points
<1>8. ClosedInv' /\ NoneRefused'
  <2>1. req[c] # Idle BY <1>1, WriteFields
  <2> QED BY <1>3, <1>5, <2>1 DEF IInv, ClosedInv, NoneRefused
<1>9. Writing' = {d \in Clients : req'[d] \in WriteRequest} BY <1>5, WriteOp DEF Writing
<1>10. Writing = {d \in Clients : req[d] \in WriteRequest} BY <1>0, WritingFacts
<1>11. \A d \in Writing' : d \in Writing /\ req'[d] = req[d] BY <1>4, <1>5, <1>9, <1>10
<1>12. NumbersInv'
  <2>1. NumbersInv BY DEF IInv
  <2> HIDE DEF Writing
  <2> QED BY <2>1, <1>3, <1>11 DEF NumbersInv
<1>13. \A x \in Keys : /\ acked'[x] = IF x = k THEN acked[k] \cup {req[c].write} ELSE acked[x]
                       /\ dead'[x] = IF x = k THEN dead[k] \cup req[c].before ELSE dead[x]
                       /\ home'[x] = IF x = k THEN n ELSE home[x]
  BY <1>0, <1>3 DEF TypeOK
<1>14. AckedInv'
  <2>1. AckedInv BY DEF IInv
  <2>2. req[c].write \in served BY <1>1 DEF IInv, NumbersInv
  <2>3. req[c].before \subseteq acked[k] BY <1>1, <2>1 DEF AckedInv
  <2>4. \A d \in Writing : req[d].key \in Keys BY <1>0, WritingFacts
  <2>5. \A x \in Keys : acked'[x] \subseteq served' \cup {0} /\ dead'[x] \subseteq acked'[x]
    <3> TAKE x \in Keys
    <3>1. acked[x] \subseteq served \cup {0} /\ dead[x] \subseteq acked[x] BY <2>1 DEF AckedInv
    <3> HIDE DEF k, n
    <3>2. CASE x = k BY <3>1, <3>2, <1>3, <1>13, <2>2, <2>3
    <3>3. CASE x # k BY <3>1, <3>3, <1>3, <1>13
    <3> QED BY <3>2, <3>3
  <2>6. \A d \in Writing' : req'[d].before \subseteq acked'[req'[d].key]
    <3> TAKE d \in Writing'
    <3>1. d \in Writing /\ req'[d] = req[d] /\ req[d].key \in Keys BY <1>11, <2>4
    <3>2. req[d].before \subseteq acked[req[d].key] BY <2>1, <3>1 DEF AckedInv
    <3> HIDE DEF k, n
    <3>3. acked[req[d].key] \subseteq acked'[req[d].key] BY <1>13, <3>1
    <3> QED BY <3>1, <3>2, <3>3
  <2> QED BY <2>5, <2>6 DEF AckedInv
<1>15. HeldInv'
  <2>1. HeldInv BY DEF IInv
  <2>2. data[n][k] \notin dead[k] \cup req[c].before BY <1>1, <2>1 DEF HeldInv
  <2>3. \A x \in Keys : data'[home'[x]][x] \notin dead'[x]
    <3> TAKE x \in Keys
    <3>1. data[home[x]][x] \notin dead[x] BY <2>1 DEF HeldInv
    <3> HIDE DEF k, n
    <3>2. CASE x = k BY <3>2, <1>3, <1>13, <2>2
    <3>3. CASE x # k BY <3>1, <3>3, <1>3, <1>13
    <3> QED BY <3>2, <3>3
  <2>4. ASSUME NEW d \in Writing', req[d].at = "served"
        PROVE  data[NodeForKey(ring, req[d].key)][req[d].key] \notin dead'[req[d].key] \cup req[d].before
    <3>1. d \in Writing BY <1>11
    <3>2. /\ req[d].key \in Keys
          /\ data[NodeForKey(ring, req[d].key)][req[d].key] \notin dead[req[d].key] \cup req[d].before
      BY <1>0, <2>1, <2>4, <3>1, WritingFacts DEF HeldInv
    <3>3. CASE req[d].key = k
      <4>1. dead'[req[d].key] = dead[k] \cup req[c].before BY <1>2, <1>13, <3>3
      <4> QED BY <2>2, <3>2, <3>3, <4>1
    <3>4. CASE req[d].key # k
      <4>1. dead'[req[d].key] = dead[req[d].key] BY <1>13, <3>2, <3>4
      <4> QED BY <3>2, <4>1
    <3> QED BY <3>3, <3>4
  <2>5. \A d \in Writing' : req'[d].at = "served" =>
          data'[NodeForKey(ring, req'[d].key)][req'[d].key] \notin dead'[req'[d].key] \cup req'[d].before
    <3> TAKE d \in Writing'
    <3>1. req'[d] = req[d] /\ data' = data BY <1>3, <1>11
    <3> QED BY <2>4, <3>1
  <2>6. \A d \in Writing' : (req[d].at = "served" =>
          data[NodeForKey(ring, req[d].key)][req[d].key] \notin dead[req[d].key] \cup req[d].before)'
    BY <2>5, <1>3 DEF NodeForKey
  <2> QED BY <2>3, <2>6 DEF HeldInv
<1> QED BY <1>7, <1>8, <1>12, <1>14, <1>15 DEF IInv

----------------------------------------------------------------------------
(* Requests given up, restarts, and the theorems                           *)

\* Given up writes keep their numbers when they become late.
LEMMA GivenUp ==
  ASSUME IInv, NEW gone, gone \subseteq {c \in Clients : AtNode(c)},
         late' = late \cup {WriteOf(c) : c \in gone},
         Writing' \subseteq Writing \ gone, \A c \in Writing' : req'[c] = req[c],
         UNCHANGED <<writes, served>>
  PROVE  NumbersInv' /\ late' \subseteq LateWrite
<1>0. TypeOK BY DEF IInv
<1>1. NumbersInv BY DEF IInv
<1>2. ASSUME NEW c \in gone
      PROVE  /\ c \in Writing /\ WriteOf(c) \in LateWrite /\ WriteOf(c).write = req[c].write
             /\ req[c].at # "served"
  <2>1. c \in Clients /\ AtNode(c) BY <1>2
  <2>2. req[c] \in WriteRequest BY <1>0, <2>1, RequestFields
  <2>3. c \in Writing BY <1>0, <2>1, <2>2, RequestFields
  <2> QED BY <1>0, <2>1, <2>2, <2>3, WriteOfType DEF AtNode
<1>3. \A w \in late' : w \in late \/ \E c \in gone : w = WriteOf(c) OBVIOUS
<1>4. late' \subseteq LateWrite BY <1>0, <1>2, <1>3 DEF TypeOK
<1> HIDE DEF Writing
<1>5. \A w \in late' : w.write <= writes /\ w.write \notin served
  <2> TAKE w \in late'
  <2>1. CASE w \in late BY <2>1, <1>1 DEF NumbersInv
  <2>2. CASE \E c \in gone : w = WriteOf(c) BY <2>2, <1>1, <1>2 DEF NumbersInv
  <2> QED BY <1>3, <2>1, <2>2
<1>6. \A c \in Writing', w \in late' : req'[c].write # w.write
  <2> TAKE c \in Writing', w \in late'
  <2>0. c \in Writing /\ c \notin gone /\ req'[c] = req[c] OBVIOUS
  <2>1. CASE w \in late BY <2>0, <2>1, <1>1 DEF NumbersInv
  <2>2. CASE \E d \in gone : w = WriteOf(d)
    <3>1. PICK d \in gone : w = WriteOf(d) BY <2>2
    <3>2. d \in Writing /\ w.write = req[d].write BY <1>2, <3>1
    <3>3. c # d BY <2>0
    <3> QED BY <2>0, <3>2, <3>3, <1>1 DEF NumbersInv
  <2> QED BY <1>3, <2>1, <2>2
<1>7. \A v, w \in late' : v.write = w.write => v = w
  <2> TAKE v, w \in late'
  <2>1. CASE v \in late /\ w \in late BY <2>1, <1>1 DEF NumbersInv
  <2>2. CASE v \in late /\ \E c \in gone : w = WriteOf(c) BY <2>2, <1>1, <1>2 DEF NumbersInv
  <2>3. CASE w \in late /\ \E c \in gone : v = WriteOf(c) BY <2>3, <1>1, <1>2 DEF NumbersInv
  <2>4. CASE (\E c \in gone : v = WriteOf(c)) /\ (\E d \in gone : w = WriteOf(d))
    <3>1. PICK c \in gone, d \in gone : v = WriteOf(c) /\ w = WriteOf(d) BY <2>4
    <3>2. c \in Writing /\ d \in Writing /\ v.write = req[c].write /\ w.write = req[d].write
      BY <1>2, <3>1
    <3>3. req[c].write = req[d].write => c = d BY <3>2, <1>1 DEF NumbersInv
    <3> QED BY <3>1, <3>2, <3>3
  <2> QED BY <1>3, <2>1, <2>2, <2>3, <2>4
<1>8. NumbersInv' BY <1>1, <1>5, <1>6, <1>7 DEF NumbersInv
<1> QED BY <1>4, <1>8

\* A client gives up.
LEMMA CallFailsStep ==
  ASSUME IInv, NEW c \in Clients, CallFails(c)
  PROVE  IInv'
<1>0. TypeOK BY DEF IInv
<1> DEFINE gone == {d \in {c} : AtNode(c)}
<1>1. UNCHANGED <<hash, config, ring, server, gwClosed, data, writes, restarts,
                  acked, dead, home, served, refused>>
  BY DEF CallFails, history
<1>2. late' = late \cup {WriteOf(d) : d \in gone} /\ req' = [req EXCEPT ![c] = Answered]
  BY DEF CallFails
<1>3. Answered \in RequestState /\ Answered \notin WriteRequest BY NotWrites DEF RequestState
<1>4. /\ req' \in [Clients -> RequestState] /\ req'[c] = Answered
      /\ \A d \in Clients : d # c => req'[d] = req[d]
  BY <1>0, <1>2, <1>3, TypeKept
<1>5. Writing' = {d \in Clients : req'[d] \in WriteRequest} BY <1>4, WriteOp DEF Writing
<1>6. Writing = {d \in Clients : req[d] \in WriteRequest} BY <1>0, WritingFacts
<1>7. \A d \in Writing' : d \in Writing /\ d # c /\ req'[d] = req[d]
  BY <1>3, <1>4, <1>5, <1>6
<1>8. gone \subseteq {d \in Clients : AtNode(d)} /\ gone \subseteq {c} OBVIOUS
<1>9. Writing' \subseteq Writing \ gone BY <1>7, <1>8
<1> HIDE DEF gone
<1>10. NumbersInv' /\ late' \subseteq LateWrite BY <1>1, <1>2, <1>7, <1>8, <1>9, GivenUp
<1>11. TypeOK' BY <1>0, <1>1, <1>4, <1>10 DEF TypeOK, Points
<1>12. ClosedInv' /\ NoneRefused'
  <2>1. req[c] # Idle
    <3>1. req[c] \in WriteRequest BY <1>0, RequestFields DEF CallFails
    <3> QED BY <3>1, WriteFields
  <2> QED BY <1>1, <1>4, <2>1 DEF IInv, ClosedInv, NoneRefused
<1>13. AckedInv'
  <2>1. AckedInv BY DEF IInv
  <2> HIDE DEF Writing
  <2> QED BY <2>1, <1>1, <1>7 DEF AckedInv
<1>14. HeldInv'
  <2>1. HeldInv BY DEF IInv
  <2> QED BY <2>1, <1>1, <1>7 DEF HeldInv, NodeForKey
<1> QED BY <1>10, <1>11, <1>12, <1>13, <1>14 DEF IInv

\* The proxy is restarted, with any configuration.
LEMMA RestartStep ==
  ASSUME IInv, Restart
  PROVE  IInv'
<1>0. TypeOK BY DEF IInv
<1> DEFINE gone == {c \in Clients : req[c] # Idle /\ AtNode(c)}
<1>1. /\ restarts' \in 0..MaxRestarts /\ config' \in Configs /\ ring' \in Rings(Points(config'))
      /\ server' = "opened" /\ gwClosed' = FALSE
      /\ req' = [c \in Clients |-> Idle]
      /\ late' = late \cup {WriteOf(c) : c \in gone}
      /\ UNCHANGED <<hash, data, writes, acked, dead, home, served, refused>>
  BY <1>0, GatewayAssumption DEF Restart, history, TypeOK
<1>2. Idle \in RequestState /\ Idle \notin WriteRequest BY NotWrites DEF RequestState
<1>3. req' \in [Clients -> RequestState] BY <1>1, <1>2
<1>4. Writing' = {} BY <1>1 DEF Writing
<1>5. gone \subseteq {c \in Clients : AtNode(c)} OBVIOUS
<1> HIDE DEF gone
<1>6. NumbersInv' /\ late' \subseteq LateWrite BY <1>1, <1>4, <1>5, GivenUp
<1>7. ring' \in Rings(Points(config))' BY <1>1 DEF Points
<1>8. TypeOK' BY <1>0, <1>1, <1>3, <1>6, <1>7 DEF TypeOK
<1>9. ClosedInv' /\ NoneRefused' BY <1>1 DEF IInv, ClosedInv, NoneRefused
<1>10. AckedInv' /\ HeldInv' BY <1>1, <1>4 DEF IInv, AckedInv, HeldInv
<1> QED BY <1>6, <1>8, <1>9, <1>10 DEF IInv

\* It holds when the proxy is first started.
LEMMA InitIInv == Init => IInv
<1> SUFFICES ASSUME Init PROVE IInv OBVIOUS
<1>1. MaxWrites \in Nat /\ MaxRestarts \in Nat BY GatewayAssumption
<1>2. Idle \in RequestState BY DEF RequestState
<1>3. \A k \in Keys : NodeForKey(ring, k) \in Nodes BY NodeOfKey DEF Init
<1>4. TypeOK
  <2>1. req \in [Clients -> RequestState] BY <1>2 DEF Init
  <2>2. home \in [Keys -> Nodes] BY <1>3 DEF Init
  <2>3. acked \in [Keys -> SUBSET (0..MaxWrites)] /\ dead \in [Keys -> SUBSET (0..MaxWrites)]
    BY <1>1 DEF Init
  <2>4. data \in [Nodes -> [Keys -> 0..MaxWrites]] /\ late \subseteq LateWrite /\ served \subseteq Numbers
    BY <1>1 DEF Init
  <2>5. writes \in 0..MaxWrites /\ restarts \in 0..MaxRestarts BY <1>1 DEF Init
  <2>6. hash \in Hashes /\ config \in Configs /\ ring \in Rings(Points(config))
    BY DEF Init
  <2>7. /\ server \in {"opened", "serving", "shutdown", "closed"}
        /\ gwClosed \in BOOLEAN /\ refused \in BOOLEAN
    BY DEF Init
  <2> QED BY <2>1, <2>2, <2>3, <2>4, <2>5, <2>6, <2>7 DEF TypeOK
<1>5. ClosedInv /\ NoneRefused BY DEF Init, ClosedInv, NoneRefused
<1>6. Writing = {} BY DEF Init, Writing
<1>7. NumbersInv BY <1>6 DEF Init, NumbersInv
<1>8. AckedInv BY <1>6 DEF Init, AckedInv
<1>9. HeldInv BY <1>6 DEF Init, HeldInv
<1> QED BY <1>4, <1>5, <1>7, <1>8, <1>9 DEF IInv

\* A step of something else changes nothing.
LEMMA StutterInv ==
  ASSUME IInv, UNCHANGED vars
  PROVE  IInv'
<1>1. UNCHANGED <<hash, config, ring, server, gwClosed, req, late, data, writes, restarts,
                  acked, dead, home, served, refused>>
  BY DEF vars, history
<1>2. Writing' = Writing BY <1>1 DEF Writing
<1>3. TypeOK' BY <1>1 DEF IInv, TypeOK, Points
<1>4. DataKept BY <1>1 DEF DataKept
<1>5. NumbersInv' /\ AckedInv' /\ HeldInv' BY <1>1, <1>2, <1>3, <1>4, RequestsKept
<1>6. ClosedInv' /\ NoneRefused' BY <1>1 DEF IInv, ClosedInv, NoneRefused
<1> QED BY <1>3, <1>5, <1>6 DEF IInv

\* Every step keeps IInv.
LEMMA NextInv ==
  ASSUME IInv, [Next]_vars
  PROVE  IInv'
<1>1. CASE Start \/ CloseBegins \/ CloseEnds BY <1>1, ServerStep
<1>2. CASE ServeLate BY <1>2, ServeLateStep
<1>3. CASE Restart BY <1>3, RestartStep
<1>4. ASSUME NEW c \in Clients,
             \/ Accept(c) \/ BodyRead(c) \/ Route(c) \/ Status(c) \/ CallEnds(c)
             \/ NodeServes(c) \/ Acknowledge(c) \/ CallFails(c) \/ AnswerTaken(c)
      PROVE  IInv'
  BY <1>4, AcceptStep, BodyReadStep, AnswerTakenStep, RouteStep, StatusStep, CallEndsStep, NodeServesStep, AcknowledgeStep,
     CallFailsStep
<1>5. CASE UNCHANGED vars BY <1>5, StutterInv
<1> QED BY <1>1, <1>2, <1>3, <1>4, <1>5 DEF Next

\* IInv holds in every reachable state: any clients, timeouts, late writes, restarts.
THEOREM InductiveInvariant == Spec => []IInv
<1>1. IInv /\ [Next]_vars => IInv' BY NextInv
<1> QED BY InitIInv, <1>1, PTL DEF Spec

\* No request that the proxy accepted is answered ErrClosed: Close of the proxy
\* closes the gateway after the last handler.
THEOREM NoneRefusedAlways == Spec => []NoneRefused
<1>1. IInv => NoneRefused BY DEF IInv
<1> QED BY <1>1, InductiveInvariant, PTL

\* A read never finds a write that an acknowledged, later one replaced, for keys
\* routed to the node that took the last acknowledged write.
THEOREM AckedVisibleAlways == Spec => []AckedVisible
<1>1. IInv => AckedVisible BY DEF IInv, HeldInv, AckedVisible
<1> QED BY <1>1, InductiveInvariant, PTL

\* Only two steps make a node take a write.
LEMMA DataSteps ==
  ASSUME [Next]_vars
  PROVE  data' = data \/ ServeLate \/ \E c \in Clients : NodeServes(c)
BY DEF Next, vars, Start, CloseBegins, CloseEnds, Restart, Accept, BodyRead, AnswerTaken, Route, Status, CallEnds,
       Acknowledge, CallFails

\* No write is served twice: doJSON never sends a request again.
THEOREM ServedOnceAlways == Spec => ServedOnce
<1> DEFINE Once == \A n \in Nodes, k \in Keys : data'[n][k] # data[n][k] => data'[n][k] \notin served
<1>1. ASSUME IInv, [Next]_vars PROVE Once
  <2>1. CASE data' = data BY <2>1
  <2>2. ASSUME NEW w \in LateWrite, w.write \notin served, Serve(w) PROVE Once
    BY <1>1, <2>2, ServesNew
  <2>3. CASE ServeLate
    <3>1. PICK w \in late : Serve(w) BY <2>3 DEF ServeLate
    <3>2. w \in LateWrite /\ w.write \notin served BY <1>1 DEF IInv, TypeOK, NumbersInv
    <3> QED BY <2>2, <3>1, <3>2
  <2>4. ASSUME NEW c \in Clients, NodeServes(c) PROVE Once
    <3>1. AtNode(c) /\ Serve(WriteOf(c)) BY <2>4 DEF NodeServes
    <3>2. req[c] \in WriteRequest /\ c \in Writing BY <1>1, <3>1, RequestFields DEF IInv
    <3>3. WriteOf(c) \in LateWrite /\ WriteOf(c).write = req[c].write
      BY <1>1, <3>2, WriteOfType DEF IInv
    <3>4. req[c].write \notin served BY <1>1, <3>1, <3>2 DEF IInv, NumbersInv, AtNode
    <3> HIDE DEF Once
    <3> QED BY <2>2, <3>1, <3>3, <3>4
  <2> HIDE DEF Once
  <2> QED BY <1>1, <2>1, <2>3, <2>4, DataSteps
<1>2. IInv /\ [Next]_vars => [Once]_vars BY <1>1
<1> QED BY <1>2, InductiveInvariant, PTL DEF Spec, ServedOnce

\* Only a restart changes the configuration.
LEMMA ConfigSteps ==
  ASSUME [Next]_vars, config' # config
  PROVE  Restart
BY DEF Next, vars, Start, CloseBegins, CloseEnds, ServeLate, Accept, BodyRead, AnswerTaken, Route, Status, CallEnds,
       NodeServes, Acknowledge, CallFails

\* A restart with another configuration moves the keys that PlanManualRebalance and
\* SimulateFailure predict, and no key between two nodes that are unchanged, for
\* every hash function that gives no two nodes a point of the same hash.
THEOREM MovesAsPlannedAlways == Spec => MovesAsPlanned
<1> DEFINE AsPlanned ==
      config' # config /\ Untied(Points(config)) =>
       LET plan    == PlanManualRebalance(ring, ring')
           removed == Changed \cap DOMAIN config
           added   == Restrict(config', Changed \cap DOMAIN config')
           impact  == SimulateFailure(ring, ring', removed)
       IN  /\ Planned(config, removed, added) = config'
           /\ \A k \in Keys : plan[k].moved =>
                plan[k].from \in removed \/ plan[k].to \in DOMAIN added
           /\ added = <<>> =>
                \A k \in Keys : impact[k].affected = plan[k].moved /\ ~impact[k].moved
<1>1. IInv /\ [Next]_vars => AsPlanned BY ConfigSteps, RestartMoves DEF IInv
<1>2. IInv /\ [Next]_vars => [AsPlanned]_vars BY <1>1
<1> QED BY <1>2, InductiveInvariant, PTL DEF Spec, MovesAsPlanned
=============================================================================
