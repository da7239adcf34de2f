------------------------ MODULE ShardStoreProofs ----------------------------
(***************************************************************************)
(* Proofs about the sharded store (module ShardStore): for any rings, keys *)
(* and options.                                                            *)
(*                                                                         *)
(* HomeInRange is about the rings alone: a search always ends at one of    *)
(* the shards that the manifest counts.  The inductive invariant IInv adds *)
(* to OneHome that the ring in use is that of SHARDING.json (ManifestInv), *)
(* for only then does a write go where the invariant expects its key, and  *)
(* what a running scan has collected so far (ScanInv).  The last section   *)
(* maps every step of the sharded store to a step of one dictionary        *)
(* (KVStore), or to none.                                                  *)
(***************************************************************************)
EXTENDS ShardStore, WellFoundedInduction, TLAPS

----------------------------------------------------------------------------
(* Rings                                                                   *)

\* A set of naturals has a least element.
LEMMA LeastNat ==
  ASSUME NEW T, T \subseteq Nat, T # {}
  PROVE  \E x \in T : \A y \in T : x <= y
<1>1. PICK x \in T : \A y \in T : <<y, x>> \notin OpToRel(<, Nat)
  BY NatLessThanWellFounded, WFMin
<1>2. \A y \in T : ~(y < x) BY <1>1 DEF OpToRel
<1> QED BY <1>2

\* Min finds it.
LEMMA MinFound ==
  ASSUME NEW S, S \subseteq Nat, S # {}
  PROVE  Min(S) \in S
BY LeastNat DEF Min

\* A search in a ring that has a point finds a member, whatever the hash.
LEMMA OwnerFound ==
  ASSUME NEW ring, DOMAIN ring \subseteq Nat, DOMAIN ring # {}, NEW h
  PROVE  \E p \in DOMAIN ring : Owner(ring, h) = ring[p]
<1> DEFINE after == {p \in DOMAIN ring : p >= h}
<1>1. CASE after # {}
  <2>1. Min(after) \in after BY <1>1, MinFound
  <2> QED BY <1>1, <2>1 DEF Owner, Successor
<1>2. CASE after = {}
  <2>1. Min(DOMAIN ring) \in DOMAIN ring BY MinFound
  <2> QED BY <1>2, <2>1 DEF Owner, Successor
<1> QED BY <1>1, <1>2

\* A point belongs to a member, also when several members have it.
LEMMA NumberedRingMembers ==
  ASSUME NEW points, DOMAIN points \subseteq Nat, NEW p \in DOMAIN NumberedRing(points)
  PROVE  NumberedRing(points)[p] \in DOMAIN points
<1>1. p \in Occupied(points) BY DEF NumberedRing
<1>2. HoldersOf(points, p) # {} /\ HoldersOf(points, p) \subseteq DOMAIN points
  BY <1>1 DEF Occupied, HoldersOf
<1>3. Min(HoldersOf(points, p)) \in HoldersOf(points, p) BY <1>2, MinFound
<1> QED BY <1>1, <1>2, <1>3 DEF NumberedRing

\* shardIndex never answers a shard that the manifest does not have: the ring has
\* a point, and the search wraps around.
LEMMA HomeInRange ==
  ASSUME NEW m \in Manifests, NEW k \in Keys
  PROVE  HomeUnder[m][k] \in 0..m.count - 1 /\ HomeUnder[m][k] \in Shards
<1> DEFINE points == [i \in 0..m.count - 1 |-> PointsOf(Label[i], m.vnodes)]
           ring   == NumberedRing(points)
<1>1. /\ m.count \in 1..MaxShards /\ m.vnodes \in VirtualNodes \cup {DefaultVirtualNodes}
      /\ MaxShards \in Nat /\ m.vnodes \in Nat \ {0}
  BY ShardAssumption DEF Manifests
<1>2. 0 \in 0..m.count - 1 /\ 0..m.count - 1 \subseteq Shards /\ 0..m.count - 1 \subseteq Nat BY <1>1 DEF Shards
<1>3. \A i \in DOMAIN points : points[i] \subseteq Nat BY <1>1, <1>2, ShardAssumption
<1>4. points[0] # {}
  <2>1. 1 \in 1..m.vnodes BY <1>1
  <2> QED BY <1>2, <2>1 DEF PointsOf
<1>5. DOMAIN ring = Occupied(points) BY DEF NumberedRing
<1>6. DOMAIN ring \subseteq Nat /\ DOMAIN ring # {} BY <1>2, <1>3, <1>4, <1>5 DEF Occupied
<1>7. DOMAIN points = 0..m.count - 1 OBVIOUS
<1>8. HomeUnder[m][k] = Owner(ring, Hash[k]) BY DEF HomeUnder
<1> HIDE DEF ring, points
<1>9. PICK p \in DOMAIN ring : Owner(ring, Hash[k]) = ring[p] BY <1>6, OwnerFound
<1>10. ring[p] \in DOMAIN points BY <1>2, <1>7, <1>9, NumberedRingMembers DEF ring
<1> QED BY <1>2, <1>7, <1>8, <1>9, <1>10

----------------------------------------------------------------------------
(* Opening, closing and writing                                            *)

\* An open store looks for a key where the ring of its manifest says.
LEMMA Home ==
  ASSUME TypeOK, ManifestInv, opts # NoFile
  PROVE  /\ opts \in Manifests /\ opts = manifest
         /\ \A k \in Keys : /\ ShardIndex(k) \in 0..opts.count - 1
                            /\ ShardIndex(k) \in Shards
                            /\ ShardIndex(k) = HomeUnder[manifest][k]
<1>1. opts \in Manifests /\ opts = manifest BY DEF TypeOK, ManifestInv
<1>2. \A k \in Keys : ShardIndex(k) \in 0..opts.count - 1
  BY <1>1, HomeInRange DEF ShardIndex
<1>3. opts.count \in 1..MaxShards /\ MaxShards \in Nat BY <1>1, ShardAssumption DEF Manifests
<1>4. 0..opts.count - 1 \subseteq Shards BY <1>3 DEF Shards
<1> QED BY <1>1, <1>2, <1>4 DEF ShardIndex

\* The parts of IInv that a step cannot disturb if it leaves the engines and the
\* options alone, and the scans and their histories of those that run or have answered.
LEMMA ScansKept ==
  ASSUME ScanInv, ScanIsCurrent, kv' = kv, opts' = opts, open' = open,
         scan' = scan, during' = during
  PROVE  ScanInv' /\ ScanIsCurrent'
BY DEF ScanInv, ScanIsCurrent, ShardIndex

LEMMA ManifestKept ==
  ASSUME ManifestInv, OneHome, kv' = kv, unsure' = unsure, opts' = opts, manifest' = manifest,
         open' = open, scan' = scan
  PROVE  ManifestInv' /\ OneHome'
BY DEF ManifestInv, OneHome

LEMMA InitIInv == Init => IInv
<1> SUFFICES ASSUME Init PROVE IInv OBVIOUS
<1>1. TypeOK BY DEF Init, TypeOK, Dictionaries, ScanState, Empty
<1>2. ManifestInv BY DEF Init, ManifestInv, Empty, Idle
<1>3. OneHome BY DEF Init, OneHome, Empty
<1>4. ScanInv /\ ScanIsCurrent BY DEF Init, ScanInv, ScanIsCurrent, Idle
<1> QED BY <1>1, <1>2, <1>3, <1>4 DEF IInv

\* What Accepts lets Open work with: the file as it is, if there is one.
LEMMA Accepted ==
  ASSUME NEW count, NEW vnodes, NEW m, Accepts(count, vnodes, m), manifest # NoFile
  PROVE  m = manifest
BY DEF Accepts

LEMMA NoFileIsNone == NoFile \notin Manifests
BY ShardAssumption DEF NoFile, Manifests

LEMMA OpenStep == ASSUME IInv, NEW count, NEW vnodes, Open(count, vnodes) PROVE IInv'
<1>1. PICK m \in Manifests : Accepts(count, vnodes, m) /\ manifest' = m /\ opts' = m
  BY DEF Open
<1>2. ~open /\ open' = TRUE /\ UNCHANGED <<kv, unsure, gone, acked, scan, during>>
  BY DEF Open, engines
<1>3. TypeOK' BY <1>1, <1>2 DEF IInv, TypeOK
<1>4. opts' # NoFile BY <1>1, NoFileIsNone
<1>5. ManifestInv' BY <1>1, <1>2, <1>4 DEF ManifestInv
<1>6. opts # NoFile => opts' = opts /\ manifest' = manifest
  BY <1>1, Accepted DEF IInv, ManifestInv
<1>7. OneHome' BY <1>2, <1>6 DEF IInv, OneHome, ManifestInv
<1>8. \A c \in Scanners : scan[c].at # "running" BY <1>2 DEF IInv, ScanInv
<1>9. ScanInv' BY <1>2, <1>8 DEF ScanInv
<1>10. ScanIsCurrent' BY <1>2, <1>6 DEF IInv, ScanIsCurrent, ShardIndex, ManifestInv
<1> QED BY <1>3, <1>5, <1>7, <1>9, <1>10 DEF IInv

LEMMA OpenFailsStep == ASSUME IInv, NEW count, NEW vnodes, OpenFails(count, vnodes) PROVE IInv'
<1>1. PICK m \in Manifests : Accepts(count, vnodes, m) /\ manifest' = m
  BY DEF OpenFails
<1>2. UNCHANGED <<opts, open, kv, unsure, gone, acked, scan, during>>
  BY DEF OpenFails, engines
<1>3. TypeOK' BY <1>1, <1>2 DEF IInv, TypeOK
<1>4. opts # NoFile => manifest' = manifest BY <1>1, Accepted DEF IInv, ManifestInv
<1>5. ManifestInv' BY <1>2, <1>4 DEF IInv, ManifestInv
<1>6. OneHome' BY <1>2, <1>4 DEF IInv, OneHome, ManifestInv
<1> QED BY <1>2, <1>3, <1>5, <1>6, ScansKept DEF IInv

\* Settled engines hold, key by key, what they held or a write that failed.
LEMMA Settled ==
  ASSUME NEW maybe, Settle(maybe)
  PROVE  /\ kv' \in Dictionaries
         /\ \A i \in Shards, k \in Keys : kv'[i][k] \in {kv[i][k]} \cup maybe[i][k]
BY DEF Settle, Dictionaries

LEMMA CloseStep == ASSUME IInv, Close PROVE IInv'
<1>1. /\ open /\ open' = FALSE /\ gone' = {} /\ \A c \in Scanners : scan[c].at # "running"
      /\ UNCHANGED <<manifest, opts, unsure, acked, scan, during, used>>
  BY DEF Close
<1>2. /\ kv' \in Dictionaries
      /\ \A i \in Shards, k \in Keys : kv'[i][k] \in {kv[i][k]} \cup unsure[i][k]
  BY Settled DEF Close
<1>3. TypeOK' BY <1>1, <1>2 DEF IInv, TypeOK
<1>4. ManifestInv' BY <1>1 DEF IInv, ManifestInv
<1>5. OneHome' BY <1>1, <1>2 DEF IInv, OneHome
<1>6. ScanInv' BY <1>1 DEF ScanInv
<1>7. ScanIsCurrent' BY <1>1 DEF IInv, ScanIsCurrent, ShardIndex
<1> QED BY <1>3, <1>4, <1>5, <1>6, <1>7 DEF IInv

\* The process dies, with the failed writes in "maybe" on the disk.
LEMMA Dies ==
  ASSUME IInv, opts # NoFile, UNCHANGED <<manifest, opts, acked>>,
         unsure' \in [Shards -> [Keys -> SUBSET (Values \cup {Nil})]],
         \A i \in Shards, k \in Keys : unsure'[i][k] # {} => unsure[i][k] # {} \/ i = HomeUnder[manifest][k],
         Settle(unsure'), LoseMemory
  PROVE  IInv'
<1>1. /\ open' = FALSE /\ gone' = {} /\ scan' = [c \in Scanners |-> Idle]
      /\ during' = [c \in Scanners |-> {}]
  BY DEF LoseMemory
<1>2. /\ kv' \in Dictionaries
      /\ \A i \in Shards, k \in Keys : kv'[i][k] \in {kv[i][k]} \cup unsure'[i][k]
  BY Settled
<1>3. TypeOK' BY <1>1, <1>2 DEF IInv, TypeOK, ScanState
<1>4. ManifestInv' BY DEF IInv, ManifestInv
<1>5. OneHome' BY <1>2 DEF IInv, OneHome
<1>6. ScanInv' /\ ScanIsCurrent' BY <1>1 DEF ScanInv, ScanIsCurrent, Idle
<1> QED BY <1>3, <1>4, <1>5, <1>6 DEF IInv

LEMMA CrashStep == ASSUME IInv, Crash PROVE IInv'
<1>1. /\ opts # NoFile /\ Settle(unsure) /\ LoseMemory /\ unsure' = unsure
      /\ UNCHANGED <<manifest, opts, acked>>
  BY DEF IInv, ManifestInv, Crash
<1>2. unsure' \in [Shards -> [Keys -> SUBSET (Values \cup {Nil})]] BY <1>1 DEF IInv, TypeOK
<1>3. Settle(unsure') BY <1>1
<1> QED BY <1>1, <1>2, <1>3, Dies

LEMMA WriteFailsStep ==
  ASSUME IInv, NEW k \in Keys, NEW v \in Values \cup {Nil}, WriteFails(k, v) PROVE IInv'
<1> DEFINE i == ShardIndex(k)
<1>1. /\ open /\ unsure' = [unsure EXCEPT ![i][k] = @ \cup {v}]
      /\ UNCHANGED <<manifest, opts, open, kv, gone, acked, scan, during>>
  BY DEF WriteFails
<1>2. opts # NoFile BY <1>1 DEF IInv, ManifestInv
<1>3. i \in Shards /\ i = HomeUnder[manifest][k] BY <1>2, Home DEF IInv
<1> HIDE DEF i
<1>4. /\ unsure' \in [Shards -> [Keys -> SUBSET (Values \cup {Nil})]]
      /\ \A j \in Shards, l \in Keys : j # i \/ l # k => unsure'[j][l] = unsure[j][l]
  BY <1>1, <1>3 DEF IInv, TypeOK
<1>5. TypeOK' BY <1>1, <1>4 DEF IInv, TypeOK
<1>6. ManifestInv' BY <1>1, <1>2 DEF IInv, ManifestInv
<1>7. OneHome' BY <1>1, <1>3, <1>4 DEF IInv, OneHome
<1> QED BY <1>1, <1>5, <1>6, <1>7, ScansKept DEF IInv

LEMMA CrashInWriteStep ==
  ASSUME IInv, NEW k \in Keys, NEW v \in Values \cup {Nil}, CrashInWrite(k, v) PROVE IInv'
<1> DEFINE i == ShardIndex(k)
<1>1. /\ open /\ unsure' = [unsure EXCEPT ![i][k] = @ \cup {v}]
      /\ Settle(unsure') /\ LoseMemory /\ UNCHANGED <<manifest, opts, acked>>
  BY DEF CrashInWrite
<1>2. opts # NoFile BY <1>1 DEF IInv, ManifestInv
<1>3. i \in Shards /\ i = HomeUnder[manifest][k] BY <1>2, Home DEF IInv
<1> HIDE DEF i
<1>4. /\ unsure' \in [Shards -> [Keys -> SUBSET (Values \cup {Nil})]]
      /\ \A j \in Shards, l \in Keys : j # i \/ l # k => unsure'[j][l] = unsure[j][l]
  BY <1>1, <1>3 DEF IInv, TypeOK
<1> QED BY <1>1, <1>2, <1>3, <1>4, Dies

LEMMA WriteStep ==
  ASSUME IInv, NEW k \in Keys, NEW v \in Values \cup {Nil}, Write(k, v) PROVE IInv'
<1> DEFINE i == ShardIndex(k)
<1>1. /\ open /\ kv' = [kv EXCEPT ![i][k] = v] /\ Watch
      /\ unsure' = [unsure EXCEPT ![i][k] = {}] /\ acked' = [acked EXCEPT ![k] = v]
      /\ UNCHANGED <<manifest, opts, open, gone, scan>>
  BY DEF Write
<1>2. opts # NoFile BY <1>1 DEF IInv, ManifestInv
<1>3. i \in Shards /\ i = HomeUnder[manifest][k] BY <1>2, Home DEF IInv
<1> HIDE DEF i
<1>4. /\ kv' \in Dictionaries
      /\ \A j \in Shards, l \in Keys : j # i \/ l # k => kv'[j][l] = kv[j][l]
  BY <1>1, <1>3 DEF IInv, TypeOK, Dictionaries
<1>5. /\ unsure' \in [Shards -> [Keys -> SUBSET (Values \cup {Nil})]]
      /\ \A j \in Shards, l \in Keys : j # i \/ l # k => unsure'[j][l] = unsure[j][l]
  BY <1>1, <1>3 DEF IInv, TypeOK
<1>6. /\ during' \in [Scanners -> SUBSET Dictionaries]
      /\ \A c \in Scanners : during[c] \subseteq during'[c]
      /\ \A c \in Scanners : scan[c].at = "running" => kv' \in during'[c]
  BY <1>1, <1>4 DEF Watch, IInv, TypeOK
<1>7. TypeOK' BY <1>1, <1>4, <1>5, <1>6 DEF IInv, TypeOK
<1>8. ManifestInv' BY <1>1, <1>2 DEF IInv, ManifestInv
<1>9. OneHome' BY <1>1, <1>3, <1>4, <1>5 DEF IInv, OneHome
<1>10. ScanInv' BY <1>1, <1>6 DEF IInv, ScanInv, ShardIndex
<1>11. ScanIsCurrent' BY <1>1, <1>6 DEF IInv, ScanIsCurrent, ShardIndex
<1> QED BY <1>7, <1>8, <1>9, <1>10, <1>11 DEF IInv

LEMMA FlushFailsStep == ASSUME IInv, NEW i \in Shards, FlushFails(i) PROVE IInv'
<1>1. gone' = gone \cup {i} /\ UNCHANGED <<manifest, opts, open, kv, unsure, acked, scan, during>>
  BY DEF FlushFails, engines
<1>2. TypeOK' BY <1>1 DEF IInv, TypeOK
<1> QED BY <1>1, <1>2, ManifestKept, ScansKept DEF IInv

----------------------------------------------------------------------------
(* Scans                                                                   *)

\* A step of one caller of Scan.
ScanFrame(c) ==
  /\ UNCHANGED <<manifest, opts, open, kv, unsure, gone, acked>>
  /\ scan' \in [Scanners -> ScanState] /\ during' \in [Scanners -> SUBSET Dictionaries]
  /\ open
  /\ \A d \in Scanners : d # c => scan'[d] = scan[d] /\ during'[d] = during[d]

LEMMA ScanFrameKeeps ==
  ASSUME IInv, NEW c \in Scanners, ScanFrame(c)
  PROVE  /\ TypeOK' /\ ManifestInv' /\ OneHome' /\ opts # NoFile
         /\ \A k \in Keys : ShardIndex(k)' = ShardIndex(k)
<1>1. opts # NoFile BY DEF IInv, ManifestInv, ScanFrame
<1>2. TypeOK' BY DEF IInv, TypeOK, ScanFrame
<1>3. ManifestInv' BY <1>1 DEF IInv, ManifestInv, ScanFrame
<1>4. OneHome' BY DEF IInv, OneHome, ScanFrame
<1> QED BY <1>1, <1>2, <1>3, <1>4 DEF ScanFrame, ShardIndex

LEMMA ScanBeginsStep == ASSUME IInv, NEW c \in Scanners, ScanBegins(c) PROVE IInv'
<1> DEFINE s == [at |-> "running", next |-> 0, found |-> Empty]
<1>1. /\ open /\ UNCHANGED <<manifest, opts, open, kv, unsure, gone, acked, used>>
      /\ scan' = [scan EXCEPT ![c] = s] /\ during' = [during EXCEPT ![c] = {kv}]
  BY DEF ScanBegins, engines
<1>2. /\ s \in ScanState /\ s.at = "running" /\ s.next = 0 /\ \A k \in Keys : s.found[k] = Nil
  BY DEF ScanState, Empty
<1> HIDE DEF s
<1>3. scan'[c] = s /\ during'[c] = {kv} /\ ScanFrame(c)
  BY <1>1, <1>2 DEF ScanFrame, IInv, TypeOK
<1>4. opts \in Manifests /\ opts.count \in Nat
  BY <1>3, ScanFrameKeeps, Home, ShardAssumption DEF IInv, Manifests
<1>5. \A i \in Shards : ~(i < s.next) BY <1>2 DEF Shards
<1>6. ScanInv' BY <1>1, <1>2, <1>3, <1>4, <1>5, ScanFrameKeeps DEF IInv, ScanInv, ScanFrame
<1>7. ScanIsCurrent' BY <1>2, <1>3, ScanFrameKeeps DEF IInv, ScanIsCurrent, ScanFrame
<1> QED BY <1>3, <1>6, <1>7, ScanFrameKeeps DEF IInv

LEMMA ScanShardStep == ASSUME IInv, NEW c \in Scanners, ScanShard(c) PROVE IInv'
<1> DEFINE s == scan[c]
           i == s.next
           t == [at |-> "running", next |-> i + 1, found |-> Merged(s.found, kv[i])]
<1>1. /\ s.at = "running" /\ i < opts.count /\ UNCHANGED <<manifest, opts, open, kv, unsure, gone, acked>>
      /\ during' = during /\ scan' = [scan EXCEPT ![c] = IF i \in gone THEN [at |-> "failed"] ELSE t]
  BY DEF ScanShard, engines
<1>2. /\ open /\ kv \in during[c]
      /\ \A j \in Shards : j < i => \E past \in during[c] : \A k \in Keys :
           ShardIndex(k) = j => s.found[k] = past[j][k]
      /\ \A k \in Keys : ShardIndex(k) >= i => s.found[k] = Nil
  BY <1>1 DEF IInv, ScanInv
<1>3. /\ opts \in Manifests /\ opts.count \in 1..MaxShards /\ MaxShards \in Nat
      /\ \A k \in Keys : /\ ShardIndex(k) \in Shards /\ ShardIndex(k) \in Nat
                         /\ ShardIndex(k) = HomeUnder[manifest][k]
  BY <1>2, Home, ShardAssumption DEF IInv, ManifestInv, Manifests, Shards
<1>4. s \in ScanState /\ i \in Nat /\ s.found \in [Keys -> Values \cup {Nil}]
  BY <1>1 DEF IInv, TypeOK, ScanState, Idle
<1>5. i \in Shards BY <1>1, <1>3, <1>4 DEF Shards
<1>6. \A k \in Keys : t.found[k] = IF ShardIndex(k) = i THEN kv[i][k] ELSE s.found[k]
  <2> TAKE k \in Keys
  <2>1. t.found[k] = IF kv[i][k] # Nil THEN kv[i][k] ELSE s.found[k] BY DEF Merged
  <2>2. ShardIndex(k) # i => kv[i][k] = Nil BY <1>3, <1>5 DEF IInv, OneHome
  <2>3. ShardIndex(k) = i => s.found[k] = Nil BY <1>2, <1>3, <1>4
  <2> QED BY <2>1, <2>2, <2>3
<1>7. t \in ScanState /\ t.at = "running" /\ t.next = i + 1
  <2>1. kv[i] \in [Keys -> Values \cup {Nil}] BY <1>5 DEF IInv, TypeOK, Dictionaries
  <2>2. Merged(s.found, kv[i]) \in [Keys -> Values \cup {Nil}] BY <1>4, <2>1 DEF Merged
  <2> QED BY <1>4, <2>2 DEF ScanState
<1> HIDE DEF t
<1>8. CASE i \in gone
  <2>1. scan'[c].at = "failed" /\ ScanFrame(c) BY <1>1, <1>2, <1>8 DEF ScanFrame, IInv, TypeOK, ScanState
  <2>2. ScanInv' BY <1>1, <2>1, ScanFrameKeeps DEF IInv, ScanInv, ScanFrame
  <2>3. ScanIsCurrent' BY <2>1, ScanFrameKeeps DEF IInv, ScanIsCurrent, ScanFrame
  <2> QED BY <2>1, <2>2, <2>3, ScanFrameKeeps DEF IInv
<1>9. CASE i \notin gone
  <2>1. scan'[c] = t /\ ScanFrame(c) BY <1>1, <1>2, <1>7, <1>9 DEF ScanFrame, IInv, TypeOK
  <2>2. ASSUME NEW j \in Shards, j < i + 1
        PROVE  \E past \in during[c] : \A k \in Keys : ShardIndex(k) = j => t.found[k] = past[j][k]
    <3>1. CASE j = i BY <1>2, <1>6, <3>1
    <3>2. CASE j < i BY <1>2, <1>6, <3>2
    <3> QED BY <1>4, <2>2, <3>1, <3>2 DEF Shards
  <2>3. ASSUME NEW k \in Keys, ShardIndex(k) >= i + 1 PROVE t.found[k] = Nil
    BY <1>2, <1>3, <1>4, <1>6, <2>3
  <2>4. i + 1 <= opts.count BY <1>1, <1>3, <1>4
  <2>5. ScanInv'
    BY <1>1, <1>2, <1>7, <2>1, <2>2, <2>3, <2>4, ScanFrameKeeps DEF IInv, ScanInv, ScanFrame
  <2>6. ScanIsCurrent' BY <1>7, <2>1, ScanFrameKeeps DEF IInv, ScanIsCurrent, ScanFrame
  <2> QED BY <2>1, <2>5, <2>6, ScanFrameKeeps DEF IInv
<1> QED BY <1>8, <1>9

LEMMA ScanReturnsStep == ASSUME IInv, NEW c \in Scanners, ScanReturns(c) PROVE IInv'
<1> DEFINE s == scan[c]
<1>1. /\ s.at = "running" /\ s.next = opts.count
      /\ UNCHANGED <<manifest, opts, open, kv, unsure, gone, acked>>
      /\ during' = during /\ scan' = [scan EXCEPT ![c].at = "answered"]
  BY DEF ScanReturns, engines
<1>2. /\ open
      /\ \A j \in Shards : j < opts.count => \E past \in during[c] : \A k \in Keys :
           ShardIndex(k) = j => s.found[k] = past[j][k]
  BY <1>1 DEF IInv, ScanInv
<1>3. /\ opts.count \in Nat /\ \A k \in Keys : ShardIndex(k) \in 0..opts.count - 1
  BY <1>2, Home, ShardAssumption DEF IInv, ManifestInv, Manifests
<1>4. s \in [at : {"running", "answered"}, next : Nat, found : [Keys -> Values \cup {Nil}]]
  BY <1>1 DEF IInv, TypeOK, ScanState, Idle
<1>5. /\ scan'[c] = [s EXCEPT !.at = "answered"] /\ scan' \in [Scanners -> ScanState]
      /\ \A d \in Scanners : d # c => scan'[d] = scan[d]
  BY <1>1, <1>4 DEF IInv, TypeOK, ScanState
<1>6. scan'[c].at = "answered" /\ scan'[c].found = s.found BY <1>4, <1>5
<1>7. ScanFrame(c) BY <1>1, <1>2, <1>5 DEF ScanFrame, IInv, TypeOK
<1>8. ScanInv' BY <1>1, <1>6, <1>7, ScanFrameKeeps DEF IInv, ScanInv, ScanFrame
<1>9. ASSUME NEW i \in Shards
      PROVE  \E past \in during[c] : \A k \in Keys : ShardIndex(k) = i => s.found[k] = past[i][k]
  <2>1. CASE i < opts.count BY <1>2, <2>1
  <2>2. CASE ~(i < opts.count)
    <3>1. \A k \in Keys : ShardIndex(k) # i BY <1>3, <2>2 DEF Shards
    <3>2. kv \in during[c] BY <1>1 DEF IInv, ScanInv
    <3> QED BY <3>1, <3>2
  <2> QED BY <2>1, <2>2
<1>10. ScanIsCurrent'
  BY <1>1, <1>6, <1>7, <1>9, ScanFrameKeeps DEF IInv, ScanIsCurrent, ScanFrame
<1> QED BY <1>7, <1>8, <1>10, ScanFrameKeeps DEF IInv

LEMMA NextIInv == IInv /\ [Next]_vars => IInv'
<1> SUFFICES ASSUME IInv, [Next]_vars PROVE IInv' OBVIOUS
<1>1. CASE UNCHANGED vars
  <2>1. UNCHANGED <<manifest, opts, open, kv, unsure, gone, acked, scan, during>>
    BY <1>1 DEF vars, engines
  <2>2. TypeOK' BY <2>1 DEF IInv, TypeOK
  <2> QED BY <2>1, <2>2, ManifestKept, ScansKept DEF IInv
<1>2. ASSUME NEW count \in 0..MaxShards, NEW vnodes \in VirtualNodes \cup {0},
             Open(count, vnodes) \/ OpenFails(count, vnodes)
      PROVE  IInv'
  BY <1>2, OpenStep, OpenFailsStep
<1>3. CASE Close \/ Crash BY <1>3, CloseStep, CrashStep
<1>4. ASSUME NEW k \in Keys, NEW v \in Values \cup {Nil},
             Write(k, v) \/ WriteFails(k, v) \/ CrashInWrite(k, v)
      PROVE  IInv'
  BY <1>4, WriteStep, WriteFailsStep, CrashInWriteStep
<1>5. ASSUME NEW i \in Shards, FlushFails(i) PROVE IInv' BY <1>5, FlushFailsStep
<1>6. ASSUME NEW c \in Scanners, ScanBegins(c) \/ ScanShard(c) \/ ScanReturns(c) PROVE IInv'
  BY <1>6, ScanBeginsStep, ScanShardStep, ScanReturnsStep
<1> QED BY <1>1, <1>2, <1>3, <1>4, <1>5, <1>6 DEF Next

\* IInv holds in every reachable state, whatever options Open is called with.
THEOREM InductiveInvariant == Spec => []IInv
BY InitIInv, NextIInv, PTL DEF Spec

\* No entry, and no failed write that may surface, is ever in a shard other than
\* the one where reads look for its key: Open takes the count and the virtual
\* nodes of SHARDING.json, or refuses.
THEOREM OneHomeAlways == Spec => []OneHome
<1>1. IInv => OneHome BY DEF IInv
<1> QED BY <1>1, InductiveInvariant, PTL

\* What a successful Scan returns of each shard is what the shard held at one
\* moment of the scan; the merge keeps no shard's entries from the answer.
THEOREM ScanIsCurrentAlways == Spec => []ScanIsCurrent
<1>1. IInv => ScanIsCurrent BY DEF IInv
<1> QED BY <1>1, InductiveInvariant, PTL

----------------------------------------------------------------------------
(* The shards together are one dictionary                                  *)

\* The shards seen as one dictionary, once a ring is in use.
LEMMA RoutedTo ==
  ASSUME IInv, opts # NoFile
  PROVE  /\ Routed(kv, Nil) = [k \in Keys |-> kv[ShardIndex(k)][k]]
         /\ Routed(unsure, {}) = [k \in Keys |-> unsure[ShardIndex(k)][k]]
         /\ \A k \in Keys : ShardIndex(k) \in Shards
BY Home DEF IInv, Routed, ShardIndex

\* A step that keeps the engines and the ring is none of the dictionary's.
LEMMA Stutters ==
  ASSUME IInv, UNCHANGED <<opts, kv, unsure, acked>>
  PROVE  UNCHANGED Dictionary!storeVars
BY DEF Dictionary!storeVars, Routed, ShardIndex

LEMMA OpenStutters ==
  ASSUME IInv, NEW count, NEW vnodes, Open(count, vnodes)
  PROVE  UNCHANGED Dictionary!storeVars
<1>1. PICK m \in Manifests : Accepts(count, vnodes, m) /\ manifest' = m /\ opts' = m
  BY DEF Open
<1>2. UNCHANGED <<kv, unsure, acked>> BY DEF Open, engines
<1>3. CASE opts # NoFile
  <2>1. opts' = opts BY <1>1, <1>3, Accepted DEF IInv, ManifestInv
  <2> QED BY <1>2, <2>1, Stutters
<1>4. CASE opts = NoFile
  <2>2. opts' # NoFile BY <1>1, NoFileIsNone
  <2>3. \A k \in Keys : HomeUnder[m][k] \in Shards BY HomeInRange
  <2>4. \A k \in Keys : kv[HomeUnder[m][k]][k] = Nil /\ unsure[HomeUnder[m][k]][k] = {}
    BY <1>4, <2>3 DEF IInv, ManifestInv
  <2>5. Routed(kv, Nil)' = Routed(kv, Nil) BY <1>1, <1>2, <1>4, <2>2, <2>4 DEF Routed
  <2>6. Routed(unsure, {})' = Routed(unsure, {}) BY <1>1, <1>2, <1>4, <2>2, <2>4 DEF Routed
  <2> QED BY <1>2, <2>5, <2>6 DEF Dictionary!storeVars
<1> QED BY <1>3, <1>4

LEMMA WriteAcknowledges ==
  ASSUME IInv, NEW k \in Keys, NEW v \in Values \cup {Nil}, Write(k, v)
  PROVE  Dictionary!Acknowledge(k, v)
<1> DEFINE i == ShardIndex(k)
<1>1. /\ open /\ kv' = [kv EXCEPT ![i][k] = v] /\ unsure' = [unsure EXCEPT ![i][k] = {}]
      /\ acked' = [acked EXCEPT ![k] = v] /\ UNCHANGED <<manifest, opts>>
  BY DEF Write
<1>2. opts # NoFile BY <1>1 DEF IInv, ManifestInv
<1>3. \A l \in Keys : ShardIndex(l) \in Shards /\ ShardIndex(l)' = ShardIndex(l)
  BY <1>1, <1>2, RoutedTo DEF ShardIndex
<1>4. \A l \in Keys : kv'[ShardIndex(l)][l] = IF l = k THEN v ELSE kv[ShardIndex(l)][l]
  BY <1>1, <1>3 DEF IInv, TypeOK, Dictionaries
<1>5. \A l \in Keys : unsure'[ShardIndex(l)][l] = IF l = k THEN {} ELSE unsure[ShardIndex(l)][l]
  BY <1>1, <1>3 DEF IInv, TypeOK
<1>6. Routed(kv, Nil)' = [Routed(kv, Nil) EXCEPT ![k] = v] BY <1>1, <1>2, <1>3, <1>4 DEF Routed, ShardIndex
<1>7. Routed(unsure, {})' = [Routed(unsure, {}) EXCEPT ![k] = {}]
  BY <1>1, <1>2, <1>3, <1>5 DEF Routed, ShardIndex
<1> QED BY <1>1, <1>6, <1>7 DEF Dictionary!Acknowledge

\* A failed write is one more unsure value of its key.
LEMMA FailedWriteRouted ==
  ASSUME IInv, opts # NoFile, NEW k \in Keys, NEW v \in Values \cup {Nil},
         unsure' = [unsure EXCEPT ![ShardIndex(k)][k] = @ \cup {v}], opts' = opts
  PROVE  Routed(unsure, {})' = [Routed(unsure, {}) EXCEPT ![k] = @ \cup {v}]
<1>1. \A l \in Keys : ShardIndex(l) \in Shards /\ ShardIndex(l)' = ShardIndex(l)
  BY RoutedTo DEF ShardIndex
<1>2. \A l \in Keys : unsure'[ShardIndex(l)][l] =
        IF l = k THEN unsure[ShardIndex(l)][l] \cup {v} ELSE unsure[ShardIndex(l)][l]
  BY <1>1 DEF IInv, TypeOK
<1> QED BY <1>1, <1>2 DEF Routed, ShardIndex

LEMMA WriteFailsRefuses ==
  ASSUME IInv, NEW k \in Keys, NEW v \in Values \cup {Nil}, WriteFails(k, v)
  PROVE  Dictionary!Refuse(k, v)
<1>1. /\ open /\ unsure' = [unsure EXCEPT ![ShardIndex(k)][k] = @ \cup {v}]
      /\ UNCHANGED <<opts, kv, acked>>
  BY DEF WriteFails
<1>2. opts # NoFile BY <1>1 DEF IInv, ManifestInv
<1>3. Routed(unsure, {})' = [Routed(unsure, {}) EXCEPT ![k] = @ \cup {v}]
  BY <1>1, <1>2, FailedWriteRouted
<1>4. Routed(kv, Nil)' = Routed(kv, Nil) BY <1>1 DEF Routed, ShardIndex
<1> QED BY <1>1, <1>3, <1>4 DEF Dictionary!Refuse

\* Engines that settle are a dictionary that settles.
LEMMA SettleRouted ==
  ASSUME IInv, opts # NoFile, opts' = opts, NEW maybe, Settle(maybe)
  PROVE  Dictionary!Settle([k \in Keys |-> maybe[ShardIndex(k)][k]])
<1>1. /\ kv' \in Dictionaries
      /\ \A i \in Shards, k \in Keys : kv'[i][k] \in {kv[i][k]} \cup maybe[i][k]
  BY Settled
<1>2. \A l \in Keys : ShardIndex(l) \in Shards /\ ShardIndex(l)' = ShardIndex(l)
  BY RoutedTo DEF ShardIndex
<1>3. Routed(kv, Nil)' = [k \in Keys |-> kv'[ShardIndex(k)][k]] BY <1>2 DEF Routed, ShardIndex
<1>4. Routed(kv, Nil)' \in [Keys -> Values \cup {Nil}] BY <1>1, <1>2, <1>3 DEF Dictionaries
<1>5. \A k \in Keys : Routed(kv, Nil)'[k] \in {Routed(kv, Nil)[k]} \cup maybe[ShardIndex(k)][k]
  BY <1>1, <1>2, <1>3, RoutedTo
<1> QED BY <1>4, <1>5 DEF Dictionary!Settle

LEMMA StopsAsDictionary ==
  ASSUME IInv, Close \/ Crash
  PROVE  Dictionary!Stop
<1>1. /\ open /\ Settle(unsure) /\ UNCHANGED <<manifest, opts, unsure, acked>>
  BY DEF Close, Crash
<1>2. opts # NoFile BY <1>1 DEF IInv, ManifestInv
<1>3. Dictionary!Settle([k \in Keys |-> unsure[ShardIndex(k)][k]]) BY <1>1, <1>2, SettleRouted
<1>4. Dictionary!Settle(Routed(unsure, {})) BY <1>2, <1>3, RoutedTo
<1>5. Routed(unsure, {})' = Routed(unsure, {}) BY <1>1 DEF Routed, ShardIndex
<1> QED BY <1>1, <1>4, <1>5 DEF Dictionary!Stop

LEMMA CrashInWriteStops ==
  ASSUME IInv, NEW k \in Keys, NEW v \in Values \cup {Nil}, CrashInWrite(k, v)
  PROVE  Dictionary!StopInWrite(k, v)
<1>1. /\ open /\ unsure' = [unsure EXCEPT ![ShardIndex(k)][k] = @ \cup {v}]
      /\ Settle(unsure') /\ UNCHANGED <<opts, acked>>
  BY DEF CrashInWrite
<1>2. opts # NoFile BY <1>1 DEF IInv, ManifestInv
<1>3. Routed(unsure, {})' = [Routed(unsure, {}) EXCEPT ![k] = @ \cup {v}]
  BY <1>1, <1>2, FailedWriteRouted
<1>4. PICK maybe : maybe = unsure' OBVIOUS
<1>5. Settle(maybe) BY <1>1, <1>4 DEF Settle
<1>6. Dictionary!Settle([l \in Keys |-> maybe[ShardIndex(l)][l]]) BY <1>1, <1>2, <1>5, SettleRouted
<1>7. Routed(unsure, {})' = [l \in Keys |-> maybe[ShardIndex(l)][l]]
  BY <1>1, <1>2, <1>4 DEF Routed, ShardIndex
<1>8. Dictionary!Settle(Routed(unsure, {})') BY <1>6, <1>7
<1> QED BY <1>1, <1>3, <1>8 DEF Dictionary!StopInWrite

LEMMA NextImplements == IInv /\ [Next]_vars => [Dictionary!KVNext]_Dictionary!storeVars
<1> SUFFICES ASSUME IInv, [Next]_vars PROVE [Dictionary!KVNext]_Dictionary!storeVars OBVIOUS
<1>1. CASE UNCHANGED vars BY <1>1, Stutters DEF vars, engines
<1>2. ASSUME NEW count \in 0..MaxShards, NEW vnodes \in VirtualNodes \cup {0},
             Open(count, vnodes) \/ OpenFails(count, vnodes)
      PROVE  UNCHANGED Dictionary!storeVars
  BY <1>2, OpenStutters, Stutters DEF OpenFails, engines
<1>3. CASE Close \/ Crash BY <1>3, StopsAsDictionary DEF Dictionary!KVNext
<1>4. ASSUME NEW k \in Keys, NEW v \in Values \cup {Nil},
             Write(k, v) \/ WriteFails(k, v) \/ CrashInWrite(k, v)
      PROVE  Dictionary!KVNext
  BY <1>4, WriteAcknowledges, WriteFailsRefuses, CrashInWriteStops DEF Dictionary!KVNext
<1>5. ASSUME NEW i \in Shards, FlushFails(i) PROVE UNCHANGED Dictionary!storeVars
  BY <1>5, Stutters DEF FlushFails, engines
<1>6. ASSUME NEW c \in Scanners, ScanBegins(c) \/ ScanShard(c) \/ ScanReturns(c)
      PROVE  UNCHANGED Dictionary!storeVars
  BY <1>6, Stutters DEF ScanBegins, ScanShard, ScanReturns, engines
<1> QED BY <1>1, <1>2, <1>3, <1>4, <1>5, <1>6 DEF Next

\* The shards behind the ring are one durable dictionary (KVStore): Put, Delete,
\* their failures, Close and crashes are its steps, an Open with any accepted
\* options, a failed Flush and the scans are none.
THEOREM ImplementsDictionary == Spec => Implements
<1>1. Init => Dictionary!KVInit
  BY DEF Init, Dictionary!KVInit, Routed, Empty
<1> QED BY <1>1, NextImplements, InductiveInvariant, PTL DEF Spec, Implements, Dictionary!KVSpec
=============================================================================
