----------------------------- MODULE ShardStore -----------------------------
(***************************************************************************)
(* The sharded store (internal/shard): one engine per shard, a key's shard *)
(* found on a ring built from the shard count and the virtual nodes, both  *)
(* taken from SHARDING.json once that file exists.                         *)
(*                                                                         *)
(* Each engine is a dictionary as KVStore states it, with the outcomes of  *)
(* its failed writes; "unsure" is kept shard by shard, for Open settles a  *)
(* write in the engine that has it and not where the ring now points.      *)
(* Flush, Compact and Stats change nothing a read can tell, unless they    *)
(* fail.  A key is in one shard (OneHome), so that the merge of a scan by  *)
(* sequence number has nothing to choose from, and Seq is left out.        *)
(***************************************************************************)
EXTENDS HashRing

CONSTANTS
  Keys, Values, Nil,   \* as in KVStore
  MaxShards,           \* bound: shard counts are 1..MaxShards
  VirtualNodes,        \* virtual nodes per shard that callers ask for
  DefaultVirtualNodes, \* defaultVirtualNodes
  Label,               \* Label[i][v] is the hash of "shard-i#vnode-v"
  Hash,                \* the hash of each key
  Scanners,            \* callers of Scan
  MaxOpens,            \* bound: calls of Open
  MaxWrites,           \* bound: Puts and Deletes
  MaxFaults            \* bound: writes, opens and flushes that fail, crashes

Shards == 0..MaxShards - 1

ASSUME ShardAssumption ==
  /\ {MaxShards, MaxOpens, MaxWrites, MaxFaults} \subseteq Nat /\ MaxShards > 0
  /\ VirtualNodes \cup {DefaultVirtualNodes} \subseteq Nat \ {0}
  /\ \A n \in VirtualNodes \cup {DefaultVirtualNodes}, i \in Shards : PointsOf(Label[i], n) \subseteq Nat
  /\ \A k \in Keys : Hash[k] \in Nat
  /\ Nil \notin Values

VARIABLES
  manifest, \* SHARDING.json, NoFile before the first Open
  opts,     \* s.opts, and s.ring with it; those of the last Open when closed
  open,     \* ~s.closed; FALSE when no process runs
  kv,       \* engines: what each answers for each key
  unsure,   \* engines: the values of the failed writes since
  gone,     \* the shards whose engine closed itself in a failed Flush
  acked,    \* history: the last acknowledged value of each key
  scan,     \* what each caller of Scan is at
  during,   \* history: the states kv had since each scan took the lock
  used      \* how much of each bound is used up

engines == <<kv, unsure>>
vars == <<manifest, opts, open, engines, gone, acked, scan, during, used>>

NoFile == [count |-> 0, vnodes |-> 0]
Idle == [at |-> "idle"]
Empty == [k \in Keys |-> Nil]

Spend(bound, max) == used[bound] < max /\ used' = [used EXCEPT ![bound] = @ + 1]

Manifests == [count : 1..MaxShards, vnodes : VirtualNodes \cup {DefaultVirtualNodes}]

\* newRing, and shardIndex on it: the shard of each key under every manifest.
HomeUnder == [m \in Manifests |->
  LET ring == NumberedRing([i \in 0..m.count - 1 |-> PointsOf(Label[i], m.vnodes)])
  IN  [k \in Keys |-> Owner(ring, Hash[k])]]
ShardIndex(k) == HomeUnder[opts][k]

Init ==
  /\ manifest = NoFile /\ opts = NoFile /\ open = FALSE
  /\ kv = [i \in Shards |-> Empty]
  /\ unsure = [i \in Shards |-> [k \in Keys |-> {}]]
  /\ gone = {} /\ acked = Empty
  /\ scan = [c \in Scanners |-> Idle] /\ during = [c \in Scanners |-> {}]
  /\ used = [opens |-> 0, writes |-> 0, faults |-> 0]

----------------------------------------------------------------------------
(* Open and Close                                                          *)

Written(count, vnodes) ==
  [count |-> count, vnodes |-> IF vnodes = 0 THEN DefaultVirtualNodes ELSE vnodes]

\* Faulty variant: a shard count given is not compared.
AcceptsAnyCount(count, vnodes, m) ==
  IF manifest = NoFile
  THEN count > 0 /\ m = Written(count, vnodes)
  ELSE /\ m.count = IF count = 0 THEN manifest.count ELSE count
       /\ m.vnodes = manifest.vnodes /\ vnodes \in {0, m.vnodes}

\* Faulty variant: virtual nodes not given are the default, not the file's.
AcceptsDefault(count, vnodes, m) ==
  IF manifest = NoFile
  THEN count > 0 /\ m = Written(count, vnodes)
  ELSE m = Written(manifest.count, vnodes) /\ count \in {0, m.count}

\* Open(count, vnodes) works with the manifest m; 0 stands for an option not
\* given.  The first Open writes the file, the others compare with it.
Accepts(count, vnodes, m) ==
  IF manifest = NoFile
  THEN count > 0 /\ m = Written(count, vnodes)
  ELSE m = manifest /\ count \in {0, m.count} /\ vnodes \in {0, m.vnodes}

\* Open: the manifest, the ring, then the engines in order.
Open(count, vnodes) ==
  /\ ~open /\ Spend("opens", MaxOpens)
  /\ \E m \in Manifests : Accepts(count, vnodes, m) /\ manifest' = m /\ opts' = m
  /\ open' = TRUE
  /\ UNCHANGED <<engines, gone, acked, scan, during>>

\* An engine does not open, or the process dies on the way: those opened
\* before it are closed and the manifest stays.
OpenFails(count, vnodes) ==
  /\ ~open /\ Spend("faults", MaxFaults)
  /\ \E m \in Manifests : Accepts(count, vnodes, m) /\ manifest' = m
  /\ UNCHANGED <<opts, open, engines, gone, acked, scan, during>>

\* The engines are closed or die; reopened, each has any of its failed writes.
Settle(maybe) ==
  kv' \in {s \in [Shards -> [Keys -> Values \cup {Nil}]] :
             \A i \in Shards, k \in Keys : s[i][k] \in {kv[i][k]} \cup maybe[i][k]}

\* Close waits for the lock, which a running scan holds.
Close ==
  /\ open /\ \A c \in Scanners : scan[c].at # "running"
  /\ Settle(unsure)
  /\ open' = FALSE /\ gone' = {}
  /\ UNCHANGED <<manifest, opts, unsure, acked, scan, during, used>>

LoseMemory ==
  /\ open' = FALSE /\ gone' = {}
  /\ scan' = [c \in Scanners |-> Idle] /\ during' = [c \in Scanners |-> {}]

Crash ==
  /\ open /\ Spend("faults", MaxFaults)
  /\ Settle(unsure) /\ LoseMemory
  /\ UNCHANGED <<manifest, opts, unsure, acked>>

----------------------------------------------------------------------------
(* Put and Delete (v = Nil), which share the lock with one another and with *)
(* Scan                                                                    *)

Watch == during' = [c \in Scanners |-> IF scan[c].at = "running" THEN during[c] \cup {kv'}
                                       ELSE during[c]]

Write(k, v) ==
  LET i == ShardIndex(k)
  IN  /\ open /\ i \notin gone /\ Spend("writes", MaxWrites)
      /\ kv' = [kv EXCEPT ![i][k] = v] /\ Watch
      /\ unsure' = [unsure EXCEPT ![i][k] = {}]
      /\ acked' = [acked EXCEPT ![k] = v]
      /\ UNCHANGED <<manifest, opts, open, gone, scan>>

\* Put(k, v), or Delete(k) for v = Nil, reports the engine's error.
WriteFails(k, v) ==
  LET i == ShardIndex(k)
  IN  /\ open /\ i \notin gone /\ Spend("faults", MaxFaults)
      /\ unsure' = [unsure EXCEPT ![i][k] = @ \cup {v}]
      /\ UNCHANGED <<manifest, opts, open, kv, gone, acked, scan, during>>

\* The process dies inside the engine's write.
CrashInWrite(k, v) ==
  LET i == ShardIndex(k)
  IN  /\ open /\ i \notin gone /\ Spend("faults", MaxFaults)
      /\ unsure' = [unsure EXCEPT ![i][k] = @ \cup {v}]
      /\ Settle(unsure') /\ LoseMemory
      /\ UNCHANGED <<manifest, opts, acked>>

\* Flush stops at the first shard that fails; an engine that cannot open its
\* new log closes itself, and answers everything with ErrClosed from then on.
FlushFails(i) ==
  /\ open /\ i \in 0..opts.count - 1 /\ gone \cap 0..i = {} /\ Spend("faults", MaxFaults)
  /\ gone' = gone \cup {i}
  /\ UNCHANGED <<manifest, opts, open, engines, acked, scan, during>>

----------------------------------------------------------------------------
(* Scan: engine after engine under the shared lock, then the merge         *)

ScanBegins(c) ==
  /\ open /\ scan[c].at # "running"
  /\ scan' = [scan EXCEPT ![c] = [at |-> "running", next |-> 0, found |-> Empty]]
  /\ during' = [during EXCEPT ![c] = {kv}]
  /\ UNCHANGED <<manifest, opts, open, engines, gone, acked, used>>

\* What the scan has found so far, and the entries of the next shard.
Merged(found, entries) == [k \in Keys |-> IF entries[k] # Nil THEN entries[k] ELSE found[k]]

\* Faulty variant: a shard that fails is passed over.
ScanShardLenient(c) ==
  /\ scan[c].at = "running" /\ scan[c].next < opts.count
  /\ LET i == scan[c].next
     IN  scan' = [scan EXCEPT ![c].next = i + 1,
                              ![c].found = IF i \in gone THEN @ ELSE Merged(@, kv[i])]
  /\ UNCHANGED <<manifest, opts, open, engines, gone, acked, during, used>>

ScanShard(c) ==
  /\ scan[c].at = "running" /\ scan[c].next < opts.count
  /\ LET i == scan[c].next
     IN  scan' = [scan EXCEPT ![c] =
           IF i \in gone THEN [at |-> "failed"]
           ELSE [at |-> "running", next |-> i + 1, found |-> Merged(@.found, kv[i])]]
  /\ UNCHANGED <<manifest, opts, open, engines, gone, acked, during, used>>

ScanReturns(c) ==
  /\ scan[c].at = "running" /\ scan[c].next = opts.count
  /\ scan' = [scan EXCEPT ![c].at = "answered"]
  /\ UNCHANGED <<manifest, opts, open, engines, gone, acked, during, used>>

Next ==
  \/ \E count \in 0..MaxShards, vnodes \in VirtualNodes \cup {0} :
       Open(count, vnodes) \/ OpenFails(count, vnodes)
  \/ Close \/ Crash
  \/ \E k \in Keys, v \in Values \cup {Nil} : Write(k, v) \/ WriteFails(k, v) \/ CrashInWrite(k, v)
  \/ \E i \in Shards : FlushFails(i)
  \/ \E c \in Scanners : ScanBegins(c) \/ ScanShard(c) \/ ScanReturns(c)

Spec == Init /\ [][Next]_vars

----------------------------------------------------------------------------
(* Properties                                                              *)

Dictionaries == [Shards -> [Keys -> Values \cup {Nil}]]

ScanState ==
  {Idle, [at |-> "failed"]} \cup
  [at : {"running", "answered"}, next : Nat, found : [Keys -> Values \cup {Nil}]]

TypeOK ==
  /\ {manifest, opts} \subseteq Manifests \cup {NoFile}
  /\ open \in BOOLEAN /\ gone \subseteq Shards
  /\ kv \in Dictionaries
  /\ unsure \in [Shards -> [Keys -> SUBSET (Values \cup {Nil})]]
  /\ acked \in [Keys -> Values \cup {Nil}]
  /\ scan \in [Scanners -> ScanState] /\ during \in [Scanners -> SUBSET Dictionaries]

\* Every entry, and every write that may still surface, is in the shard where
\* the manifest's ring looks for its key: whatever was opened, refused or cut
\* short since, no entry is left behind where reads do not come.
OneHome ==
  \A i \in Shards, k \in Keys :
    kv[i][k] # Nil \/ unsure[i][k] # {} => i = HomeUnder[manifest][k]

\* Through any reopening with any options that Open accepts, the shards are
\* together one durable dictionary.
Routed(f, none) == [k \in Keys |-> IF opts = NoFile THEN none ELSE f[HomeUnder[opts][k]][k]]
Dictionary == INSTANCE KVStore WITH store <- Routed(kv, Nil), unsure <- Routed(unsure, {})
Implements == Dictionary!KVSpec

\* A scan that succeeds answers, for every shard, the whole of what that shard
\* held at one moment of the scan, though not all shards at the same moment; a
\* shard whose engine is closed is never passed over in silence.
ScanIsCurrent ==
  \A c \in Scanners : scan[c].at = "answered" =>
    \A i \in Shards : \E past \in during[c] : \A k \in Keys :
      ShardIndex(k) = i => scan[c].found[k] = past[i][k]

----------------------------------------------------------------------------
(* The inductive invariant behind these properties                         *)

\* The ring in use is that of the file; without one nothing was ever stored.
ManifestInv ==
  /\ opts \in {NoFile, manifest}
  /\ opts = NoFile => /\ ~open /\ \A c \in Scanners : scan[c].at = "idle"
                      /\ \A i \in Shards, k \in Keys : kv[i][k] = Nil /\ unsure[i][k] = {}

\* What a running scan has found: of the shards behind it, all that each held at
\* one moment; of the others nothing.
ScanInv ==
  \A c \in Scanners : scan[c].at = "running" =>
    /\ open /\ kv \in during[c] /\ scan[c].next <= opts.count
    /\ \A i \in Shards : i < scan[c].next => \E past \in during[c] : \A k \in Keys :
         ShardIndex(k) = i => scan[c].found[k] = past[i][k]
    /\ \A k \in Keys : ShardIndex(k) >= scan[c].next => scan[c].found[k] = Nil

IInv == TypeOK /\ ManifestInv /\ OneHome /\ ScanInv /\ ScanIsCurrent
=============================================================================
