----------------------- MODULE ReplicaStoreProofs ---------------------------
(***************************************************************************)
(* Proofs about the in-process replica store (module ReplicaStore): for    *)
(* any number of replicas, keys, operations, restarts and failing steps.   *)
(*                                                                         *)
(* The inductive invariant IInv speaks of both answers of an engine, those *)
(* it gives and those it would give once reopened.  For the leader         *)
(* (LeaderInv) both are at or after the last acknowledged write.  For a    *)
(* follower (BetweenInv) each key of both is as some prefix of the log has *)
(* it, from the follower's index on: a restart goes back to the index that *)
(* APPLIED tells, and the operations then applied again leave every key at *)
(* or after the prefix that they end (AppliedAgain).                       *)
(***************************************************************************)
EXTENDS ReplicaStore, WellFoundedInduction, TLAPS

----------------------------------------------------------------------------
(* Extrema of sets of numbers; applying operations of a log                *)

\* A set of naturals has a least element.
LEMMA LeastNat ==
  ASSUME NEW T, T \subseteq Nat, T # {}
  PROVE  \E x \in T : \A y \in T : x <= y
<1>1. PICK x \in T : \A y \in T : <<y, x>> \notin OpToRel(<, Nat)
  BY NatLessThanWellFounded, WFMin
<1>2. \A y \in T : ~(y < x) BY <1>1 DEF OpToRel
<1> QED BY <1>2

\* Min finds it.
LEMMA MinFound ==
  ASSUME NEW S, S \subseteq Nat, S # {}
  PROVE  Min(S) \in S /\ \A y \in S : Min(S) <= y
BY LeastNat DEF Min

\* Max finds the greatest element of a bounded set of naturals.
LEMMA MaxFound ==
  ASSUME NEW b \in Nat, NEW S, S \subseteq 0..b, S # {}
  PROVE  Max(S) \in S /\ \A y \in S : y <= Max(S)
<1>1. {b - x : x \in S} \subseteq Nat /\ {b - x : x \in S} # {}
  <2>1. \A x \in S : b - x \in Nat OBVIOUS
  <2> QED BY <2>1
<1>2. PICK m \in {b - x : x \in S} : \A y \in {b - x : x \in S} : m <= y BY <1>1, LeastNat
<1>3. PICK x \in S : m = b - x BY <1>2
<1>4. \A y \in S : x >= y
  <2> TAKE y \in S
  <2>1. b - x <= b - y BY <1>2, <1>3
  <2>2. x \in Int /\ y \in Int BY <1>3
  <2> QED BY <2>1, <2>2
<1>5. Max(S) \in S /\ \A y \in S : Max(S) >= y BY <1>3, <1>4 DEF Max
<1>6. S \subseteq Int OBVIOUS
<1> QED BY <1>5, <1>6

\* The fields of an operation.
LEMMA OperationFields ==
  ASSUME NEW op \in Operation
  PROVE  op.key \in Keys /\ op.value \in Values \cup {Nil}
BY DEF Operation

\* The last operation on a key, among first..last.
LEMMA LastOn ==
  ASSUME NEW ops \in Seq(Operation), NEW first \in 1..(Len(ops) + 1), NEW last \in 0..Len(ops),
         NEW k, On(ops, k, first, last) # {}
  PROVE  /\ Max(On(ops, k, first, last)) \in first..last
         /\ Max(On(ops, k, first, last)) \in 1..Len(ops)
         /\ ops[Max(On(ops, k, first, last))].key = k
         /\ \A i \in first..last : i > Max(On(ops, k, first, last)) => ops[i].key # k
<1> DEFINE on == On(ops, k, first, last)
<1>1. on \subseteq 0..Len(ops) /\ Len(ops) \in Nat BY DEF On
<1>2. Max(on) \in on /\ \A y \in on : y <= Max(on) BY <1>1, MaxFound
<1>3. Max(on) \in first..last /\ ops[Max(on)].key = k BY <1>2 DEF On
<1>4. \A i \in first..last : i > Max(on) => ops[i].key # k
  <2> SUFFICES ASSUME NEW i \in first..last, i > Max(on), ops[i].key = k PROVE FALSE OBVIOUS
  <2>1. i \in on BY DEF On
  <2> HIDE DEF on
  <2>2. i <= Max(on) BY <2>1, <1>2
  <2> QED BY <2>2, <1>3
<1> HIDE DEF on
<1>5. Max(on) \in 1..Len(ops) BY <1>3
<1> QED BY <1>3, <1>4, <1>5 DEF on

\* What Apply answers for a key that no operation is on, and for one that some are on.
LEMMA ApplyNone ==
  ASSUME NEW ops, NEW data, NEW first, NEW last, NEW k \in Keys,
         \A i \in first..last : ops[i].key # k
  PROVE  Apply(ops, data, first, last)[k] = data[k]
<1>1. On(ops, k, first, last) = {} BY DEF On
<1> QED BY <1>1 DEF Apply

\* ... and for one that some are on.
LEMMA ApplyMax ==
  ASSUME NEW ops, NEW data, NEW first, NEW last, NEW k \in Keys, On(ops, k, first, last) # {}
  PROVE  Apply(ops, data, first, last)[k] = ops[Max(On(ops, k, first, last))].value
BY DEF Apply

\* The same, for whatever operation is the last on the key.
LEMMA ApplySome ==
  ASSUME NEW ops \in Seq(Operation), NEW data,
         NEW first \in 1..(Len(ops) + 1), NEW last \in 0..Len(ops), NEW k \in Keys,
         NEW i \in first..last, ops[i].key = k, \A j \in first..last : j > i => ops[j].key # k
  PROVE  Apply(ops, data, first, last)[k] = ops[i].value
<1> DEFINE on == On(ops, k, first, last)
<1>1. on # {} BY DEF On
<1>2. Max(on) \in first..last /\ ops[Max(on)].key = k
      /\ \A j \in first..last : j > Max(on) => ops[j].key # k
  BY <1>1, LastOn
<1>3. Apply(ops, data, first, last)[k] = ops[Max(on)].value BY <1>1, ApplyMax
<1> HIDE DEF on
<1>4. Max(on) = i
  <2>1. ~(i > Max(on)) BY <1>2
  <2>2. ~(Max(on) > i) BY <1>2
  <2>3. i \in Int /\ Max(on) \in Int BY <1>2
  <2> QED BY <2>1, <2>2, <2>3
<1> QED BY <1>3, <1>4

\* Applying operations makes a dictionary.
LEMMA ApplyType ==
  ASSUME NEW ops \in Seq(Operation), NEW data \in Data,
         NEW first \in 1..(Len(ops) + 1), NEW last \in 0..Len(ops)
  PROVE  Apply(ops, data, first, last) \in Data
<1>1. ASSUME NEW k \in Keys
      PROVE  (IF On(ops, k, first, last) = {} THEN data[k]
              ELSE ops[Max(On(ops, k, first, last))].value) \in Values \cup {Nil}
  <2> DEFINE on == On(ops, k, first, last)
  <2>1. CASE on = {} BY <2>1 DEF Data
  <2>2. CASE on # {}
    <3>1. Max(on) \in 1..Len(ops) BY <2>2, LastOn
    <3> HIDE DEF on
    <3>2. ops[Max(on)] \in Operation BY <3>1
    <3>3. ops[Max(on)].value \in Values \cup {Nil} BY <3>2, OperationFields
    <3> QED BY <2>2, <3>3 DEF on
  <2> QED BY <2>1, <2>2
<1> QED BY <1>1 DEF Apply, Data

\* Operations behind the last of them change nothing of a prefix.
LEMMA AppendSame ==
  ASSUME NEW ops \in Seq(Operation), NEW op \in Operation, NEW n \in 0..Len(ops), NEW data
  PROVE  Apply(Append(ops, op), data, 1, n) = Apply(ops, data, 1, n)
<1>1. \A i \in 1..n : Append(ops, op)[i] = ops[i] OBVIOUS
<1>2. \A k : On(Append(ops, op), k, 1, n) = On(ops, k, 1, n) BY <1>1 DEF On
<1>3. ASSUME NEW k \in Keys, On(ops, k, 1, n) # {}
      PROVE  Append(ops, op)[Max(On(ops, k, 1, n))] = ops[Max(On(ops, k, 1, n))]
  <2>1. 1 \in 1..(Len(ops) + 1) OBVIOUS
  <2>2. Max(On(ops, k, 1, n)) \in 1..n BY <1>3, <2>1, LastOn
  <2> QED BY <1>1, <2>2
<1> DEFINE new(k) == IF On(Append(ops, op), k, 1, n) = {} THEN data[k]
                     ELSE Append(ops, op)[Max(On(Append(ops, op), k, 1, n))].value
           old(k) == IF On(ops, k, 1, n) = {} THEN data[k] ELSE ops[Max(On(ops, k, 1, n))].value
<1>4. ASSUME NEW k \in Keys PROVE new(k) = old(k)
  <2>1. On(Append(ops, op), k, 1, n) = On(ops, k, 1, n) BY <1>2
  <2>2. CASE On(ops, k, 1, n) = {} BY <2>1, <2>2
  <2>3. CASE On(ops, k, 1, n) # {}
    <3>1. Append(ops, op)[Max(On(ops, k, 1, n))] = ops[Max(On(ops, k, 1, n))] BY <1>3, <2>3
    <3>2. new(k) = Append(ops, op)[Max(On(ops, k, 1, n))].value BY <2>1, <2>3
    <3>3. old(k) = ops[Max(On(ops, k, 1, n))].value BY <2>3
    <3> QED BY <3>1, <3>2, <3>3
  <2> QED BY <2>2, <2>3
<1>5. /\ Apply(Append(ops, op), data, 1, n) = [k \in Keys |-> new(k)]
      /\ Apply(ops, data, 1, n) = [k \in Keys |-> old(k)]
  BY DEF Apply
<1> HIDE DEF new, old
<1> QED BY <1>4, <1>5

\* A key that operations m+1..n are not on is as after m.
LEMMA SamePrefix ==
  ASSUME NEW ops \in Seq(Operation), NEW m \in 0..Len(ops), NEW n \in m..Len(ops), NEW data,
         NEW k \in Keys, \A i \in (m + 1)..n : ops[i].key # k
  PROVE  Apply(ops, data, 1, m)[k] = Apply(ops, data, 1, n)[k]
<1>1. On(ops, k, 1, m) = On(ops, k, 1, n)
  <2>1. \A i \in 1..n : i \in 1..m \/ i \in (m + 1)..n OBVIOUS
  <2>2. 1..m \subseteq 1..n OBVIOUS
  <2> QED BY <2>1, <2>2 DEF On
<1> QED BY <1>1 DEF Apply

\* An engine that has, for a key, what some prefix from a on makes has, when it is
\* given operations a+1..b, what some prefix from b on makes: they may be operations
\* it was given before.
LEMMA AppliedAgain ==
  ASSUME NEW ops \in Seq(Operation), NEW a \in 0..Len(ops), NEW b \in a..Len(ops),
         NEW n \in a..Len(ops), NEW data, NEW k \in Keys,
         data[k] = Apply(ops, Empty, 1, n)[k]
  PROVE  \E m \in {n, b} : /\ m >= b
                           /\ Apply(ops, data, a + 1, b)[k] = Apply(ops, Empty, 1, m)[k]
<1>0. Len(ops) \in Nat /\ a + 1 \in 1..(Len(ops) + 1) /\ b \in 0..Len(ops) OBVIOUS
<1>1. CASE On(ops, k, a + 1, b) # {}
  <2> DEFINE last == Max(On(ops, k, a + 1, b))
  <2>2. /\ last \in (a + 1)..b /\ ops[last].key = k
        /\ \A j \in (a + 1)..b : j > last => ops[j].key # k
    BY <1>0, <1>1, LastOn
  <2>3. Apply(ops, data, a + 1, b)[k] = ops[last].value BY <1>1, ApplyMax
  <2> HIDE DEF last
  <2>4. last \in 1..b /\ \A j \in 1..b : j > last => j \in (a + 1)..b BY <2>2
  <2>5. Apply(ops, Empty, 1, b)[k] = ops[last].value
    <3>1. \A j \in 1..b : j > last => ops[j].key # k BY <2>2, <2>4
    <3>2. 1 \in 1..(Len(ops) + 1) BY <1>0
    <3> QED BY <1>0, <2>2, <2>4, <3>1, <3>2, ApplySome
  <2> QED BY <2>3, <2>5
<1>2. CASE On(ops, k, a + 1, b) = {}
  <2>0. \A i \in (a + 1)..b : ops[i].key # k BY <1>2 DEF On
  <2>1. Apply(ops, data, a + 1, b)[k] = data[k] BY <2>0, ApplyNone
  <2>2. CASE n >= b BY <2>1, <2>2
  <2>3. CASE n < b
    <3>1. \A i \in (n + 1)..b : ops[i].key # k BY <2>0
    <3>2. n \in 0..Len(ops) /\ b \in n..Len(ops) BY <2>3
    <3>3. Apply(ops, Empty, 1, n)[k] = Apply(ops, Empty, 1, b)[k] BY <3>1, <3>2, SamePrefix
    <3> QED BY <2>1, <3>3
  <2> QED BY <2>2, <2>3
<1> QED BY <1>1, <1>2

----------------------------------------------------------------------------
(* Types; steps that write nothing                                         *)

\* The types, element by element.
LEMMA Types ==
  ASSUME TypeOK
  PROVE  /\ log \in Seq(Operation) /\ Len(log) \in Nat /\ leader \in {-1} \cup Replicas
         /\ commitFile \in Seqs /\ commitIndex \in Seqs
         /\ \A r \in Replicas : /\ appliedFile[r] \in Seqs /\ applied[r] \in Seqs /\ reached[r] \in Seqs
                                /\ kept[r] \in Data /\ live[r] \in Data
                                /\ lag[r] \in Lags \cup {0} /\ paused[r] \in BOOLEAN
         /\ status \in {"closed", "open", "replicating"} /\ used \in Usage
         /\ acked \subseteq 1..Len(log)
BY DEF TypeOK

\* Without the manifest there is no leader.
LEMMA NoReplicaMinusOne == -1 \notin Replicas
BY ReplicaAssumption DEF Replicas

\* What a bound has left.
LEMMA SpendType ==
  ASSUME used \in Usage, NEW bound \in {"opens", "faults"}, NEW max, Spend(bound, max)
  PROVE  used' \in Usage
BY DEF Spend, Usage

\* A fault is counted.
LEMMA FaultType ==
  ASSUME used \in Usage, Fault
  PROVE  used' \in Usage
BY SpendType DEF Fault

\* An engine that holds nothing.
LEMMA EmptyType == Empty \in Data
BY DEF Empty, Data

\* A write gives its key its value and leaves the others.
LEMMA SetFacts ==
  ASSUME NEW data \in Data, NEW op \in Operation
  PROVE  /\ Set(data, op) \in Data
         /\ Set(data, op)[op.key] = op.value
         /\ \A k \in Keys : k # op.key => Set(data, op)[k] = data[k]
BY OperationFields DEF Set, Data

\* The empty prefix.
LEMMA StateAtZero ==
  ASSUME NEW ops, NEW k \in Keys
  PROVE  Apply(ops, Empty, 1, 0)[k] = Empty[k]
<1>1. \A i \in 1..0 : ops[i].key # k OBVIOUS
<1> QED BY <1>1, ApplyNone

----------------------------------------------------------------------------

engineVars == <<log, commitFile, appliedFile, kept, live, status, commitIndex, applied, acked, reached>>

\* A step that moves nothing from one place to another.
LEMMA Frame ==
  ASSUME IInv, TypeOK', UNCHANGED engineVars, leader' = leader \/ leader = -1
  PROVE  IInv'
<1>0. UNCHANGED <<log, commitFile, appliedFile, kept, live, status, commitIndex, applied, acked, reached>>
  BY DEF engineVars
<1>1. CommitInv' BY <1>0 DEF IInv, CommitInv, Running
<1>2. OnlyCommittedApplied' BY <1>0 DEF IInv, OnlyCommittedApplied
<1>3. LeaderInv'
  <2>1. CASE leader' = leader BY <1>0, <2>1 DEF IInv, LeaderInv, Since, Running
  <2>2. CASE leader = -1 BY <1>0, <2>2 DEF IInv, CommitInv, LeaderInv
  <2> QED BY <2>1, <2>2
<1>4. BetweenInv'
  <2>1. Followers' \subseteq Followers BY NoReplicaMinusOne DEF Followers
  <2> QED BY <1>0, <2>1 DEF IInv, BetweenInv, Floor, Running, StateAt
<1> QED BY <1>1, <1>2, <1>3, <1>4 DEF IInv

\* Open stops behind the manifest.
LEMMA OpenStopsStep ==
  ASSUME IInv, NEW id \in {-1} \cup Replicas, OpenStops(id)
  PROVE  IInv'
<1>1. UNCHANGED <<log, commitFile, appliedFile, kept, memoryVars, historyVars>> /\ logBroken' \in BOOLEAN
      /\ leader = -1
  BY DEF OpenStops
<1>2. leader' \in {-1} \cup Replicas BY <1>1 DEF OpenStops, Manifest
<1>3. used' \in Usage BY FaultType DEF OpenStops, IInv, TypeOK
<1>4. TypeOK' BY <1>1, <1>2, <1>3 DEF IInv, TypeOK, memoryVars, historyVars, Seqs
<1> QED BY <1>1, <1>4, Frame DEF engineVars, memoryVars, historyVars

\* An append to the log that fails, and the simulation controls.
LEMMA ControlStep ==
  ASSUME IInv, \/ LogAppendFails
               \/ \E f \in Replicas, p \in BOOLEAN : SetFollowerPaused(f, p)
               \/ \E f \in Replicas, n \in Lags : SetFollowerLag(f, n)
               \/ UNCHANGED vars
  PROVE  IInv'
<1>0. TypeOK BY DEF IInv
<1>1. CASE LogAppendFails
  <2>1. /\ UNCHANGED <<leader, log, commitFile, appliedFile, kept, memoryVars, historyVars>>
        /\ logBroken' \in BOOLEAN
    BY <1>0, <1>1 DEF LogAppendFails, TypeOK
  <2>2. used' \in Usage BY <1>0, <1>1, FaultType DEF LogAppendFails, TypeOK
  <2>3. TypeOK' BY <1>0, <2>1, <2>2 DEF TypeOK, memoryVars, historyVars, Seqs
  <2> QED BY <2>1, <2>3, Frame DEF engineVars, memoryVars, historyVars
<1>2. ASSUME NEW f \in Replicas, NEW p \in BOOLEAN, SetFollowerPaused(f, p) PROVE IInv'
  <2>1. /\ UNCHANGED <<diskVars, live, status, commitIndex, applied, lag, historyVars, used>>
        /\ paused' = [paused EXCEPT ![f] = p]
    BY <1>2 DEF SetFollowerPaused
  <2>2. paused' \in [Replicas -> BOOLEAN] BY <1>0, <2>1 DEF TypeOK
  <2>3. TypeOK' BY <1>0, <2>1, <2>2 DEF TypeOK, diskVars, historyVars, Seqs
  <2> QED BY <2>1, <2>3, Frame DEF engineVars, diskVars, historyVars
<1>3. ASSUME NEW f \in Replicas, NEW n \in Lags, SetFollowerLag(f, n) PROVE IInv'
  <2>1. /\ UNCHANGED <<diskVars, live, status, commitIndex, applied, paused, historyVars, used>>
        /\ lag' = [lag EXCEPT ![f] = n]
    BY <1>3 DEF SetFollowerLag
  <2>2. lag' \in [Replicas -> Lags \cup {0}] BY <1>0, <2>1 DEF TypeOK
  <2>3. TypeOK' BY <1>0, <2>1, <2>2 DEF TypeOK, diskVars, historyVars, Seqs
  <2> QED BY <2>1, <2>3, Frame DEF engineVars, diskVars, historyVars
<1>4. CASE UNCHANGED vars
  <2>1. TypeOK' BY <1>0, <1>4 DEF TypeOK, vars, diskVars, memoryVars, historyVars, Seqs
  <2> QED BY <1>4, <2>1, Frame DEF engineVars, vars, diskVars, memoryVars, historyVars
<1> QED BY <1>1, <1>2, <1>3, <1>4

\* ReplicateAll begins and ends.
LEMMA BeginEndStep ==
  ASSUME IInv, ReplicateAll \/ ReplicateAllDone
  PROVE  IInv'
<1>1. /\ UNCHANGED <<diskVars, live, commitIndex, applied, paused, lag, historyVars, used>>
      /\ status \in {"open", "replicating"} /\ status' \in {"open", "replicating"}
  BY DEF ReplicateAll, ReplicateAllDone
<1>2. UNCHANGED <<leader, log, logBroken, commitFile, appliedFile, kept, live, commitIndex, applied,
                  paused, lag, acked, failed, reached, used>>
  BY <1>1 DEF diskVars, historyVars
<1>3. Running' = Running /\ Running BY <1>1 DEF Running
<1>4. TypeOK' BY <1>1, <1>2 DEF IInv, TypeOK, Seqs
<1>5. CommitInv' BY <1>2, <1>3 DEF IInv, CommitInv
<1>6. OnlyCommittedApplied' BY <1>2 DEF IInv, OnlyCommittedApplied
<1>7. LeaderInv' BY <1>2, <1>3 DEF IInv, LeaderInv, Since
<1>8. BetweenInv' BY <1>2, <1>3 DEF IInv, BetweenInv, Floor, Followers, StateAt
<1> QED BY <1>4, <1>5, <1>6, <1>7, <1>8 DEF IInv

\* Close or a crash: each key is still as a prefix from APPLIED on has it.
LEMMA StopStep ==
  ASSUME IInv, Close \/ Crash
  PROVE  IInv'
<1>0. TypeOK BY DEF IInv
<1>1. Closed /\ UNCHANGED <<diskVars, historyVars, used>> /\ Running BY DEF Close, Crash, Running
<1>2. UNCHANGED <<leader, log, logBroken, commitFile, appliedFile, kept, acked, failed, reached, used>>
  BY <1>1 DEF diskVars, historyVars
<1>3. ~Running' /\ commitIndex' = 0 /\ applied' = [r \in Replicas |-> 0] BY <1>1 DEF Closed, Running
<1>4. Seqs' = Seqs /\ 0 \in Seqs BY <1>0, <1>2, Types DEF Seqs
<1>5. TypeOK'
  <2>1. live' \in [Replicas -> Data] BY <1>1, EmptyType DEF Closed
  <2>2. /\ applied' \in [Replicas -> Seqs'] /\ commitIndex' \in Seqs' /\ status' = "closed"
        /\ paused' \in [Replicas -> BOOLEAN] /\ lag' \in [Replicas -> Lags \cup {0}]
    BY <1>1, <1>3, <1>4 DEF Closed
  <2> QED BY <1>0, <1>2, <1>4, <2>1, <2>2 DEF TypeOK
<1>6. CommitInv' BY <1>2, <1>3, ReplicaAssumption DEF IInv, CommitInv
<1>7. OnlyCommittedApplied' BY <1>2 DEF IInv, OnlyCommittedApplied
<1>8. LeaderInv' BY <1>2, <1>3 DEF IInv, LeaderInv, Since
<1>9. BetweenInv'
  <2> SUFFICES ASSUME NEW r \in Followers, NEW k \in Keys
               PROVE  \E n \in appliedFile[r]..reached[r] : kept[r][k] = StateAt(n)[k]
    BY <1>2, <1>3 DEF BetweenInv, Floor, Followers, StateAt
  <2>1. r \in Replicas BY DEF Followers
  <2>2. PICK n \in applied[r]..reached[r] : kept[r][k] = StateAt(n)[k]
    BY <1>1 DEF IInv, BetweenInv, Floor
  <2>3. appliedFile[r] <= applied[r] BY <1>1, <2>1 DEF IInv, CommitInv
  <2>4. appliedFile[r] \in Nat /\ applied[r] \in Nat /\ reached[r] \in Nat
    BY <1>0, <2>1, Types DEF Seqs
  <2>5. n \in appliedFile[r]..reached[r] BY <2>3, <2>4
  <2> QED BY <2>2, <2>5
<1> QED BY <1>5, <1>6, <1>7, <1>8, <1>9 DEF IInv

\* Open: memory is as the files and the reopened engines tell.
LEMMA OpenStep ==
  ASSUME IInv, NEW id \in {-1} \cup Replicas, Open(id)
  PROVE  IInv'
<1>0. TypeOK BY DEF IInv
<1>1. /\ status = "closed" /\ status' = "open" /\ live' = kept /\ applied' = appliedFile
      /\ commitIndex' = commitFile
      /\ UNCHANGED <<log, logBroken, commitFile, appliedFile, kept, paused, lag, acked, failed, reached>>
  BY DEF Open, LoadAppliedIndex, LoadCommitIndex, historyVars
<1>2. leader' \in Replicas /\ (leader' = leader \/ leader = -1)
  <2>1. Manifest(id) BY DEF Open
  <2> QED BY <1>0, <2>1 DEF Manifest, TypeOK
<1>3. used' \in Usage BY <1>0, SpendType DEF Open, TypeOK
<1>4. ~Running /\ Running' BY <1>1 DEF Running
<1>5. TypeOK' BY <1>0, <1>1, <1>2, <1>3 DEF TypeOK, Seqs
<1>6. OnlyCommittedApplied' BY <1>1 DEF IInv, OnlyCommittedApplied
<1>7. CommitInv'
  <2>1. leader' # -1 BY <1>2, NoReplicaMinusOne
  <2>2. \A r \in Replicas : appliedFile[r] <= commitFile BY DEF IInv, OnlyCommittedApplied
  <2>3. \A r \in Replicas : appliedFile[r] <= appliedFile[r] BY <1>0, Types DEF Seqs
  <2> QED BY <1>1, <1>4, <2>1, <2>2, <2>3 DEF CommitInv
<1>8. LeaderInv'
  <2>1. CASE leader' = leader
    BY <1>1, <2>1 DEF IInv, LeaderInv, Since
  <2>2. CASE leader = -1 BY <1>1, <2>2 DEF IInv, CommitInv, LeaderInv
  <2> QED BY <1>2, <2>1, <2>2
<1>9. BetweenInv'
  <2>1. Followers' \subseteq Followers BY <1>2, NoReplicaMinusOne DEF Followers
  <2>2. \A r \in Followers, k \in Keys : \E n \in appliedFile[r]..reached[r] : kept[r][k] = StateAt(n)[k]
    BY <1>4 DEF IInv, BetweenInv, Floor
  <2> QED BY <1>1, <1>4, <2>1, <2>2 DEF BetweenInv, Floor, StateAt
<1> QED BY <1>5, <1>6, <1>7, <1>8, <1>9 DEF IInv

\* A flushed engine answers once reopened what it answers now.
LEMMA FlushStep ==
  ASSUME IInv, Flush
  PROVE  IInv'
<1>0. TypeOK BY DEF IInv
<1>1. /\ status = "open"
      /\ UNCHANGED <<leader, log, logBroken, commitFile, appliedFile, live, status, commitIndex,
                     applied, paused, lag, acked, failed, reached, used>>
  BY DEF Flush, memoryVars, historyVars
<1>2. PICK flushed \in SUBSET Replicas :
        kept' = [r \in Replicas |-> IF r \in flushed THEN live[r] ELSE kept[r]]
  BY DEF Flush
<1>3. kept' \in [Replicas -> Data] BY <1>0, <1>2 DEF TypeOK
<1>4. \A r \in Replicas : kept'[r] = live[r] \/ kept'[r] = kept[r] BY <1>2
<1>5. Running /\ Running' BY <1>1 DEF Running
<1>6. TypeOK' BY <1>0, <1>1, <1>3 DEF TypeOK, Seqs
<1>7. CommitInv' BY <1>1, <1>5 DEF IInv, CommitInv
<1>8. OnlyCommittedApplied' BY <1>1 DEF IInv, OnlyCommittedApplied
<1>9. LeaderInv'
  <2>1. leader \in Replicas BY <1>0, <1>5, Types DEF IInv, CommitInv
  <2> QED BY <1>1, <1>4, <1>5, <2>1 DEF IInv, LeaderInv, Since
<1>10. BetweenInv'
  <2>1. \A r \in Followers : r \in Replicas BY DEF Followers
  <2> QED BY <1>1, <1>4, <1>5, <2>1 DEF IInv, BetweenInv, Floor, Followers, StateAt
<1> QED BY <1>6, <1>7, <1>8, <1>9, <1>10 DEF IInv

----------------------------------------------------------------------------
(* Writes                                                                  *)

\* The log has one operation more.
LEMMA LogGrows ==
  ASSUME TypeOK, NEW op \in Operation, log' = Append(log, op)
  PROVE  /\ log' \in Seq(Operation) /\ Len(log') = NextIndex /\ NextIndex \in Nat
         /\ log'[NextIndex] = op /\ \A i \in 1..Len(log) : log'[i] = log[i]
         /\ Seqs \subseteq Seqs' /\ NextIndex \in Seqs' /\ NextIndex \notin 1..Len(log)
         /\ 1..Len(log') = 1..Len(log) \cup {NextIndex}
<1>1. log \in Seq(Operation) /\ Len(log) \in Nat BY Types
<1> QED BY <1>1 DEF NextIndex, Seqs

\* What a write leaves of the invariant, acknowledged or not.
LEMMA WriteKeeps ==
  ASSUME IInv, NEW op \in Operation, status = "open", log' = Append(log, op),
         UNCHANGED <<leader, logBroken, status, paused, lag, reached>>,
         live' \in [Replicas -> Data], kept' \in [Replicas -> Data],
         live'[leader] \in {live[leader], Set(live[leader], op)},
         kept'[leader] \in {kept[leader], Set(kept[leader], op)},
         \A r \in Followers : /\ live'[r] = live[r] /\ kept'[r] = kept[r]
                              /\ applied'[r] = applied[r] /\ appliedFile'[r] = appliedFile[r],
         applied' \in [Replicas -> Seqs'], appliedFile' \in [Replicas -> Seqs'],
         commitFile' \in Seqs', commitIndex' = commitFile', commitFile <= commitFile',
         \A r \in Replicas : appliedFile'[r] <= applied'[r] /\ applied'[r] <= commitIndex',
         acked' \subseteq acked \cup {NextIndex}, failed' \subseteq failed \cup {NextIndex},
         NextIndex \in acked' => /\ live'[leader] = Set(live[leader], op)
                                 /\ kept'[leader] = Set(kept[leader], op),
         used' \in Usage
  PROVE  IInv'
<1>0. TypeOK BY DEF IInv
<1>a. /\ log' \in Seq(Operation) /\ Seqs \subseteq Seqs' /\ NextIndex \in Seqs'
      /\ NextIndex \notin 1..Len(log) /\ 1..Len(log') = 1..Len(log) \cup {NextIndex}
      /\ Len(log') = NextIndex /\ \A i \in 1..Len(log) : log'[i] = log[i]
      /\ log'[NextIndex] = op
  BY <1>0, LogGrows
<1>e. Len(log) \in Nat /\ NextIndex = Len(log) + 1 BY <1>0, Types DEF NextIndex
<1> HIDE DEF NextIndex
<1>b. acked \subseteq 1..Len(log) /\ acked' \subseteq 1..Len(log') /\ failed' \subseteq 1..Len(log')
  BY <1>0, <1>a DEF TypeOK
<1>c. leader \in Replicas /\ leader # -1 /\ Running /\ Running'
  <2>1. Running /\ Running' BY DEF Running
  <2> QED BY <1>0, <2>1, Types DEF IInv, CommitInv
<1>d. reached \in [Replicas -> Seqs'] BY <1>0, <1>a DEF TypeOK
<1>1. TypeOK' BY <1>0, <1>a, <1>b, <1>d DEF TypeOK
<1>2. CommitInv' BY <1>c DEF CommitInv
<1>3. OnlyCommittedApplied'
  <2> SUFFICES ASSUME NEW r \in Replicas PROVE appliedFile'[r] <= commitFile' /\ reached'[r] <= commitFile'
    BY DEF OnlyCommittedApplied
  <2>1. reached[r] <= commitFile BY DEF IInv, OnlyCommittedApplied
  <2>2. reached[r] \in Nat /\ commitFile \in Nat BY <1>0, Types DEF Seqs
  <2>3. commitFile' \in Int /\ applied'[r] \in Int /\ appliedFile'[r] \in Int BY DEF Seqs
  <2>4. reached'[r] = reached[r] OBVIOUS
  <2> QED BY <2>1, <2>2, <2>3, <2>4
<1>4. LeaderInv'
  <2> SUFFICES ASSUME NEW j \in acked', NEW k \in Keys, log'[j].key = k
               PROVE  /\ \E i \in j..Len(log') : log'[i].key = k /\ log'[i].value = kept'[leader][k]
                      /\ \E i \in j..Len(log') : log'[i].key = k /\ log'[i].value = live'[leader][k]
    BY <1>c DEF LeaderInv, Since
  <2>1. j \in 1..NextIndex BY <1>a, <1>b
  <2>2. j # NextIndex => j \in acked /\ log[j].key = k BY <1>a, <1>b
  <2>3. j # NextIndex => Since(k, j, kept[leader][k]) /\ Since(k, j, live[leader][k])
    BY <1>c, <2>2 DEF IInv, LeaderInv
  <2>4. kept[leader] \in Data /\ live[leader] \in Data BY <1>0, <1>c, Types
  <2>5. ASSUME NEW old \in Data, NEW new \in {old, Set(old, op)},
               j = NextIndex => new = Set(old, op), j # NextIndex => Since(k, j, old[k])
        PROVE  \E i \in j..Len(log') : log'[i].key = k /\ log'[i].value = new[k]
    <3>1. CASE new = Set(old, op) /\ k = op.key
      <4>1. new[k] = op.value BY <3>1, SetFacts
      <4>2. NextIndex \in j..Len(log') BY <1>a, <1>e, <2>1
      <4> QED BY <1>a, <3>1, <4>1, <4>2
    <3>2. CASE ~(new = Set(old, op) /\ k = op.key)
      <4>1. j # NextIndex BY <1>a, <2>5, <3>2
      <4>2. PICK i \in j..Len(log) : log[i].key = k /\ log[i].value = old[k]
        BY <2>5, <4>1 DEF Since
      <4>3. i \in j..Len(log') /\ i \in 1..Len(log) BY <1>a, <1>e, <2>1
      <4>4. new[k] = old[k] BY <2>5, <3>2, SetFacts
      <4> QED BY <1>a, <4>2, <4>3, <4>4
    <3> QED BY <3>1, <3>2
  <2>6. \E i \in j..Len(log') : log'[i].key = k /\ log'[i].value = kept'[leader][k]
    <3>1. j = NextIndex => kept'[leader] = Set(kept[leader], op) OBVIOUS
    <3> HIDE DEF Set
    <3> QED BY <2>3, <2>4, <2>5, <3>1
  <2>7. \E i \in j..Len(log') : log'[i].key = k /\ log'[i].value = live'[leader][k]
    <3>1. j = NextIndex => live'[leader] = Set(live[leader], op) OBVIOUS
    <3> QED BY <2>3, <2>4, <2>5, <3>1
  <2> QED BY <2>6, <2>7
<1>5. BetweenInv'
  <2> SUFFICES ASSUME NEW r \in Followers, NEW k \in Keys
               PROVE  /\ \E n \in applied[r]..reached[r] : kept[r][k] = Apply(log', Empty, 1, n)[k]
                      /\ \E n \in applied[r]..reached[r] : live[r][k] = Apply(log', Empty, 1, n)[k]
    BY <1>c DEF BetweenInv, Floor, Followers, StateAt
  <2>1. r \in Replicas BY DEF Followers
  <2>2. applied[r] \in 0..Len(log) /\ reached[r] \in 0..Len(log) /\ log \in Seq(Operation)
    BY <1>0, <2>1, Types DEF Seqs
  <2>3. \A n \in applied[r]..reached[r] : Apply(log', Empty, 1, n) = Apply(log, Empty, 1, n)
    BY <2>2, AppendSame
  <2>4. /\ \E n \in applied[r]..reached[r] : kept[r][k] = Apply(log, Empty, 1, n)[k]
        /\ \E n \in applied[r]..reached[r] : live[r][k] = Apply(log, Empty, 1, n)[k]
    BY <1>c DEF IInv, BetweenInv, Floor, StateAt
  <2> QED BY <2>3, <2>4
<1> QED BY <1>1, <1>2, <1>3, <1>4, <1>5 DEF IInv

\* The facts about the old state that a write needs.
LEMMA WriteFacts ==
  ASSUME IInv, status = "open", NEW op \in Operation, log' = Append(log, op)
  PROVE  /\ leader \in Replicas /\ leader \notin Followers /\ Followers \subseteq Replicas
         /\ kept \in [Replicas -> Data] /\ live \in [Replicas -> Data]
         /\ Set(kept[leader], op) \in Data /\ Set(live[leader], op) \in Data
         /\ applied \in [Replicas -> Seqs'] /\ appliedFile \in [Replicas -> Seqs']
         /\ NextIndex \in Seqs' /\ NextIndex \notin acked /\ commitFile \in Seqs'
         /\ commitIndex = commitFile /\ commitFile <= commitFile /\ commitFile <= NextIndex
         /\ NextIndex <= NextIndex
         /\ \A r \in Replicas : /\ appliedFile[r] <= applied[r] /\ applied[r] <= commitIndex
                                /\ applied[r] <= NextIndex /\ appliedFile[r] <= NextIndex
         /\ used \in Usage
<1>0. TypeOK BY DEF IInv
<1>1. leader \in Replicas /\ leader \notin Followers /\ Followers \subseteq Replicas
  BY <1>0, Types DEF IInv, CommitInv, Running, Followers
<1>2. Seqs \subseteq Seqs' /\ NextIndex \in Seqs' /\ NextIndex \notin 1..Len(log)
  BY <1>0, LogGrows
<1>3. kept \in [Replicas -> Data] /\ live \in [Replicas -> Data] BY <1>0 DEF TypeOK
<1>4. Set(kept[leader], op) \in Data /\ Set(live[leader], op) \in Data BY <1>1, <1>3, SetFacts
<1>5. applied \in [Replicas -> Seqs'] /\ appliedFile \in [Replicas -> Seqs'] /\ commitFile \in Seqs'
  BY <1>0, <1>2 DEF TypeOK
<1>6. NextIndex \notin acked BY <1>0, <1>2, Types
<1>7. commitIndex = commitFile /\ \A r \in Replicas : appliedFile[r] <= applied[r] /\ applied[r] <= commitIndex
  BY DEF IInv, CommitInv, Running
<1>8. commitFile \in 0..Len(log) /\ Len(log) \in Nat /\ NextIndex = Len(log) + 1
      /\ \A r \in Replicas : applied[r] \in 0..Len(log) /\ appliedFile[r] \in 0..Len(log)
  BY <1>0, Types DEF Seqs, NextIndex
<1>9. /\ commitFile <= commitFile /\ commitFile <= NextIndex /\ NextIndex <= NextIndex
      /\ \A r \in Replicas : applied[r] <= NextIndex /\ appliedFile[r] <= NextIndex
  BY <1>8
<1> QED BY <1>0, <1>1, <1>2, <1>3, <1>4, <1>5, <1>6, <1>7, <1>9 DEF TypeOK

\* The leader's engine fails: what it answers is as before, or with the write.
LEMMA LeaderFailsStep ==
  ASSUME IInv, NEW op \in Operation, LeaderFails(op)
  PROVE  IInv'
<1>1. /\ status = "open" /\ log' = Append(log, op)
      /\ UNCHANGED <<leader, logBroken, commitFile, commitIndex, appliedFile, live, status, applied,
                     paused, lag, acked, reached>>
      /\ failed' = failed \cup {NextIndex}
  BY DEF LeaderFails, CanWrite, LogAppend, NotCommitted
<1>2. PICK data \in MayKeep(kept[leader], op) : kept' = [kept EXCEPT ![leader] = data]
  BY DEF LeaderFails
<1>3. data \in {kept[leader], Set(kept[leader], op)} BY <1>2 DEF MayKeep
<1>4. used' \in Usage BY FaultType DEF LeaderFails, IInv, TypeOK
<1>5. kept' \in [Replicas -> Data] /\ kept'[leader] = data /\ \A r \in Followers : kept'[r] = kept[r]
  BY <1>1, <1>2, <1>3, WriteFacts
<1> QED BY <1>1, <1>3, <1>4, <1>5, WriteFacts, WriteKeeps

\* The leader's engine has the write, now and once reopened.
LEMMA LeaderWritesFacts ==
  ASSUME IInv, status = "open", NEW op \in Operation, log' = Append(log, op), LeaderWrites(op)
  PROVE  /\ live' \in [Replicas -> Data] /\ kept' \in [Replicas -> Data]
         /\ live'[leader] = Set(live[leader], op) /\ kept'[leader] = Set(kept[leader], op)
         /\ \A r \in Followers : live'[r] = live[r] /\ kept'[r] = kept[r]
<1>1. /\ leader \in Replicas /\ leader \notin Followers /\ Followers \subseteq Replicas
      /\ kept \in [Replicas -> Data] /\ live \in [Replicas -> Data]
      /\ Set(kept[leader], op) \in Data /\ Set(live[leader], op) \in Data
  BY WriteFacts
<1>2. /\ live' = [live EXCEPT ![leader] = Set(live[leader], op)]
      /\ kept' = [kept EXCEPT ![leader] = Set(kept[leader], op)]
  BY DEF LeaderWrites
<1> QED BY <1>1, <1>2

\* The leader has a write that is not committed.
LEMMA CommitFailsStep ==
  ASSUME IInv, NEW op \in Operation, CommitFails(op)
  PROVE  IInv'
<1>1. /\ status = "open" /\ log' = Append(log, op) /\ LeaderWrites(op)
      /\ UNCHANGED <<leader, logBroken, commitFile, commitIndex, appliedFile, status, applied,
                     paused, lag, acked, reached>>
      /\ failed' = failed \cup {NextIndex}
  BY DEF CommitFails, CanWrite, LogAppend, NotCommitted
<1>2. used' \in Usage BY FaultType DEF CommitFails, IInv, TypeOK
<1>3. /\ live' \in [Replicas -> Data] /\ kept' \in [Replicas -> Data]
      /\ live'[leader] = Set(live[leader], op) /\ kept'[leader] = Set(kept[leader], op)
      /\ \A r \in Followers : live'[r] = live[r] /\ kept'[r] = kept[r]
  BY <1>1, LeaderWritesFacts
<1> QED BY <1>1, <1>2, <1>3, WriteFacts, WriteKeeps

\* A write is acknowledged.
LEMMA WriteStep ==
  ASSUME IInv, NEW op \in Operation, Write(op)
  PROVE  IInv'
<1>1. /\ status = "open" /\ log' = Append(log, op) /\ LeaderWrites(op)
      /\ UNCHANGED <<leader, logBroken, status, paused, lag, failed, reached>>
      /\ commitFile' = NextIndex /\ commitIndex' = NextIndex
      /\ applied' = [applied EXCEPT ![leader] = NextIndex]
      /\ acked' = acked \cup {NextIndex}
      /\ SaveApplied(leader)
  BY DEF Write, CanWrite, LogAppend, Commit
<1>2. used' \in Usage BY <1>1, FaultType DEF SaveApplied, IInv, TypeOK
<1>3. /\ live' \in [Replicas -> Data] /\ kept' \in [Replicas -> Data]
      /\ live'[leader] = Set(live[leader], op) /\ kept'[leader] = Set(kept[leader], op)
      /\ \A r \in Followers : live'[r] = live[r] /\ kept'[r] = kept[r]
  BY <1>1, LeaderWritesFacts
<1>4. /\ leader \in Replicas /\ leader \notin Followers /\ Followers \subseteq Replicas
      /\ applied \in [Replicas -> Seqs'] /\ appliedFile \in [Replicas -> Seqs']
      /\ NextIndex \in Seqs' /\ commitFile <= NextIndex /\ NextIndex <= NextIndex
      /\ \A r \in Replicas : /\ appliedFile[r] <= applied[r] /\ applied[r] <= NextIndex
                             /\ appliedFile[r] <= NextIndex
  BY <1>1, WriteFacts
<1> HIDE DEF NextIndex
<1>5. /\ applied' \in [Replicas -> Seqs'] /\ applied'[leader] = NextIndex
      /\ \A r \in Replicas : r # leader => applied'[r] = applied[r]
  BY <1>1, <1>4
<1>6. appliedFile' = [appliedFile EXCEPT ![leader] = NextIndex] \/ appliedFile' = appliedFile
  BY <1>1, <1>5 DEF SaveApplied
<1>7. /\ appliedFile' \in [Replicas -> Seqs']
      /\ appliedFile'[leader] \in {NextIndex, appliedFile[leader]}
      /\ \A r \in Replicas : r # leader => appliedFile'[r] = appliedFile[r]
  BY <1>4, <1>6
<1>8. \A r \in Replicas : appliedFile'[r] <= applied'[r] /\ applied'[r] <= commitIndex'
  <2> TAKE r \in Replicas
  <2>1. CASE r = leader BY <1>1, <1>4, <1>5, <1>7, <2>1
  <2>2. CASE r # leader BY <1>1, <1>4, <1>5, <1>7, <2>2
  <2> QED BY <2>1, <2>2
<1>9. \A r \in Followers : applied'[r] = applied[r] /\ appliedFile'[r] = appliedFile[r]
  BY <1>4, <1>5, <1>7
<1> QED BY <1>1, <1>2, <1>3, <1>4, <1>5, <1>7, <1>8, <1>9, WriteKeeps

----------------------------------------------------------------------------
(* What a replication round keeps                                          *)

\* The greater of two numbers.
LEMMA MaxOfTwo ==
  ASSUME NEW a \in Nat, NEW b \in Nat
  PROVE  Max({a, b}) \in {a, b} /\ a <= Max({a, b}) /\ b <= Max({a, b})
<1>1. {a, b} \subseteq 0..(a + b) /\ {a, b} # {} /\ a + b \in Nat OBVIOUS
<1> QED BY <1>1, MaxFound

\* A whole call gives a follower no operation beyond the commit index.
LEMMA PendingFacts ==
  ASSUME IInv, Running, NEW r \in Replicas
  PROVE  /\ Pending(r) \in Nat /\ applied[r] + Pending(r) <= commitIndex
         /\ Pending(leader) = 0
         /\ Pending(r) = 0 => r = leader \/ paused[r] \/ applied[r] = commitIndex
<1>0. /\ commitIndex \in Nat /\ applied[r] \in Nat /\ lag[r] \in Nat /\ applied[r] <= commitIndex
  <2>1. TypeOK /\ CommitInv BY DEF IInv
  <2>2. commitIndex \in 0..Len(log) /\ applied[r] \in 0..Len(log) /\ lag[r] \in Lags \cup {0}
    BY <2>1, Types DEF Seqs
  <2>3. Lags \subseteq Nat BY ReplicaAssumption
  <2>4. applied[r] <= commitIndex BY <2>1 DEF CommitInv
  <2>5. commitIndex \in Nat /\ applied[r] \in Nat BY <2>2
  <2>6. lag[r] \in Nat
    <3>1. lag[r] \in Lags \/ lag[r] = 0 BY <2>2
    <3>2. CASE lag[r] \in Lags BY <2>3, <3>2
    <3>3. CASE lag[r] = 0 BY <3>3
    <3> QED BY <3>1, <3>2, <3>3
  <2> QED BY <2>4, <2>5, <2>6
<1>1. Limit(r) \in Nat \ {0} BY <1>0 DEF Limit
<1>2. CASE r = leader \/ paused[r] \/ applied[r] >= commitIndex
  <2>1. Pending(r) = 0 BY <1>2 DEF Pending
  <2> QED BY <1>0, <1>2, <2>1 DEF Pending
<1>3. CASE ~(r = leader \/ paused[r] \/ applied[r] >= commitIndex)
  <2>1. Pending(r) = Min({Limit(r), commitIndex - applied[r]}) BY <1>3 DEF Pending
  <2>2. commitIndex - applied[r] \in Nat \ {0} BY <1>0, <1>3
  <2>3. {Limit(r), commitIndex - applied[r]} \subseteq Nat BY <1>1, <2>2
  <2>4. /\ Pending(r) \in {Limit(r), commitIndex - applied[r]}
        /\ Pending(r) <= commitIndex - applied[r]
    BY <2>1, <2>3, MinFound
  <2>5. Pending(leader) = 0 BY DEF Pending
  <2> QED BY <1>0, <1>1, <2>2, <2>4, <2>5
<1> QED BY <1>2, <1>3

\* An engine that is given operations stays between two prefixes.
LEMMA GivenBetween ==
  ASSUME TypeOK, NEW r \in Replicas, NEW data \in Data, NEW k \in Keys,
         \E n \in applied[r]..reached[r] : data[k] = Apply(log, Empty, 1, n)[k],
         NEW c \in Nat, applied[r] + c <= Len(log), NEW top \in Nat,
         reached[r] <= top, applied[r] + c <= top
  PROVE  \E m \in (applied[r] + c)..top :
           Apply(log, data, applied[r] + 1, applied[r] + c)[k] = Apply(log, Empty, 1, m)[k]
<1>1. /\ applied[r] \in 0..Len(log) /\ reached[r] \in 0..Len(log) /\ log \in Seq(Operation)
      /\ Len(log) \in Nat
  BY Types DEF Seqs
<1>2. PICK n \in applied[r]..reached[r] : data[k] = Apply(log, Empty, 1, n)[k] OBVIOUS
<1>3. applied[r] + c \in applied[r]..Len(log) /\ n \in applied[r]..Len(log) BY <1>1
<1>4. PICK m \in {n, applied[r] + c} :
        /\ m >= applied[r] + c
        /\ Apply(log, data, applied[r] + 1, applied[r] + c)[k] = Apply(log, Empty, 1, m)[k]
  BY <1>1, <1>2, <1>3, AppliedAgain
<1>5. m \in (applied[r] + c)..top BY <1>1, <1>3, <1>4
<1> QED BY <1>4, <1>5

\* An engine that is given no operation.
LEMMA GivenNothing ==
  ASSUME NEW ops, NEW data \in Data, NEW a \in Nat
  PROVE  Apply(ops, data, a + 1, a) = data
<1>1. \A k \in Keys : On(ops, k, a + 1, a) = {} BY DEF On
<1>2. Apply(ops, data, a + 1, a) = [k \in Keys |-> data[k]] BY <1>1 DEF Apply
<1> QED BY <1>2 DEF Data

\* What is common to a call that ends well and one that fails in follower f.
LEMMA RoundKeeps ==
  ASSUME IInv, Running, UNCHANGED restVars, status' \in {"open", "replicating"}, used' \in Usage,
         NEW count \in [Replicas -> Nat], count[leader] = 0,
         \A r \in Replicas : applied[r] + count[r] <= commitIndex,
         Advance(count),
         NEW last \in [Replicas -> Nat], Reach(last),
         \A r \in Replicas : last[r] <= commitIndex,
         \A r \in Followers : applied[r] + count[r] <= last[r],
         kept' \in [Replicas -> Data], kept'[leader] = kept[leader],
         \A r \in Followers, k \in Keys :
            \E m \in (applied[r] + count[r])..Max({reached[r], last[r]}) :
              kept'[r][k] = Apply(log, Empty, 1, m)[k],
         appliedFile' \in [Replicas -> Nat],
         \A r \in Replicas : appliedFile'[r] <= applied[r] + count[r]
  PROVE  IInv'
<1>0. TypeOK BY DEF IInv
<1>a. UNCHANGED <<leader, log, logBroken, commitFile, commitIndex, paused, lag, acked, failed>>
  BY DEF restVars
<1>b. /\ log \in Seq(Operation) /\ Len(log) \in Nat /\ leader \in Replicas /\ Running'
      /\ commitIndex = commitFile /\ commitFile \in 0..Len(log) /\ leader # -1
  BY <1>0, Types DEF IInv, CommitInv, Running, Seqs
<1>c. \A r \in Replicas : /\ applied[r] \in 0..Len(log) /\ reached[r] \in 0..Len(log)
                          /\ live[r] \in Data /\ count[r] \in Nat /\ last[r] \in Nat
  BY <1>0, Types DEF Seqs
<1>d. \A r \in Replicas : /\ applied'[r] = applied[r] + count[r]
                          /\ live'[r] = Apply(log, live[r], applied[r] + 1, applied[r] + count[r])
                          /\ reached'[r] = Max({reached[r], last[r]})
  BY DEF Advance, Reach
<1>e. \A r \in Replicas : reached[r] <= commitFile BY DEF IInv, OnlyCommittedApplied
<1>f. \A r \in Replicas : /\ reached'[r] \in 0..commitFile
                          /\ reached[r] <= reached'[r] /\ last[r] <= reached'[r]
  <2> TAKE r \in Replicas
  <2>1. /\ Max({reached[r], last[r]}) \in {reached[r], last[r]}
        /\ reached[r] <= Max({reached[r], last[r]}) /\ last[r] <= Max({reached[r], last[r]})
    <3>1. reached[r] \in Nat /\ last[r] \in Nat BY <1>c
    <3> QED BY <3>1, MaxOfTwo
  <2>2. reached[r] \in 0..commitFile /\ last[r] \in 0..commitFile
    <3>1. last[r] <= commitFile BY <1>b
    <3> QED BY <1>b, <1>c, <1>e, <3>1
  <2> QED BY <1>d, <2>1, <2>2
<1>g. \A r \in Replicas : applied[r] + count[r] \in 0..Len(log) BY <1>b, <1>c
<1>1. TypeOK'
  <2>1. applied' \in [Replicas -> Seqs]
    <3>1. applied' = [r \in Replicas |-> applied[r] + count[r]] BY DEF Advance
    <3> QED BY <1>g, <3>1 DEF Seqs
  <2>2. reached' \in [Replicas -> Seqs]
    <3>1. reached' = [r \in Replicas |-> Max({reached[r], last[r]})] BY DEF Reach
    <3>2. \A r \in Replicas : Max({reached[r], last[r]}) \in 0..Len(log)
      <4> TAKE r \in Replicas
      <4>1. reached'[r] \in 0..commitFile BY <1>f
      <4>2. reached'[r] = Max({reached[r], last[r]}) BY <1>d
      <4>3. reached'[r] \in 0..Len(log) BY <1>b, <4>1
      <4> QED BY <4>2, <4>3
    <3> QED BY <3>1, <3>2 DEF Seqs
  <2>3. live' \in [Replicas -> Data]
    <3>1. \A r \in Replicas :
            Apply(log, live[r], applied[r] + 1, applied[r] + count[r]) \in Data
      <4> TAKE r \in Replicas
      <4>1. applied[r] + 1 \in 1..(Len(log) + 1) BY <1>b, <1>c
      <4> QED BY <1>b, <1>c, <1>g, <4>1, ApplyType
    <3>2. live' = [r \in Replicas |-> live'[r]] BY DEF Advance
    <3> QED BY <1>d, <3>1, <3>2
  <2>4. appliedFile' \in [Replicas -> Seqs]
    <3>1. \A r \in Replicas : appliedFile'[r] \in 0..Len(log)
      <4> TAKE r \in Replicas
      <4>1. appliedFile'[r] \in Nat /\ appliedFile'[r] <= applied[r] + count[r] OBVIOUS
      <4>2. applied[r] + count[r] \in 0..Len(log) BY <1>g
      <4> QED BY <1>b, <4>1, <4>2
    <3> QED BY <3>1 DEF Seqs
  <2>5. Seqs' = Seqs BY <1>a DEF Seqs
  <2> QED BY <1>0, <1>a, <2>1, <2>2, <2>3, <2>4, <2>5 DEF TypeOK
<1>2. CommitInv' BY <1>a, <1>b, <1>d DEF CommitInv
<1>3. OnlyCommittedApplied'
  <2> SUFFICES ASSUME NEW r \in Replicas PROVE appliedFile'[r] <= commitFile /\ reached'[r] <= commitFile
    BY <1>a DEF OnlyCommittedApplied
  <2>1. appliedFile'[r] \in Nat /\ appliedFile'[r] <= applied[r] + count[r]
        /\ applied[r] + count[r] <= commitFile
    BY <1>b
  <2>2. appliedFile'[r] <= commitFile BY <1>b, <1>g, <2>1
  <2> QED BY <1>f, <2>2, <1>b
<1>4. LeaderInv'
  <2>1. live'[leader] = live[leader]
    <3>1. applied[leader] \in Nat /\ live[leader] \in Data /\ applied[leader] + count[leader] = applied[leader]
      BY <1>b, <1>c
    <3>2. live'[leader] = Apply(log, live[leader], applied[leader] + 1, applied[leader] + count[leader])
      BY <1>b, <1>d
    <3>3. live'[leader] = Apply(log, live[leader], applied[leader] + 1, applied[leader])
      BY <3>1, <3>2
    <3> QED BY <3>1, <3>3, GivenNothing
  <2>2. leader' = leader /\ log' = log /\ acked' = acked /\ kept'[leader] = kept[leader] BY <1>a
  <2>3. ASSUME NEW j \in acked, NEW k \in Keys, log[j].key = k
        PROVE  Since(k, j, kept[leader][k]) /\ Since(k, j, live[leader][k])
    BY <2>3 DEF IInv, LeaderInv
  <2> SUFFICES ASSUME NEW j \in acked', NEW k \in Keys, log'[j].key = k
               PROVE  /\ \E i \in j..Len(log') : log'[i].key = k /\ log'[i].value = kept'[leader'][k]
                      /\ \E i \in j..Len(log') : log'[i].key = k /\ log'[i].value = live'[leader'][k]
    BY <1>b DEF LeaderInv, Since
  <2>4. /\ \E i \in j..Len(log) : log[i].key = k /\ log[i].value = kept[leader][k]
        /\ \E i \in j..Len(log) : log[i].key = k /\ log[i].value = live[leader][k]
    BY <2>2, <2>3 DEF Since
  <2>5. kept'[leader'] = kept[leader] /\ live'[leader'] = live[leader] BY <2>1, <2>2
  <2> QED BY <2>2, <2>4, <2>5
<1>5. BetweenInv'
  <2> SUFFICES ASSUME NEW r \in Followers, NEW k \in Keys
               PROVE  /\ \E n \in applied'[r]..reached'[r] : kept'[r][k] = Apply(log, Empty, 1, n)[k]
                      /\ \E n \in applied'[r]..reached'[r] : live'[r][k] = Apply(log, Empty, 1, n)[k]
    BY <1>a, <1>b DEF BetweenInv, Floor, Followers, StateAt
  <2>1. r \in Replicas BY DEF Followers
  <2>2. \E n \in applied[r]..reached[r] : live[r][k] = Apply(log, Empty, 1, n)[k]
    BY DEF IInv, BetweenInv, Floor, StateAt
  <2>3. /\ live[r] \in Data /\ count[r] \in Nat /\ applied[r] + count[r] <= Len(log)
        /\ reached'[r] \in Nat /\ reached[r] <= reached'[r]
    BY <1>b, <1>c, <1>f, <1>g, <2>1
  <2>4. applied[r] + count[r] <= reached'[r]
    <3>1. applied[r] + count[r] <= last[r] /\ last[r] <= reached'[r] BY <1>f, <2>1
    <3>2. applied[r] + count[r] \in Int /\ last[r] \in Int /\ reached'[r] \in Int
      BY <1>c, <1>g, <2>1, <2>3
    <3> QED BY <3>1, <3>2
  <2>5. \E m \in (applied[r] + count[r])..reached'[r] :
          Apply(log, live[r], applied[r] + 1, applied[r] + count[r])[k] = Apply(log, Empty, 1, m)[k]
    BY <1>0, <2>1, <2>2, <2>3, <2>4, GivenBetween
  <2> QED BY <1>d, <2>1, <2>5
<1> QED BY <1>1, <1>2, <1>3, <1>4, <1>5 DEF IInv

\* A replica's engine, running or reopened, given its operations.
LEMMA KeptGiven ==
  ASSUME IInv, Running, NEW count \in [Replicas -> Nat], count[leader] = 0,
         \A r \in Replicas : applied[r] + count[r] <= commitIndex,
         NEW last \in [Replicas -> Nat],
         \A r \in Followers : applied[r] + count[r] <= last[r]
  PROVE  /\ Given(count) \in [Replicas -> Data] /\ Given(count)[leader] = kept[leader]
         /\ \A r \in Followers, k \in Keys :
              \E m \in (applied[r] + count[r])..Max({reached[r], last[r]}) :
                Given(count)[r][k] = Apply(log, Empty, 1, m)[k]
<1>0. TypeOK BY DEF IInv
<1>1. /\ log \in Seq(Operation) /\ Len(log) \in Nat /\ leader \in Replicas
      /\ commitIndex \in 0..Len(log)
  BY <1>0, Types DEF IInv, CommitInv, Seqs
<1>2. \A r \in Replicas : /\ applied[r] \in 0..Len(log) /\ reached[r] \in 0..Len(log)
                          /\ kept[r] \in Data /\ count[r] \in Nat /\ last[r] \in Nat
                          /\ applied[r] + count[r] \in 0..Len(log)
  <2> TAKE r \in Replicas
  <2>1. /\ applied[r] \in 0..Len(log) /\ reached[r] \in 0..Len(log)
        /\ kept[r] \in Data /\ count[r] \in Nat /\ last[r] \in Nat
    BY <1>0, Types DEF Seqs
  <2> QED BY <1>1, <2>1
<1>3. \A r \in Replicas :
        Given(count)[r] = Apply(log, kept[r], applied[r] + 1, applied[r] + count[r])
  BY DEF Given
<1>4. \A r \in Replicas : Given(count)[r] \in Data
  <2> TAKE r \in Replicas
  <2>1. applied[r] + 1 \in 1..(Len(log) + 1) BY <1>1, <1>2
  <2> QED BY <1>1, <1>2, <1>3, <2>1, ApplyType
<1>5. Given(count) \in [Replicas -> Data] BY <1>4 DEF Given
<1>6. Given(count)[leader] = kept[leader]
  <2>1. applied[leader] \in Nat /\ kept[leader] \in Data /\ applied[leader] + count[leader] = applied[leader]
    BY <1>1, <1>2
  <2> QED BY <1>1, <1>3, <2>1, GivenNothing
<1>7. ASSUME NEW r \in Followers, NEW k \in Keys
      PROVE  \E m \in (applied[r] + count[r])..Max({reached[r], last[r]}) :
               Given(count)[r][k] = Apply(log, Empty, 1, m)[k]
  <2> DEFINE top == Max({reached[r], last[r]})
  <2>1. r \in Replicas BY DEF Followers
  <2>2. \E n \in applied[r]..reached[r] : kept[r][k] = Apply(log, Empty, 1, n)[k]
    BY DEF IInv, BetweenInv, Floor, StateAt
  <2>3. top \in {reached[r], last[r]} /\ reached[r] <= top /\ last[r] <= top
    BY <1>2, <2>1, MaxOfTwo
  <2> HIDE DEF top
  <2>4. top \in Nat /\ applied[r] + count[r] <= top
    <3>1. applied[r] + count[r] <= last[r] OBVIOUS
    <3> QED BY <1>2, <2>1, <2>3, <3>1
  <2>5. kept[r] \in Data /\ count[r] \in Nat /\ applied[r] + count[r] <= Len(log) BY <1>1, <1>2, <2>1
  <2>6. \E m \in (applied[r] + count[r])..top :
          Apply(log, kept[r], applied[r] + 1, applied[r] + count[r])[k] = Apply(log, Empty, 1, m)[k]
    BY <1>0, <2>1, <2>2, <2>3, <2>4, <2>5, GivenBetween
  <2> QED BY <1>3, <2>1, <2>6 DEF top
<1> QED BY <1>5, <1>6, <1>7

----------------------------------------------------------------------------
(* Replication rounds                                                      *)

\* A call that serves every follower; an APPLIED may not be written.
LEMMA RoundStep ==
  ASSUME IInv, Running, UNCHANGED restVars, status' \in {"open", "replicating"}, Round
  PROVE  IInv'
<1> DEFINE count == [r \in Replicas |-> Pending(r)]
           last  == [r \in Replicas |-> IF r = leader THEN 0 ELSE applied[r] + Pending(r)]
<1>0. TypeOK BY DEF IInv
<1>1. \A r \in Replicas : /\ Pending(r) \in Nat /\ applied[r] + Pending(r) <= commitIndex
                          /\ count[r] = Pending(r)
                          /\ last[r] = IF r = leader THEN 0 ELSE applied[r] + Pending(r)
                          /\ applied[r] \in Nat
  <2> TAKE r \in Replicas
  <2>1. applied[r] \in Nat BY <1>0, Types DEF Seqs
  <2> QED BY <2>1, PendingFacts
<1>2. leader \in Replicas /\ \A r \in Followers : r \in Replicas /\ r # leader
  BY <1>0, Types DEF IInv, CommitInv, Followers
<1>3. /\ count \in [Replicas -> Nat] /\ count[leader] = 0
      /\ \A r \in Replicas : applied[r] + count[r] <= commitIndex
  <2>1. Pending(leader) = 0 BY DEF Pending
  <2> QED BY <1>1, <1>2, <2>1
<1>4. /\ last \in [Replicas -> Nat] /\ \A r \in Replicas : last[r] <= commitIndex
      /\ \A r \in Followers : applied[r] + count[r] <= last[r]
  <2>1. \A r \in Replicas : (IF r = leader THEN 0 ELSE applied[r] + Pending(r)) \in Nat
    <3> TAKE r \in Replicas
    <3> QED BY <1>1
  <2>2. commitIndex \in Nat BY <1>0, Types DEF Seqs
  <2>3. \A r \in Replicas : last[r] <= commitIndex
    <3> TAKE r \in Replicas
    <3>1. CASE r = leader BY <1>1, <2>2, <3>1
    <3>2. CASE r # leader BY <1>1, <3>2
    <3> QED BY <3>1, <3>2
  <2>4. \A r \in Followers : applied[r] + count[r] <= last[r]
    <3> TAKE r \in Followers
    <3>1. last[r] = applied[r] + Pending(r) /\ count[r] = Pending(r) /\ applied[r] + Pending(r) \in Nat
      BY <1>1, <1>2
    <3> HIDE DEF last, count
    <3> QED BY <3>1
  <2> QED BY <2>1, <2>3, <2>4
<1>5. /\ Advance(count) /\ kept' = Given(count) /\ SaveAllApplied(count)
      /\ Reach([r \in Replicas |-> IF r = leader THEN 0 ELSE applied'[r]])
  BY DEF Round
<1>6. \A r \in Replicas : applied'[r] = applied[r] + count[r] BY <1>5 DEF Advance
<1>7. Reach(last)
  <2>1. [r \in Replicas |-> IF r = leader THEN 0 ELSE applied'[r]] = last BY <1>1, <1>6
  <2> QED BY <1>5, <2>1
<1> HIDE DEF count, last
<1>8. used' \in Usage BY <1>0, <1>5, FaultType DEF SaveAllApplied, TypeOK
<1>9. /\ appliedFile' \in [Replicas -> Nat]
      /\ \A r \in Replicas : appliedFile'[r] <= applied[r] + count[r]
  <2>1. \A r \in Replicas : /\ appliedFile[r] \in Nat /\ appliedFile[r] <= applied[r]
                            /\ applied[r] \in Nat /\ count[r] \in Nat
    <3> TAKE r \in Replicas
    <3>1. appliedFile[r] \in Nat /\ applied[r] \in Nat BY <1>0, Types DEF Seqs
    <3>2. appliedFile[r] <= applied[r] BY DEF IInv, CommitInv
    <3> QED BY <1>3, <3>1, <3>2
  <2>2. CASE appliedFile' = [r \in Replicas |-> IF count[r] > 0 THEN applied'[r] ELSE appliedFile[r]]
    <3>1. \A r \in Replicas : appliedFile'[r] \in Nat /\ appliedFile'[r] <= applied[r] + count[r]
      <4> TAKE r \in Replicas
      <4>1. appliedFile'[r] = applied[r] + count[r] \/ appliedFile'[r] = appliedFile[r] BY <1>6, <2>2
      <4> QED BY <2>1, <4>1
    <3> QED BY <2>2, <3>1
  <2>3. CASE \E saved \in [Replicas -> 0..Len(log)] :
               /\ appliedFile' = saved
               /\ \A r \in Replicas :
                    saved[r] \in {appliedFile[r]} \cup (applied[r] + 1)..applied'[r]
    <3>1. PICK saved \in [Replicas -> 0..Len(log)] :
               /\ appliedFile' = saved
               /\ \A r \in Replicas :
                    saved[r] \in {appliedFile[r]} \cup (applied[r] + 1)..applied'[r]
      BY <2>3
    <3>2. \A r \in Replicas : appliedFile'[r] \in Nat /\ appliedFile'[r] <= applied[r] + count[r]
      <4> TAKE r \in Replicas
      <4>1. appliedFile'[r] = appliedFile[r] \/ appliedFile'[r] \in (applied[r] + 1)..(applied[r] + count[r])
        BY <1>6, <3>1
      <4> QED BY <2>1, <4>1
    <3>3. appliedFile' = [r \in Replicas |-> appliedFile'[r]] BY <3>1
    <3> QED BY <3>2, <3>3
  <2> QED BY <1>5, <2>2, <2>3 DEF SaveAllApplied
<1>10. /\ kept' \in [Replicas -> Data] /\ kept'[leader] = kept[leader]
       /\ \A r \in Followers, k \in Keys :
            \E m \in (applied[r] + count[r])..Max({reached[r], last[r]}) :
              kept'[r][k] = Apply(log, Empty, 1, m)[k]
  BY <1>3, <1>4, <1>5, KeptGiven
<1> QED BY <1>3, <1>4, <1>5, <1>7, <1>8, <1>9, <1>10, RoundKeeps

\* The call that fails: replicas before f are given all, f the first n, those after
\* f none.
LEMMA StoppedFacts ==
  ASSUME IInv, Running, NEW f \in Followers, NEW n \in 0..(Pending(f) - 1)
  PROVE  /\ StoppedAt(f, n) \in [Replicas -> Nat] /\ StoppedAt(f, n)[leader] = 0
         /\ StoppedAt(f, n)[f] = n
         /\ \A r \in Replicas : applied[r] + StoppedAt(f, n)[r] <= commitIndex
         /\ applied[f] + n + 1 \in 1..commitIndex
<1>0. TypeOK BY DEF IInv
<1>1. leader \in Replicas /\ f \in Replicas /\ f # leader /\ commitIndex \in Nat
  BY <1>0, Types DEF IInv, CommitInv, Followers, Seqs
<1>2. \A r \in Replicas : /\ Pending(r) \in Nat /\ applied[r] \in Nat
                          /\ applied[r] + Pending(r) <= commitIndex
  <2> TAKE r \in Replicas
  <2>1. applied[r] \in Nat BY <1>0, Types DEF Seqs
  <2> QED BY <2>1, PendingFacts
<1>3. n \in Nat /\ n < Pending(f) BY <1>1, <1>2
<1>4. \A r \in Replicas : StoppedAt(f, n)[r] = IF r < f THEN Pending(r) ELSE IF r = f THEN n ELSE 0
  BY DEF StoppedAt
<1>5. \A r \in Replicas : /\ StoppedAt(f, n)[r] \in Nat
                          /\ applied[r] + StoppedAt(f, n)[r] <= commitIndex
  <2> TAKE r \in Replicas
  <2>1. StoppedAt(f, n)[r] \in Nat /\ StoppedAt(f, n)[r] <= Pending(r)
    <3>1. CASE r < f BY <1>2, <1>4, <3>1
    <3>2. CASE r = f
      <4>1. ~(f < f) BY <1>1 DEF Replicas
      <4> QED BY <1>2, <1>3, <1>4, <3>2, <4>1
    <3>3. CASE ~(r < f) /\ r # f BY <1>2, <1>4, <3>3
    <3> QED BY <3>1, <3>2, <3>3
  <2> QED BY <1>1, <1>2, <2>1
<1>6. StoppedAt(f, n)[leader] = 0
  <2>1. Pending(leader) = 0 BY DEF Pending
  <2> QED BY <1>1, <1>4, <2>1
<1>7. StoppedAt(f, n)[f] = n
  <2>1. ~(f < f) BY <1>1 DEF Replicas
  <2> QED BY <1>1, <1>4, <2>1
<1>8. StoppedAt(f, n) \in [Replicas -> Nat] BY <1>5 DEF StoppedAt
<1>9. applied[f] + n + 1 \in 1..commitIndex BY <1>1, <1>2, <1>3
<1> QED BY <1>5, <1>6, <1>7, <1>8, <1>9

\* A call that ends at follower f: f's engine may have the operation that failed once
\* it is reopened, and then has its key as the prefix that this operation ends.
LEMMA RoundFailsStep ==
  ASSUME IInv, Running, UNCHANGED restVars, status' \in {"open", "replicating"}, RoundFails
  PROVE  IInv'
<1>0. TypeOK BY DEF IInv
<1> DEFINE Failed(f, n) ==
             LET count == StoppedAt(f, n)
                 next  == applied[f] + n + 1
             IN  /\ Advance(count)
                 /\ \E data \in MayKeep(Given(count)[f], log[next]) :
                      kept' = [Given(count) EXCEPT ![f] = data]
                 /\ Reach([r \in Replicas |->
                             IF r = leader THEN 0
                             ELSE IF r = f THEN next ELSE applied[r] + count[r]])
                 /\ appliedFile' = [r \in Replicas |->
                                      IF count[r] > 0 THEN applied'[r] ELSE appliedFile[r]]
<1>b. PICK f \in Followers : \E n \in 0..(Pending(f) - 1) : Failed(f, n) BY DEF RoundFails
<1>1. PICK n \in 0..(Pending(f) - 1) : Failed(f, n) BY <1>b
<1> DEFINE count == StoppedAt(f, n)
           next  == applied[f] + n + 1
           last  == [r \in Replicas |->
                       IF r = leader THEN 0 ELSE IF r = f THEN next ELSE applied[r] + count[r]]
<1>2. /\ count \in [Replicas -> Nat] /\ count[leader] = 0 /\ count[f] = n
      /\ \A r \in Replicas : applied[r] + count[r] <= commitIndex
      /\ next \in 1..commitIndex
  BY StoppedFacts
<1>3. /\ leader \in Replicas /\ f \in Replicas /\ f # leader /\ commitIndex \in 0..Len(log)
      /\ log \in Seq(Operation) /\ Len(log) \in Nat
      /\ \A r \in Followers : r \in Replicas /\ r # leader
  BY <1>0, Types DEF IInv, CommitInv, Followers, Seqs
<1>4. /\ Advance(count) /\ Reach(last)
      /\ appliedFile' = [r \in Replicas |-> IF count[r] > 0 THEN applied'[r] ELSE appliedFile[r]]
  BY <1>1
<1>c. \E data \in MayKeep(Given(count)[f], log[next]) : kept' = [Given(count) EXCEPT ![f] = data]
  BY <1>1
<1> HIDE DEF Failed
<1>5. PICK data \in MayKeep(Given(count)[f], log[next]) : kept' = [Given(count) EXCEPT ![f] = data]
  BY <1>c
<1>6. \A r \in Replicas : applied'[r] = applied[r] + count[r] BY <1>4 DEF Advance
<1>7. \A r \in Replicas : /\ applied[r] \in Nat /\ appliedFile[r] \in Nat /\ reached[r] \in Nat
                          /\ count[r] \in Nat
                          /\ appliedFile[r] <= applied[r]
  <2> TAKE r \in Replicas
  <2>1. applied[r] \in Nat /\ appliedFile[r] \in Nat /\ reached[r] \in Nat BY <1>0, Types DEF Seqs
  <2>2. appliedFile[r] <= applied[r] BY DEF IInv, CommitInv
  <2> QED BY <1>2, <2>1, <2>2
<1>8. \A r \in Replicas :
        last[r] = IF r = leader THEN 0 ELSE IF r = f THEN next ELSE applied[r] + count[r]
  OBVIOUS
<1>a. next = applied[f] + n + 1 /\ n \in Nat
  BY <1>2, <1>3, <1>7
<1>9. \A r \in Replicas : last[r] \in Nat /\ last[r] <= commitIndex
  <2> TAKE r \in Replicas
  <2> HIDE DEF next, last, count
  <2>1. CASE r = leader BY <1>3, <1>8, <2>1
  <2>2. CASE r = f BY <1>2, <1>3, <1>8, <2>2
  <2>3. CASE r # leader /\ r # f BY <1>2, <1>7, <1>8, <2>3
  <2> QED BY <2>1, <2>2, <2>3
<1>10. \A r \in Followers : applied[r] + count[r] <= last[r]
  <2> TAKE r \in Followers
  <2> HIDE DEF next, last, count
  <2>1. CASE r = f BY <1>2, <1>3, <1>7, <1>8, <1>a, <2>1
  <2>2. CASE r # f
    <3>1. last[r] = applied[r] + count[r] /\ last[r] \in Nat BY <1>3, <1>8, <1>9, <2>2
    <3> QED BY <3>1
  <2> QED BY <2>1, <2>2
<1>11. last \in [Replicas -> Nat] BY <1>8, <1>9
<1> HIDE DEF next, last, count
<1>12. used' \in Usage BY <1>0, FaultType DEF RoundFails, TypeOK
<1>13. /\ appliedFile' \in [Replicas -> Nat]
       /\ \A r \in Replicas : appliedFile'[r] <= applied[r] + count[r]
  <2>1. \A r \in Replicas : appliedFile'[r] \in Nat /\ appliedFile'[r] <= applied[r] + count[r]
    <3> TAKE r \in Replicas
    <3>1. appliedFile'[r] = applied[r] + count[r] \/ appliedFile'[r] = appliedFile[r] BY <1>4, <1>6
    <3> QED BY <1>7, <3>1
  <2> QED BY <1>4, <2>1
<1>14. /\ Given(count) \in [Replicas -> Data] /\ Given(count)[leader] = kept[leader]
       /\ \A r \in Followers, k \in Keys :
            \E m \in (applied[r] + count[r])..Max({reached[r], last[r]}) :
              Given(count)[r][k] = Apply(log, Empty, 1, m)[k]
  BY <1>2, <1>10, <1>11, KeptGiven
<1>15. next \in 1..Len(log) /\ log[next] \in Operation BY <1>2, <1>3
<1>16. data \in Data /\ data \in {Given(count)[f], Set(Given(count)[f], log[next])}
  <2>1. Given(count)[f] \in Data BY <1>3, <1>14
  <2> QED BY <1>5, <1>15, <2>1, SetFacts DEF MayKeep
<1>17. kept' \in [Replicas -> Data] /\ kept'[leader] = kept[leader] /\ kept'[f] = data
       /\ \A r \in Replicas : r # f => kept'[r] = Given(count)[r]
  BY <1>3, <1>5, <1>14, <1>16
<1>18. ASSUME NEW r \in Followers, NEW k \in Keys
       PROVE  \E m \in (applied[r] + count[r])..Max({reached[r], last[r]}) :
                kept'[r][k] = Apply(log, Empty, 1, m)[k]
  <2>1. CASE kept'[r][k] = Given(count)[r][k] BY <1>14, <2>1
  <2>2. CASE kept'[r][k] # Given(count)[r][k]
    <3>1. r = f /\ data = Set(Given(count)[f], log[next]) BY <1>3, <1>16, <1>17, <2>2
    <3>2. k = log[next].key /\ kept'[r][k] = log[next].value
      <4>1. Given(count)[f] \in Data BY <1>3, <1>14
      <4> QED BY <1>15, <1>17, <2>2, <3>1, <4>1, SetFacts
    <3>3. Apply(log, Empty, 1, next)[k] = log[next].value
      <4>1. 1 \in 1..(Len(log) + 1) /\ next \in 0..Len(log) /\ next \in 1..next BY <1>3, <1>15
      <4>2. \A j \in 1..next : j > next => log[j].key # k BY <1>15
      <4>3. log[next].key = k /\ log \in Seq(Operation) BY <1>3, <3>2
      <4>4. Apply(log, Empty, 1, next)[k] = log[next].value BY <4>1, <4>2, <4>3, ApplySome
      <4> QED BY <4>4
    <3>4. last[r] = next /\ next \in Nat BY <1>3, <1>8, <1>15, <3>1
    <3>5. Max({reached[r], last[r]}) \in {reached[r], next} /\ next <= Max({reached[r], last[r]})
      BY <1>3, <1>7, <3>1, <3>4, MaxOfTwo
    <3>6. applied[r] + count[r] \in Nat /\ applied[r] + count[r] <= next
      BY <1>2, <1>3, <1>7, <1>a, <3>1
    <3>7. next \in (applied[r] + count[r])..Max({reached[r], last[r]})
      BY <1>7, <1>3, <3>1, <3>4, <3>5, <3>6
    <3> QED BY <3>2, <3>3, <3>7
  <2> QED BY <2>1, <2>2
<1> QED BY <1>2, <1>4, <1>9, <1>10, <1>11, <1>12, <1>13, <1>17, <1>18, RoundKeeps

\* ReplicateOnce and the rounds of ReplicateAll.
LEMMA ReplicateStep ==
  ASSUME IInv, ReplicateOnce \/ ReplicateAllRound
  PROVE  IInv'
<1>1. /\ Running /\ UNCHANGED restVars /\ status' \in {"open", "replicating"}
      /\ Round \/ RoundFails
  BY DEF ReplicateOnce, ReplicateAllRound, Running
<1> QED BY <1>1, RoundStep, RoundFailsStep

----------------------------------------------------------------------------
(* The theorems                                                            *)

\* It holds before the first Open.
LEMMA InitIInv ==
  ASSUME Init
  PROVE  IInv
<1>1. log = <<>> /\ Len(log) = 0 BY DEF Init
<1>2. 0 \in Seqs BY <1>1 DEF Seqs
<1>3. TypeOK
  <2>1. log \in Seq(Operation) BY <1>1
  <2>2. kept \in [Replicas -> Data] /\ live \in [Replicas -> Data] BY EmptyType DEF Init
  <2>3. used \in Usage BY DEF Init, Usage
  <2> QED BY <1>2, <2>1, <2>2, <2>3 DEF Init, TypeOK
<1>4. CommitInv BY DEF Init, CommitInv, Running
<1>5. OnlyCommittedApplied BY DEF Init, OnlyCommittedApplied
<1>6. LeaderInv BY DEF Init, LeaderInv
<1>7. BetweenInv
  <2> SUFFICES ASSUME NEW r \in Followers, NEW k \in Keys
               PROVE  \E n \in appliedFile[r]..reached[r] : kept[r][k] = Apply(log, Empty, 1, n)[k]
    BY DEF BetweenInv, Floor, Init, Running, StateAt
  <2>1. r \in Replicas BY DEF Followers
  <2>2. appliedFile[r] = 0 /\ reached[r] = 0 /\ kept[r] = Empty BY <2>1 DEF Init
  <2>3. Apply(log, Empty, 1, 0)[k] = Empty[k] BY StateAtZero
  <2>4. 0 \in appliedFile[r]..reached[r] BY <2>2
  <2> QED BY <2>2, <2>3, <2>4
<1> QED BY <1>3, <1>4, <1>5, <1>6, <1>7 DEF IInv

\* Every step keeps IInv.
LEMMA NextIInv ==
  ASSUME IInv, [Next]_vars
  PROVE  IInv'
<1>1. ASSUME NEW id \in {-1} \cup Replicas, Open(id) \/ OpenStops(id) PROVE IInv'
  BY <1>1, OpenStep, OpenStopsStep
<1>2. CASE Close \/ Crash BY <1>2, StopStep
<1>3. CASE LogAppendFails BY <1>3, ControlStep
<1>4. ASSUME NEW op \in Operation, LeaderFails(op) \/ CommitFails(op) PROVE IInv'
  BY <1>4, LeaderFailsStep, CommitFailsStep
<1>5. ASSUME NEW k \in Keys, NEW v \in Values, Put(k, v) PROVE IInv'
  <2>1. [key |-> k, value |-> v] \in Operation BY DEF Operation
  <2> QED BY <1>5, <2>1, WriteStep DEF Put
<1>6. ASSUME NEW k \in Keys, Delete(k) PROVE IInv'
  <2>1. [key |-> k, value |-> Nil] \in Operation BY DEF Operation
  <2> QED BY <1>6, <2>1, WriteStep DEF Delete
<1>7. CASE ReplicateOnce \/ ReplicateAllRound BY <1>7, ReplicateStep
<1>8. CASE ReplicateAll \/ ReplicateAllDone BY <1>8, BeginEndStep
<1>9. CASE \/ \E f \in Replicas, p \in BOOLEAN : SetFollowerPaused(f, p)
           \/ \E f \in Replicas, n \in Lags : SetFollowerLag(f, n)
           \/ UNCHANGED vars
  BY <1>9, ControlStep
<1>10. CASE Flush BY <1>10, FlushStep
<1> QED BY <1>1, <1>2, <1>3, <1>4, <1>5, <1>6, <1>7, <1>8, <1>9, <1>10 DEF Next

\* IInv holds in every state that the store and its files can reach.
THEOREM InductiveInvariant == Spec => []IInv
<1>1. Init => IInv BY InitIInv
<1>2. IInv /\ [Next]_vars => IInv' BY NextIInv
<1> QED BY <1>1, <1>2, PTL DEF Spec

\* The files and the store's fields have their types.
THEOREM TypeCorrect == Spec => []TypeOK
<1>1. IInv => TypeOK BY DEF IInv
<1> QED BY <1>1, InductiveInvariant, PTL

\* Neither replicateOnce nor a restart gives a follower an operation beyond COMMIT,
\* and no APPLIED tells of one.
THEOREM OnlyCommittedAppliedAlways == Spec => []OnlyCommittedApplied
<1>1. IInv => OnlyCommittedApplied BY DEF IInv
<1> QED BY <1>1, InductiveInvariant, PTL

\* LeaderInv, for the last acknowledged write of the key.
LEMMA LeaderServes ==
  ASSUME IInv
  PROVE  LeaderServesAcked
<1> SUFFICES ASSUME Running, NEW k \in Keys, NEW r \in Readable("leader"),
                    {i \in acked : log[i].key = k} # {}
             PROVE  \E i \in Max({i \in acked : log[i].key = k})..Len(log) :
                      log[i].key = k /\ live[r][k] = log[i].value
  BY DEF LeaderServesAcked, Running, Get
<1> DEFINE done == {i \in acked : log[i].key = k}
<1>1. Len(log) \in Nat /\ acked \subseteq 1..Len(log) BY Types DEF IInv
<1>2. done \subseteq 0..Len(log) /\ done # {}
  <2>1. done \subseteq acked /\ done # {} OBVIOUS
  <2>2. 1..Len(log) \subseteq 0..Len(log) OBVIOUS
  <2> HIDE DEF done
  <2> QED BY <1>1, <2>1, <2>2
<1>3. Max(done) \in done BY <1>1, <1>2, MaxFound
<1>4. Max(done) \in acked /\ log[Max(done)].key = k BY <1>3
<1>5. r = leader BY DEF Readable
<1> HIDE DEF done
<1>6. Since(k, Max(done), live[leader][k]) BY <1>4 DEF IInv, LeaderInv
<1>7. \E i \in Max(done)..Len(log) : log[i].key = k /\ log[i].value = live[leader][k]
  BY <1>6 DEF Since
<1> QED BY <1>5, <1>7 DEF done

\* The leader answers a key with the last write that Put or Delete acknowledged, or
\* with one tried since, through every restart and failing step.
THEOREM LeaderServesAckedAlways == Spec => []LeaderServesAcked
<1>1. IInv => LeaderServesAcked BY LeaderServes
<1> QED BY <1>1, InductiveInvariant, PTL

\* BetweenInv, of an open store.
LEMMA Between ==
  ASSUME IInv
  PROVE  FollowerBetween
<1> SUFFICES ASSUME Running, NEW k \in Keys, NEW r \in Readable("follower")
             PROVE  \E n \in applied[r]..reached[r] : live[r][k] = StateAt(n)[k]
  BY DEF FollowerBetween, Running, Get
<1>1. r \in Followers BY DEF Readable
<1> QED BY <1>1 DEF IInv, BetweenInv, Floor

\* A follower answers each key as a prefix of the log has it, from its applied index
\* on and no further than its engine ever came.
THEOREM FollowerBetweenAlways == Spec => []FollowerBetween
<1>1. IInv => FollowerBetween BY Between
<1> QED BY <1>1, InductiveInvariant, PTL

\* A round that would apply nothing has nothing left for an unpaused follower.
LEMMA DoneMeansCaughtUp ==
  ASSUME IInv
  PROVE  ReplicateAllDone => \A f \in Followers : paused[f] \/ applied[f] = commitIndex
<1> SUFFICES ASSUME ReplicateAllDone, NEW f \in Followers, ~paused[f]
             PROVE  applied[f] = commitIndex
  OBVIOUS
<1>1. f \in Replicas /\ f # leader /\ Running /\ ~(Pending(f) > 0)
  BY DEF Followers, Running, ReplicateAllDone, Progress
<1>2. Pending(f) \in Nat /\ (Pending(f) = 0 => f = leader \/ paused[f] \/ applied[f] = commitIndex)
  BY <1>1, PendingFacts
<1> QED BY <1>1, <1>2

\* When ReplicateAll returns without an error, every follower that is not paused is
\* at the commit index, whatever its lag limit.
THEOREM AllCaughtUpAlways == Spec => AllCaughtUp
<1>1. IInv => [ReplicateAllDone => \A f \in Followers : paused[f] \/ applied[f] = commitIndex]_vars
  BY DoneMeansCaughtUp
<1> QED BY <1>1, InductiveInvariant, PTL DEF AllCaughtUp
=============================================================================
